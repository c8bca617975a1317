SPECIFICATION ScriptsSpec
CONSTANTS
  None = None
  LoadPolls = 1
  ResetPolls = 2
  MaxPolls = 5
  Workloads <- MCWorkloads
  Absent = Absent
  DTB_WORD = 10
  INITRD_WORD = 14
  MaxCalls = 4
  HookAddrs <- MCHookAddrs
  SizeOf <- MCSizeOf
  Sites <- MCSites
INVARIANTS TypeOK  FreshOutputKept RerunChangesNothing 
PROPERTIES ProbeReachesItsImage RegressionEnds
CHECK_DEADLOCK FALSE
