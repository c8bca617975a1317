SPECIFICATION Spec
CONSTANTS
  Depth = 4
  Classes <- MCClasses
  NoReq = NoReq
  NumCheckpoints = 2
  Workloads <- MCWorkloads
VIEW RelativeState
INVARIANTS CheckpointsOwned RenameCorrect RobContractKept
PROPERTY RecoveryIsExact
