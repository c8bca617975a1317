SPECIFICATION Spec
CONSTANTS
  Depth = 4
  Classes <- MCClasses
  NoReq = NoReq
  NumCheckpoints = 3
  Workloads <- BranchWorkloads
VIEW RelativeState
INVARIANTS StaleHoldFreesNothing
