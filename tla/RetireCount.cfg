SPECIFICATION Spec
CONSTANTS
  Depth = 4
  Classes = {"int", "store", "wfi", "jal", "jalr", "amo", "csr_m", "csr_u", "mret", "fence_i"}
  NoReq = NoReq
  Pc <- MCPc
  Handler <- MCHandler
  Programs <- SyncPrograms
  SqDepth = 2
VIEW RelativeState
PROPERTIES RetirementsAreCounted
