SPECIFICATION FairSpec
CONSTANTS
  Depth = 4
  Classes = {"int", "store", "wfi", "jal", "jalr", "amo", "csr_m", "csr_u", "mret", "fence_i"}
  NoReq = NoReq
  Pc <- MCPc
  Handler <- MCHandler
  Programs <- LivePrograms
  SqDepth = 2
PROPERTIES InterruptsAreTaken RetirementProgresses
