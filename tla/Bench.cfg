CONSTANTS
  None = None
  Depth = 8
  Workloads <- MCWorkloads
  Samples <- MCSamples
  Operands <- MCOperands
  XLEN = 8
  MEMORY_ADDRESS_WIDTH = 4
  IMM_BITS = 5
  BRANCH_BITS = 7
  NUM_REGISTERS = 3
  MaxStalls = 1
  FP_EXP = 3
  FP_MANT = 2
  DP_EXP = 3
  DP_MANT = 3
  HOST_BITS = 8
SPECIFICATION Spec
CHECK_DEADLOCK FALSE
INVARIANTS   LayoutsAgree  DatapathMatchesModel
  FpIsRight GeneratedIsLegal
