SPECIFICATION Spec
CONSTANTS
  LqDepth = 2
  SqDepth = 3
  None = None
  Depth = 4
  NumCheckpoints = 2
  RsDepth <- MCRsDepth
  Workloads <- MCWorkloads
INVARIANTS TypeOK   GoldenBusAgrees 
PROPERTIES ImplementsInstructionWindow 
CHECK_DEADLOCK FALSE
VIEW MCView
