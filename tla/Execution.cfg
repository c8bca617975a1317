SPECIFICATION Spec
CONSTANTS
  Depth = 4
  None = None
  RsDepth = 3
  Sources = {1, 2}
  Stages <- MCStages
  FifoDepth = 2
  Workloads <- MCWorkloads
VIEW RelativeState
INVARIANTS TypeOK CreditsAgree OperandsArrive ExactlyOnce
