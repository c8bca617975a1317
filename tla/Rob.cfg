SPECIFICATION Spec
CONSTANTS
  Depth = 4
  Classes <- MCClasses
  NoReq = NoReq
  Workloads <- MCWorkloads
VIEW MCView
INVARIANT RegistersAgree
PROPERTIES RetiresLawfully ImplementsWindow
