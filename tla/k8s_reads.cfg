CONSTANTS
  Cases    <- MCCases
  Pods     <- MCPods
  Machines <- MCMachines
  Moved    <- MCMoved
  MaxMoves =  2
  Gone     =  Gone
  Kilo     <- MCKilo
  Kibi     <- MCKibi
  TopMax   =  1
  Listed   <- MCListed
SPECIFICATION Spec
INVARIANTS
  CauseIsNamed
  CrashReportIsTrue
  PressureIsMeasured
  RolledOutMeansRolledOut
PROPERTY
  EveryReadIsAnswered
CHECK_DEADLOCK FALSE
