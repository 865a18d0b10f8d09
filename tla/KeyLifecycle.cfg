CONSTANTS
  Drivers <- AllDrivers
  GpioCount = 2
  CONFIG_SMP = {TRUE, FALSE}
  EarlyEdges = TRUE
  Faults <- EveryFault
SPECIFICATION FairSpec
\* The kernel stops when it has followed a dangling pointer.
CHECK_DEADLOCK FALSE
INVARIANTS
  DanglingHasCause
  UnboundHoldsNothing
  RemoveFindsAll
PROPERTY ModuleSettles
