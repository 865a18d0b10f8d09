CONSTANTS
  Drivers <- OnlyTimer
  GpioCount = 1
  CONFIG_SMP = {FALSE}
  EarlyEdges = TRUE
  Faults <- NoFaults
SPECIFICATION Spec
\* The kernel stops when it has followed a dangling pointer.
CHECK_DEADLOCK FALSE
INVARIANT TimerIsSetUp
