CONSTANTS
  Users = {u1, u2}
  Faults <- EveryLedClassFault
  Openers = {o1, o2}
  LedFaults <- EveryLedFault
  PadResets <- GpioOrNot
  Shared = {"gpio_data"}
  KthreadFaults = {"kthread_create"}
SPECIFICATION OneSpec
\* A thread that died of an error pointer keeps probe waiting for ever.
CHECK_DEADLOCK FALSE
INVARIANTS
  UnboundHoldsLittle
  UsersFindRegisters
  OpenedIsOutput
  EveryBitItsOwner
  StopFindsThread
PROPERTIES
  DrivenByHolder
  ComingAndGoingEnds
  StopEnds
