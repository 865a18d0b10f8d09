CONSTANTS
  Processes = {p1, p2}
  Size = 3
  Word = 9
  Tries = 3
  Cycle = 2
  Byte = {0, 1}
  Requests <- PlainRequests
  Faults <- AllFaults
SPECIFICATION FairSpec
INVARIANTS
  SuccessIsDone
  TimeoutNeedsCompany
PROPERTIES
  ImplementsMemory
  CallEnds
