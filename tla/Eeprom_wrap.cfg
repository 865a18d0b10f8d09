CONSTANTS
  Processes = {p1}
  Size = 3
  Word = 9
  Tries = 2
  Cycle = 1
  Byte = {0, 1}
  Requests <- AllRequests
  Faults <- NoFaults
SPECIFICATION Spec
INVARIANT AcceptedWriteFits
