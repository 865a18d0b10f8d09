CONSTANTS
  Keys = {k1}
  Readers = {r1, r2}
  NonBlock = {r2}
  Deferrals = {"timer"}
  SMP = FALSE
  InOrder = TRUE
  Faults <- NoFaults
  Numbering = 1
SPECIFICATION Spec
INVARIANT NonBlockNeverSleeps
