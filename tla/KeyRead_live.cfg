CONSTANTS
  Keys = {k1}
  Readers = {r1, r2}
  NonBlock = {r2}
  Deferrals = {"timer", "work"}
  SMP = TRUE
  InOrder = TRUE
  Faults <- NoFaults
  Numbering = 2
SPECIFICATION FairSpec
PROPERTIES
  ImplementsMailbox
  SettledLevelRead
  UpdateConsumed
