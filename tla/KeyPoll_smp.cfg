CONSTANTS
  Keys = {k1, k2}
  Apps = {a1, a2}
  Drivers = {"poll", "sig"}
  SMP = TRUE
  Faults <- AllFaults
  Numbering = 1
SPECIFICATION Spec
SYMMETRY Symmetry
INVARIANTS
  NoLostWakeup
  StoredIsLevel
  SignalForUpdate
