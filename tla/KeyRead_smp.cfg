CONSTANTS
  Keys = {k1, k2}
  Readers = {r1, r2}
  NonBlock = {}
  Deferrals = {"tasklet"}
  SMP = TRUE
  InOrder = FALSE
  Faults <- AllFaults
  Numbering = 1
SPECIFICATION Spec
SYMMETRY BlockersSymmetry
VIEW WithoutGot
INVARIANTS
  NoLostWakeup
  StoredIsLevel
