CONSTANTS
  Keys = {k1}
  Apps = {a1, a2}
  Drivers = {"poll", "sig"}
  SMP = FALSE
  Faults <- NoFaults
  Numbering = 2
SPECIFICATION FairSpec
PROPERTIES
  ImplementsMailbox
  SettledLevelRead
