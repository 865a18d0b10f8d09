CONSTANTS
  Devices = {eeprom, keys, dyn}
  DevNums = {1, 2}
  Faults <- EveryCall
  Eeprom = eeprom
  Callers = {c1, c2}
SPECIFICATION OwnSpec
INVARIANTS
  RestsOn
  OneDriverPerNumber
  FileIsServed
PROPERTY AllOrNothing
