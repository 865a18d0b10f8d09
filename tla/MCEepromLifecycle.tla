------------------------- MODULE MCEepromLifecycle --------------------------
(* Instances of EepromLifecycle, and with it of CharDev, for TLC: the      *)
(* EEPROM driver between modules that load and leave side by side with it. *)
EXTENDS EepromLifecycle

EveryCall == Calls
=============================================================================
