------------------------------ MODULE MCEeprom ------------------------------
(***************************************************************************)
(* Instances of Eeprom for TLC: three bytes of memory, and nine numbers    *)
(* in place of 2^32.  The offsets are the ends of the memory, the first    *)
(* one behind it and, in AllRequests, the largest number.                  *)
(***************************************************************************)
EXTENDS Eeprom

Reads == [cmd : {"READ"}, offset : {1, Size + 1}, count : {Size}, data : {<<>>}]

Writes(offsets) ==
  {[cmd |-> "WRITE", offset |-> o, count |-> Len(d), data |-> d] :
     o \in offsets, d \in {<<>>, <<1>>, <<0, 1>>}}

OtherCommand == [NoRequest EXCEPT !.cmd = "other"]

PlainRequests == Reads \cup Writes({0, Size - 1, Size}) \cup {OtherCommand}
AllRequests == Reads \cup Writes({0, Word - 1})

NoFaults == {}
AllFaults == {"copy", "bus"}
=============================================================================
