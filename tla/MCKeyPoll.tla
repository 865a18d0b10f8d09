------------------------------ MODULE MCKeyPoll ------------------------------
(***************************************************************************)
(* Instances of KeyPoll for TLC.  Keys and applications are                *)
(* interchangeable in the actions and in the safety properties.            *)
(***************************************************************************)
EXTENDS KeyPoll, TLC

NoFaults == {}
AllFaults == {"gpio", "copy"}

Symmetry == Permutations(Keys) \cup Permutations(Apps)
=============================================================================
