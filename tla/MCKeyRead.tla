----------------------------- MODULE MCKeyRead ------------------------------
(***************************************************************************)
(* Instances of KeyRead for TLC.  Keys and readers are interchangeable:    *)
(* the actions and the safety properties only quantify over them.          *)
(***************************************************************************)
EXTENDS KeyRead, TLC

AllFaults == {"gpio", "copy", "signal"}
NoFaults == {}

BlockersSymmetry == Permutations(Keys) \cup Permutations(Readers \ NonBlock)

\* A view without what was handed out last: no action reads it.
WithoutGot == <<hwVars, bhVars, sharedVars, waiters, pc, signalled>>
=============================================================================
