--------------------------- MODULE MCKeyLifecycle ---------------------------
(* Instances of KeyLifecycle for TLC. *)
EXTENDS KeyLifecycle

AllDrivers == {"timer", "tasklet", "work", "poll", "sig", "log"}
OnlyTimer == {"timer"}

NoFaults == {}
EveryFault == ProbeCalls \cup ChrCalls
=============================================================================
