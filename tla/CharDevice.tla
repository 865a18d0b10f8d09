---------------------------- MODULE CharDevice -----------------------------
(***************************************************************************)
(* What register_my_char_device and unregister_my_char_device promise to   *)
(* the drivers that call them: a character device appears as a whole or    *)
(* not at all, and the caller is told which.  A failed registration leaves *)
(* nothing of the device in the kernel, nor does unregistering it.  The    *)
(* devices of different modules do not touch each other.                   *)
(***************************************************************************)

CONSTANT Devices

VARIABLES
  device,  \* "absent", "registering", "present" or "unregistering"
  answer   \* what the call that just returned said: "ok", "error" or "none"

vars == <<device, answer>>

Init ==
  /\ device = [d \in Devices |-> "absent"]
  /\ answer = [d \in Devices |-> "none"]

Change(d, from, to, says) ==
  /\ device[d] = from
  /\ device' = [device EXCEPT ![d] = to]
  /\ answer' = [answer EXCEPT ![d] = says]

Register(d) == Change(d, "absent", "registering", "none")

RegisterReturns(d) ==
  \/ Change(d, "registering", "present", "ok")
  \/ Change(d, "registering", "absent", "error")

Unregister(d) == Change(d, "present", "unregistering", "none")

UnregisterReturns(d) == Change(d, "unregistering", "absent", "none")

Next ==
  \E d \in Devices :
    Register(d) \/ RegisterReturns(d) \/ Unregister(d) \/ UnregisterReturns(d)

Spec == Init /\ [][Next]_vars
=============================================================================
