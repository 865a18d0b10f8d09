------------------------------ MODULE CharDev ------------------------------
(***************************************************************************)
(* my_chr_dev.c, the helper by which the key drivers, the EEPROM driver    *)
(* and dyn_chr_dev make and remove their character device.  A device is    *)
(* made of four kernel objects, each resting on those before it: a number, *)
(* a cdev that leads from the number to the driver, a class, and a device  *)
(* node.  Any of the four calls may fail; register_my_char_device then     *)
(* goes to the label that takes back what was made so far.                 *)
(*                                                                         *)
(* Several modules may be loading or leaving at once.  They share the      *)
(* kernel's pool of device numbers, and each call is a step of its own.    *)
(***************************************************************************)
EXTENDS Integers, FiniteSets

CONSTANTS
  Devices,  \* one my_char_device_info for each loaded module
  DevNums,  \* bound: the dynamic device numbers of the kernel
  Faults    \* the calls that may fail, by name

Calls == {"alloc_chrdev_region", "cdev_add", "class_create", "device_create"}

ASSUME CharDevAssumption ==
  /\ 0 \notin DevNums
  /\ Faults \subseteq Calls

VARIABLES
  dev_num,  \* dev_info->dev_num; 0 until it was first given one
  held,     \* the kernel objects that exist for each device
  step,     \* the call or the label that is next, "idle" outside both functions
  ret       \* what register_my_char_device is to answer, "none" outside it

vars == <<dev_num, held, step, ret>>

Objects == {"region", "cdev", "class", "device"}
Labels == {"destroy_class", "del_cdev", "unregister_chrdev"}
Unregistering == {"device_destroy", "class_destroy", "cdev_del",
                  "unregister_chrdev_region"}

TypeOK ==
  /\ dev_num \in [Devices -> DevNums \cup {0}]
  /\ held \in [Devices -> SUBSET Objects]
  /\ step \in [Devices -> Calls \cup Labels \cup Unregistering \cup {"idle"}]
  /\ ret \in [Devices -> {"none", "ok", "error"}]
  /\ \A d \in Devices : "region" \in held[d] => dev_num[d] \in DevNums

Init ==
  /\ dev_num = [d \in Devices |-> 0]
  /\ held = [d \in Devices |-> {}]
  /\ step = [d \in Devices |-> "idle"]
  /\ ret = [d \in Devices |-> "none"]

-----------------------------------------------------------------------------

Goto(d, from, to) ==
  /\ step[d] = from
  /\ step' = [step EXCEPT ![d] = to]

Answer(d, r) == ret' = [ret EXCEPT ![d] = r]

\* The call that makes an object succeeds, or fails and leads to a label.
Make(d, call, object, to) ==
  /\ Goto(d, call, to)
  /\ held' = [held EXCEPT ![d] = @ \cup {object}]
  /\ UNCHANGED dev_num

Fail(d, call, label) ==
  /\ call \in Faults
  /\ Goto(d, call, label)
  /\ Answer(d, "error")
  /\ UNCHANGED <<dev_num, held>>

Destroy(d, from, object, to) ==
  /\ Goto(d, from, to)
  /\ held' = [held EXCEPT ![d] = @ \ {object}]
  /\ UNCHANGED <<dev_num, ret>>

-----------------------------------------------------------------------------
(* register_my_char_device.  All callers pass major 0.                     *)

Register(d) ==
  /\ held[d] = {}
  /\ Goto(d, "idle", "alloc_chrdev_region")
  /\ Answer(d, "none")
  /\ UNCHANGED <<dev_num, held>>

FreeNums ==
  DevNums \ {dev_num[d] : d \in {e \in Devices : "region" \in held[e]}}

AllocRegion(d) ==
  \E n \in FreeNums :
    /\ Goto(d, "alloc_chrdev_region", "cdev_add")
    /\ dev_num' = [dev_num EXCEPT ![d] = n]
    /\ held' = [held EXCEPT ![d] = {"region"}]
    /\ UNCHANGED ret

\* Out of numbers, or out of memory.
AllocRegionFails(d) ==
  \/ Fail(d, "alloc_chrdev_region", "idle")
  \/ /\ FreeNums = {}
     /\ Goto(d, "alloc_chrdev_region", "idle")
     /\ Answer(d, "error")
     /\ UNCHANGED <<dev_num, held>>

CdevAdd(d) == Make(d, "cdev_add", "cdev", "class_create") /\ UNCHANGED ret
CdevAddFails(d) == Fail(d, "cdev_add", "unregister_chrdev")

ClassCreate(d) ==
  Make(d, "class_create", "class", "device_create") /\ UNCHANGED ret

\* Seeded bug: one label too far, so that the cdev is left behind.
ClassCreateFailsFar(d) == Fail(d, "class_create", "unregister_chrdev")
ClassCreateFails(d) == Fail(d, "class_create", "del_cdev")

DeviceCreate(d) ==
  Make(d, "device_create", "device", "idle") /\ Answer(d, "ok")
DeviceCreateFails(d) == Fail(d, "device_create", "destroy_class")

\* The labels, each falling through to the next.
DestroyClass(d) == Destroy(d, "destroy_class", "class", "del_cdev")
DelCdev(d) == Destroy(d, "del_cdev", "cdev", "unregister_chrdev")
UnregisterChrdev(d) == Destroy(d, "unregister_chrdev", "region", "idle")

-----------------------------------------------------------------------------
(* unregister_my_char_device.                                              *)

Unregister(d) ==
  /\ held[d] = Objects
  /\ Goto(d, "idle", "device_destroy")
  /\ Answer(d, "none")
  /\ UNCHANGED <<dev_num, held>>

\* Seeded bugs: the cdev goes before the node; the number before the cdev.
CdevFirst(d) ==
  \/ Destroy(d, "device_destroy", "cdev", "class_destroy")
  \/ Destroy(d, "class_destroy", "device", "cdev_del")
  \/ Destroy(d, "cdev_del", "class", "unregister_chrdev_region")
  \/ Destroy(d, "unregister_chrdev_region", "region", "idle")

NumberFirst(d) ==
  \/ Destroy(d, "device_destroy", "device", "class_destroy")
  \/ Destroy(d, "class_destroy", "class", "cdev_del")
  \/ Destroy(d, "cdev_del", "region", "unregister_chrdev_region")
  \/ Destroy(d, "unregister_chrdev_region", "cdev", "idle")

UnregisterStep(d) ==
  \/ Destroy(d, "device_destroy", "device", "class_destroy")
  \/ Destroy(d, "class_destroy", "class", "cdev_del")
  \/ Destroy(d, "cdev_del", "cdev", "unregister_chrdev_region")
  \/ Destroy(d, "unregister_chrdev_region", "region", "idle")

\* Every step inside the two functions.
Step(d) ==
  \/ AllocRegion(d) \/ AllocRegionFails(d)
  \/ CdevAdd(d) \/ CdevAddFails(d)
  \/ ClassCreate(d) \/ ClassCreateFails(d)
  \/ DeviceCreate(d) \/ DeviceCreateFails(d)
  \/ DestroyClass(d) \/ DelCdev(d) \/ UnregisterChrdev(d)
  \/ UnregisterStep(d)

Next == \E d \in Devices : Register(d) \/ Unregister(d) \/ Step(d)

Spec == Init /\ [][Next]_vars

-----------------------------------------------------------------------------

\* At every moment an object exists only together with those it rests on: a
\* node in /dev has its class and leads to a driver, and a cdev is only ever
\* mapped at a number that is still reserved.  The order of the four calls
\* (lines 12-48), of the labels (52-57) and of the removal (62-65) is for this.
RestsOn ==
  \A d \in Devices :
    /\ "device" \in held[d] => "class" \in held[d]
    /\ "class" \in held[d] => "cdev" \in held[d]
    /\ "cdev" \in held[d] => "region" \in held[d]

\* No two modules answer to the same number, not even while one of them is
\* taking its device back (lines 54-57, 64-65) and the other makes its own.
OneDriverPerNumber ==
  \A d, e \in Devices :
    "cdev" \in held[d] /\ "cdev" \in held[e] /\ dev_num[d] = dev_num[e]
      => d = e

\* What a module's caller sees of its device; "torn" is neither there nor gone.
DeviceOf(d) ==
  CASE step[d] \in Unregistering -> "unregistering"
    [] step[d] \in Calls \cup Labels -> "registering"
    [] step[d] = "idle" /\ held[d] = {} -> "absent"
    [] step[d] = "idle" /\ held[d] = Objects -> "present"
    [] OTHER -> "torn"

AnswerTo(d) == IF step[d] = "idle" THEN ret[d] ELSE "none"

Promise == INSTANCE CharDevice WITH device <- [d \in Devices |-> DeviceOf(d)],
                                    answer <- [d \in Devices |-> AnswerTo(d)]

\* Each device appears as a whole or not at all, whichever call fails, and
\* register_my_char_device tells its caller which.
AllOrNothing == Promise!Spec
=============================================================================
