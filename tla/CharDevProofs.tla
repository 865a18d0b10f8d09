--------------------------- MODULE CharDevProofs ---------------------------
(***************************************************************************)
(* The properties of CharDev for any number of modules and device numbers, *)
(* and whichever calls may fail.                                           *)
(***************************************************************************)
EXTENDS CharDev, TLAPS

(* What exists of a device is determined by the step its module is at:     *)
(* this is what makes every label take back exactly what was made.         *)

MadeAt(s) ==
  CASE s \in {"cdev_add", "unregister_chrdev", "unregister_chrdev_region"}
         -> {"region"}
    [] s \in {"class_create", "del_cdev", "cdev_del"} -> {"region", "cdev"}
    [] s \in {"device_create", "destroy_class", "class_destroy"}
         -> {"region", "cdev", "class"}
    [] s = "device_destroy" -> Objects
    [] OTHER -> {}

StepMatches(d) ==
  /\ step[d] # "idle" => held[d] = MadeAt(step[d])
  /\ step[d] = "idle" =>
       \/ held[d] = {} /\ ret[d] \in {"none", "error"}
       \/ held[d] = Objects /\ ret[d] = "ok"
  /\ step[d] \in Calls \cup Unregistering => ret[d] = "none"
  /\ step[d] \in Labels => ret[d] = "error"

NumbersDiffer ==
  \A d, e \in Devices :
    "region" \in held[d] /\ "region" \in held[e] /\ dev_num[d] = dev_num[e]
      => d = e

CharDevInv ==
  /\ TypeOK
  /\ \A d \in Devices : StepMatches(d)
  /\ NumbersDiffer

USE DEF Calls, Labels, Unregistering, Objects

\* A step of one module leaves the others' devices alone.
LEMMA OthersStay ==
  ASSUME TypeOK, NEW d \in Devices, Register(d) \/ Unregister(d) \/ Step(d),
         NEW e \in Devices, e # d
  PROVE  /\ step'[e] = step[e] /\ held'[e] = held[e]
         /\ ret'[e] = ret[e] /\ dev_num'[e] = dev_num[e]
BY DEF TypeOK, Register, Unregister, Step, AllocRegion, AllocRegionFails,
       CdevAdd, CdevAddFails, ClassCreate, ClassCreateFails, DeviceCreate,
       DeviceCreateFails, DestroyClass, DelCdev, UnregisterChrdev,
       UnregisterStep, Make, Fail, Destroy, Goto, Answer

\* The device of the module that takes the step keeps its types and its match.
LEMMA OwnStep ==
  ASSUME CharDevInv, NEW d \in Devices,
         Register(d) \/ Unregister(d) \/ Step(d)
  PROVE  /\ TypeOK'
         /\ StepMatches(d)'
<1> USE DEF CharDevInv, TypeOK, StepMatches, MadeAt, Goto, Answer, Make, Fail,
            Destroy
<1>1. CASE Register(d) \/ Unregister(d)
  BY <1>1 DEF Register, Unregister
<1>2. CASE AllocRegion(d)
  <2>1. PICK n \in DevNums :
          /\ step[d] = "alloc_chrdev_region"
          /\ step' = [step EXCEPT ![d] = "cdev_add"]
          /\ dev_num' = [dev_num EXCEPT ![d] = n]
          /\ held' = [held EXCEPT ![d] = {"region"}]
          /\ ret' = ret
    BY <1>2 DEF AllocRegion, FreeNums
  <2>2. TypeOK'
    BY <2>1
  <2>3. QED
    BY <2>1, <2>2
<1>3. CASE AllocRegionFails(d)
  BY <1>3 DEF AllocRegionFails
<1>4. CASE CdevAdd(d)
  BY <1>4 DEF CdevAdd
<1>5. CASE CdevAddFails(d) \/ ClassCreateFails(d) \/ DeviceCreateFails(d)
  BY <1>5 DEF CdevAddFails, ClassCreateFails, DeviceCreateFails
<1>6. CASE ClassCreate(d)
  BY <1>6 DEF ClassCreate
<1>7. CASE DeviceCreate(d)
  BY <1>7 DEF DeviceCreate
<1>8. CASE DestroyClass(d) \/ DelCdev(d) \/ UnregisterChrdev(d)
  <2>1. CASE DestroyClass(d)
    BY <2>1 DEF DestroyClass
  <2>2. CASE DelCdev(d)
    BY <2>2 DEF DelCdev
  <2>3. CASE UnregisterChrdev(d)
    BY <2>3 DEF UnregisterChrdev
  <2>4. QED
    BY <1>8, <2>1, <2>2, <2>3
<1>9. CASE UnregisterStep(d)
  BY <1>9 DEF UnregisterStep
<1>10. QED
  BY <1>1, <1>2, <1>3, <1>4, <1>5, <1>6, <1>7, <1>8, <1>9 DEF Step

\* Only AllocRegion makes a region, at a number that is free.
LEMMA NumbersStep ==
  ASSUME CharDevInv, NEW d \in Devices,
         Register(d) \/ Unregister(d) \/ Step(d)
  PROVE  NumbersDiffer'
<1> USE DEF CharDevInv, TypeOK, NumbersDiffer
<1>1. \A e \in Devices : e # d => held'[e] = held[e] /\ dev_num'[e] = dev_num[e]
  BY OthersStay
<1>2. CASE AllocRegion(d)
  <2>1. PICK n \in FreeNums : dev_num'[d] = n
    BY <1>2 DEF AllocRegion
  <2>2. \A e \in Devices : "region" \in held[e] => dev_num[e] # n
    BY DEF FreeNums
  <2>3. QED
    BY <1>1, <2>1, <2>2
<1>3. CASE ~AllocRegion(d)
  <2>1. dev_num'[d] = dev_num[d]
    BY <1>3 DEF Register, Unregister, Step, AllocRegionFails, CdevAdd,
       CdevAddFails, ClassCreate, ClassCreateFails, DeviceCreate,
       DeviceCreateFails, DestroyClass, DelCdev, UnregisterChrdev,
       UnregisterStep, Make, Fail, Destroy
  <2>2. "region" \in held'[d] => "region" \in held[d]
    BY <1>3 DEF StepMatches, MadeAt, Register, Unregister, Step,
       AllocRegionFails, CdevAdd, CdevAddFails, ClassCreate, ClassCreateFails,
       DeviceCreate, DeviceCreateFails, DestroyClass, DelCdev,
       UnregisterChrdev, UnregisterStep, Make, Fail, Destroy, Goto
  <2>3. QED
    BY <1>1, <2>1, <2>2
<1>4. QED
  BY <1>2, <1>3

LEMMA CharDevInvStep == CharDevInv /\ [Next]_vars => CharDevInv'
<1> SUFFICES ASSUME CharDevInv, [Next]_vars
             PROVE  CharDevInv'
  OBVIOUS
<1>1. ASSUME NEW d \in Devices, Register(d) \/ Unregister(d) \/ Step(d)
      PROVE  CharDevInv'
  <2>1. TypeOK' /\ StepMatches(d)'
    BY <1>1, OwnStep
  <2>2. ASSUME NEW e \in Devices, e # d PROVE StepMatches(e)'
    <3>1. /\ step'[e] = step[e] /\ held'[e] = held[e]
          /\ ret'[e] = ret[e] /\ dev_num'[e] = dev_num[e]
      BY <1>1, <2>2, OthersStay DEF CharDevInv
    <3>2. StepMatches(e)
      BY DEF CharDevInv
    <3>3. QED
      BY <3>1, <3>2 DEF StepMatches
  <2>3. NumbersDiffer'
    BY <1>1, NumbersStep
  <2>4. QED
    BY <2>1, <2>2, <2>3 DEF CharDevInv
<1>2. CASE UNCHANGED vars
  BY <1>2 DEF vars, CharDevInv, TypeOK, StepMatches, NumbersDiffer
<1>3. QED
  BY <1>1, <1>2 DEF Next

\* The inductive invariant: step, objects and answer of each device match, and
\* reserved numbers differ.
THEOREM Matched == Spec => []CharDevInv
<1>1. Init => CharDevInv
  BY DEF Init, CharDevInv, TypeOK, StepMatches, NumbersDiffer, MadeAt
<1>2. QED
  BY <1>1, CharDevInvStep, PTL DEF Spec

\* The types, and that a reserved number is stored in dev_info.
THEOREM TypeCorrect == Spec => []TypeOK
<1>1. CharDevInv => TypeOK
  BY DEF CharDevInv
<1>2. QED
  BY <1>1, Matched, PTL

\* A node always has its class and leads to a cdev at a reserved number.
THEOREM ObjectsRest == Spec => []RestsOn
<1>1. CharDevInv => RestsOn
  <2> SUFFICES ASSUME CharDevInv, NEW d \in Devices
               PROVE  /\ "device" \in held[d] => "class" \in held[d]
                      /\ "class" \in held[d] => "cdev" \in held[d]
                      /\ "cdev" \in held[d] => "region" \in held[d]
    BY DEF RestsOn
  <2>1. TypeOK /\ StepMatches(d)
    BY DEF CharDevInv
  <2>2. QED
    BY <2>1 DEF TypeOK, StepMatches, MadeAt
<1>2. QED
  BY <1>1, Matched, PTL

\* No number leads to two drivers.
THEOREM NumbersUnique == Spec => []OneDriverPerNumber
<1>1. CharDevInv /\ RestsOn => OneDriverPerNumber
  BY DEF CharDevInv, NumbersDiffer, RestsOn, OneDriverPerNumber
<1>2. QED
  BY <1>1, Matched, ObjectsRest, PTL

-----------------------------------------------------------------------------
(* The refinement.  A call of one of the two functions and its return are  *)
(* the steps of CharDevice; the steps in between are stutters.             *)

See(d, from, to, says) ==
  /\ DeviceOf(d) = from
  /\ DeviceOf(d)' = to
  /\ AnswerTo(d)' = says

\* A step of module d that its caller sees is a step of CharDevice.
LEMMA SeenIsChanged ==
  ASSUME TypeOK, NEW d \in Devices, Register(d) \/ Unregister(d) \/ Step(d),
         NEW from, NEW to, NEW says, See(d, from, to, says)
  PROVE  Promise!Change(d, from, to, says)
<1>1. \A e \in Devices \ {d} :
        DeviceOf(e)' = DeviceOf(e) /\ AnswerTo(e)' = AnswerTo(e)
  BY OthersStay DEF DeviceOf, AnswerTo
<1>2. QED
  BY <1>1 DEF See, Promise!Change

\* A step of module d that its caller does not see is a stutter.
LEMMA UnseenIsStutter ==
  ASSUME TypeOK, NEW d \in Devices, Register(d) \/ Unregister(d) \/ Step(d),
         DeviceOf(d)' = DeviceOf(d), AnswerTo(d)' = AnswerTo(d)
  PROVE  UNCHANGED Promise!vars
<1>1. \A e \in Devices \ {d} :
        DeviceOf(e)' = DeviceOf(e) /\ AnswerTo(e)' = AnswerTo(e)
  BY OthersStay DEF DeviceOf, AnswerTo
<1>2. QED
  BY <1>1 DEF Promise!vars

\* What one step looks like from outside, by the step it starts from.
LEMMA OneStepSeen ==
  ASSUME CharDevInv, NEW d \in Devices,
         Register(d) \/ Unregister(d) \/ Step(d)
  PROVE  \/ See(d, "absent", "registering", "none")
         \/ See(d, "registering", "present", "ok")
         \/ See(d, "registering", "absent", "error")
         \/ See(d, "present", "unregistering", "none")
         \/ See(d, "unregistering", "absent", "none")
         \/ DeviceOf(d)' = DeviceOf(d) /\ AnswerTo(d)' = AnswerTo(d)
<1>1. TypeOK /\ StepMatches(d) /\ TypeOK' /\ StepMatches(d)'
  BY OwnStep DEF CharDevInv
<1> USE DEF TypeOK, StepMatches, MadeAt, Goto, Answer, Make, Fail, Destroy,
            See, DeviceOf, AnswerTo
<1>2. CASE Register(d)
  BY <1>1, <1>2 DEF Register
<1>3. CASE Unregister(d)
  BY <1>1, <1>3 DEF Unregister
<1>4. CASE AllocRegion(d)
  BY <1>1, <1>4 DEF AllocRegion
<1>5. CASE AllocRegionFails(d)
  BY <1>1, <1>5 DEF AllocRegionFails
<1>6. CASE CdevAdd(d) \/ ClassCreate(d)
  BY <1>1, <1>6 DEF CdevAdd, ClassCreate
<1>7. CASE CdevAddFails(d) \/ ClassCreateFails(d) \/ DeviceCreateFails(d)
  BY <1>1, <1>7 DEF CdevAddFails, ClassCreateFails, DeviceCreateFails
<1>8. CASE DeviceCreate(d)
  BY <1>1, <1>8 DEF DeviceCreate
<1>9. CASE DestroyClass(d) \/ DelCdev(d)
  BY <1>1, <1>9 DEF DestroyClass, DelCdev
<1>10. CASE UnregisterChrdev(d)
  BY <1>1, <1>10 DEF UnregisterChrdev
<1>11. CASE UnregisterStep(d)
  BY <1>1, <1>11 DEF UnregisterStep
<1>12. QED
  BY <1>2, <1>3, <1>4, <1>5, <1>6, <1>7, <1>8, <1>9, <1>10, <1>11 DEF Step

LEMMA PromiseStep ==
  ASSUME CharDevInv, [Next]_vars
  PROVE  [Promise!Next]_(Promise!vars)
<1>1. ASSUME NEW d \in Devices, Register(d) \/ Unregister(d) \/ Step(d)
      PROVE  [Promise!Next]_(Promise!vars)
  <2>1. TypeOK
    BY DEF CharDevInv
  <2>2. CASE See(d, "absent", "registering", "none")
    BY <1>1, <2>1, <2>2, SeenIsChanged DEF Promise!Next, Promise!Register
  <2>3. CASE \/ See(d, "registering", "present", "ok")
             \/ See(d, "registering", "absent", "error")
    BY <1>1, <2>1, <2>3, SeenIsChanged
    DEF Promise!Next, Promise!RegisterReturns
  <2>4. CASE See(d, "present", "unregistering", "none")
    BY <1>1, <2>1, <2>4, SeenIsChanged DEF Promise!Next, Promise!Unregister
  <2>5. CASE See(d, "unregistering", "absent", "none")
    BY <1>1, <2>1, <2>5, SeenIsChanged
    DEF Promise!Next, Promise!UnregisterReturns
  <2>6. CASE DeviceOf(d)' = DeviceOf(d) /\ AnswerTo(d)' = AnswerTo(d)
    BY <1>1, <2>1, <2>6, UnseenIsStutter
  <2>7. QED
    BY <1>1, <2>2, <2>3, <2>4, <2>5, <2>6, OneStepSeen
<1>2. CASE UNCHANGED vars
  BY <1>2 DEF vars, Promise!vars, DeviceOf, AnswerTo
<1>3. QED
  BY <1>1, <1>2 DEF Next

\* my_chr_dev.c implements CharDevice: whichever call fails, the device is
\* there as a whole or not at all, and the caller knows.
THEOREM DeviceWholeOrAbsent == Spec => AllOrNothing
<1>1. Init => Promise!Init
  BY DEF Init, Promise!Init, DeviceOf, AnswerTo
<1>2. CharDevInv /\ [Next]_vars => [Promise!Next]_(Promise!vars)
  BY PromiseStep
<1>3. QED
  BY <1>1, <1>2, Matched, PTL DEF Spec, AllOrNothing, Promise!Spec
=============================================================================
