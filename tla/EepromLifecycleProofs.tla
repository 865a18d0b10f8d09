----------------------- MODULE EepromLifecycleProofs ------------------------
(***************************************************************************)
(* EepromLifecycle uses CharDev as CharDev allows, so that all that was    *)
(* proved of the helper holds here; and the file properties, for any       *)
(* number of callers, modules and device numbers, whichever calls fail.    *)
(***************************************************************************)
EXTENDS EepromLifecycle, CharDevProofs

USE DEF ownVars, Calls, Labels, Unregistering, Objects

\* Every step is one of the helper, for one device, or leaves it alone.
LEMMA UsesHelper == OwnNext => [Next]_vars
BY EepromLifecycleAssumption
DEF OwnNext, Driver, Others, Caller, Load, Bind, StartProbe, ProbeSucceeds,
    ProbeFails, StartRemove, EndRemove, Leave, Gone, DeviceStep, OpenFile,
    CallIoctl, Transfer, NullClient, CloseFile, Next

\* The driver and its neighbours implement CharDev.
THEOREM DriverUsesCharDev == OwnSpec => Spec
<1>1. OwnInit => Init
  BY DEF OwnInit
<1>2. [OwnNext]_allVars => [Next]_vars
  BY UsesHelper DEF allVars
<1> QED
  BY <1>1, <1>2, PTL DEF OwnSpec, Spec

\* The devices of all modules appear as a whole or not at all.
THEOREM EepromWholeOrAbsent == OwnSpec => AllOrNothing
BY DriverUsesCharDev, DeviceWholeOrAbsent, PTL

-----------------------------------------------------------------------------
(* The invariant about the files.                                          *)

OwnTypes ==
  /\ loader \in {"out", "in", "leaving"}
  /\ binder \in {"unbound", "probing", "bound", "removing"}
  /\ g_client \in BOOLEAN
  /\ fd \in [Callers -> {"closed", "open", "ioctl", "dead"}]

\* The driver core and the helper agree on where the device is.
BinderMatches ==
  /\ binder = "unbound" => step[Eeprom] = "idle" /\ held[Eeprom] = {}
  /\ binder = "probing" => step[Eeprom] \in Calls \cup Labels \cup {"idle"}
  /\ binder = "bound" => step[Eeprom] = "idle" /\ held[Eeprom] = Objects
  /\ binder = "removing" =>
       \/ step[Eeprom] \in Unregistering
       \/ step[Eeprom] = "idle" /\ held[Eeprom] = {}
  /\ loader = "out" => binder = "unbound"

\* A file can be open without a client only while probe is between the last
\* call of the helper and its own end.
FileInv ==
  /\ binder \in {"bound", "removing"} => g_client
  /\ \A c \in Callers : IsOpen(c) =>
       /\ loader = "in"
       /\ ~g_client => /\ binder = "probing"
                       /\ step[Eeprom] = "idle" /\ held[Eeprom] = Objects

OwnInv == OwnTypes /\ BinderMatches /\ FileInv

LEMMA OwnInvariant == OwnSpec => [](CharDevInv /\ OwnInv)
<1>1. OwnInit => OwnInv
  BY EepromLifecycleAssumption
  DEF OwnInit, Init, OwnInv, OwnTypes, BinderMatches, FileInv, IsOpen
<1>2. CharDevInv /\ OwnInv /\ [OwnNext]_allVars => OwnInv'
  <2> SUFFICES ASSUME CharDevInv, OwnInv, [OwnNext]_allVars
               PROVE  OwnInv'
    OBVIOUS
  <2> USE EepromLifecycleAssumption
      DEF OwnInv, OwnTypes, BinderMatches, FileInv, IsOpen
  <2>1. StepMatches(Eeprom) /\ TypeOK
    BY DEF CharDevInv
  <2>2. CASE Load \/ Bind
    BY <2>1, <2>2 DEF Load, Bind, StartProbe, Register, Goto, TypeOK
  <2>3. CASE ProbeSucceeds \/ ProbeFails
    BY <2>1, <2>3 DEF ProbeSucceeds, ProbeFails, StepMatches, vars
  <2>4. CASE StartRemove
    BY <2>1, <2>4 DEF StartRemove, Unregister, Goto, TypeOK
  <2>5. CASE EndRemove
    BY <2>5 DEF EndRemove, vars
  <2>6. CASE Leave \/ Gone
    BY <2>6 DEF Leave, Gone, vars
  <2>7. CASE DeviceStep
    <3>1. StepMatches(Eeprom)'
      BY <2>7, OwnStep DEF DeviceStep
    <3>2. step[Eeprom] # "idle"
      BY <2>1, <2>7 DEF DeviceStep, Step, AllocRegion, AllocRegionFails,
         CdevAdd, CdevAddFails, ClassCreate, ClassCreateFails, DeviceCreate,
         DeviceCreateFails, DestroyClass, DelCdev, UnregisterChrdev,
         UnregisterStep, Make, Fail, Destroy, Goto
    <3>3. CASE step[Eeprom] \in Calls \cup Labels
      <4>1. step'[Eeprom] \in Calls \cup Labels \cup {"idle"}
        BY <2>1, <2>7, <3>3 DEF DeviceStep, Step, AllocRegion,
           AllocRegionFails, CdevAdd, CdevAddFails, ClassCreate,
           ClassCreateFails, DeviceCreate, DeviceCreateFails, DestroyClass,
           DelCdev, UnregisterChrdev, UnregisterStep, Make, Fail, Destroy,
           Goto, TypeOK
      <4> QED
        BY <2>7, <3>2, <3>3, <4>1 DEF DeviceStep
    <3>4. CASE step[Eeprom] \in Unregistering
      <4>1. \/ step'[Eeprom] \in Unregistering
            \/ step'[Eeprom] = "idle" /\ held'[Eeprom] = {}
        BY <2>1, <2>7, <3>4 DEF DeviceStep, Step, AllocRegion,
           AllocRegionFails, CdevAdd, CdevAddFails, ClassCreate,
           ClassCreateFails, DeviceCreate, DeviceCreateFails, DestroyClass,
           DelCdev, UnregisterChrdev, UnregisterStep, Make, Fail, Destroy,
           Goto, TypeOK, StepMatches, MadeAt
      <4> QED
        BY <2>7, <3>2, <3>4, <4>1 DEF DeviceStep
    <3> QED
      BY <2>1, <3>2, <3>3, <3>4 DEF TypeOK
  <2>8. CASE Others
    <3>1. PICK d \in Devices \ {Eeprom} :
            Register(d) \/ Unregister(d) \/ Step(d)
      BY <2>8 DEF Others
    <3>2. step'[Eeprom] = step[Eeprom] /\ held'[Eeprom] = held[Eeprom]
      BY <2>1, <3>1, OthersStay
    <3> QED
      BY <2>8, <3>2 DEF Others
  <2>9. ASSUME NEW c \in Callers, Caller(c) PROVE OwnInv'
    <3>1. CASE OpenFile(c)
      BY <2>1, <3>1 DEF OpenFile, StepMatches, MadeAt, TypeOK, vars
    <3>2. CASE CallIoctl(c) \/ Transfer(c) \/ NullClient(c) \/ CloseFile(c)
      BY <3>2 DEF CallIoctl, Transfer, NullClient, CloseFile, vars
    <3> QED
      BY <2>9, <3>1, <3>2 DEF Caller
  <2>10. CASE UNCHANGED allVars
    BY <2>10 DEF allVars, vars
  <2> QED
    BY <2>2, <2>3, <2>4, <2>5, <2>6, <2>7, <2>8, <2>9, <2>10
    DEF OwnNext, Driver
<1>3. OwnSpec => []CharDevInv
  BY DriverUsesCharDev, Matched, PTL
<1> QED
  BY <1>1, <1>2, <1>3, PTL DEF OwnSpec

-----------------------------------------------------------------------------

\* Every variable of the driver and of the helper keeps its type.
THEOREM OwnTypeCorrect == OwnSpec => []OwnTypeOK
<1>1. CharDevInv /\ OwnInv => OwnTypeOK
  BY DEF CharDevInv, OwnInv, OwnTypes, OwnTypeOK
<1> QED
  BY <1>1, OwnInvariant, PTL

\* An open file finds a client, but for a moment in probe, and the module; a
\* bound driver has its device file.
THEOREM DriverBehindFile == OwnSpec => []FileIsServed
<1>1. OwnInv => FileIsServed
  BY DEF OwnInv, FileInv, BinderMatches, FileIsServed
<1> QED
  BY <1>1, OwnInvariant, PTL
=============================================================================
