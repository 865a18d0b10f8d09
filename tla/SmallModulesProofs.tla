------------------------- MODULE SmallModulesProofs -------------------------
(***************************************************************************)
(* The safety properties of LedClass, LedRegisters and KthreadModule, for  *)
(* any number of users and any faults.  Those of LedClass rest on one      *)
(* invariant, which says for each call of probe and remove what the driver *)
(* has by then; those of LedRegisters on three: who is inside while the    *)
(* module comes and goes, how far the pad is, and whose copy is true.      *)
(***************************************************************************)
EXTENDS LedClass, LedRegisters, KthreadModule, TLAPS

-----------------------------------------------------------------------------
(* LedClass.                                                               *)

USE DEF sysfs, gpio, led, drvVars, userVars, Call

\* Every variable keeps its type.
THEOREM TypeCorrect == Spec => []TypeOK
<1>1. Init => TypeOK
  <2>1. Init => /\ op \in [Users -> {"none", "load", "use", "state", "dead"}]
                /\ kind \in [Users -> {"show", "store"}]
                /\ ptr \in [Users -> Pointers]
                /\ val \in [Users -> {0, 1}]
    BY DEF Init, Pointers
  <2> QED
    BY <2>1, Zenon DEF Init, TypeOK, Pointers
<1>2. TypeOK /\ [Next]_vars => TypeOK'
  <2> SUFFICES ASSUME TypeOK, [Next]_vars
               PROVE  TypeOK'
    OBVIOUS
  <2> USE DEF TypeOK, Pointers, Probing, Removing, ProbeCalls, Goto
  <2>1. CASE Probe
    <3>1. CASE ClassRegister \/ ClassRegisterFails
      BY <3>1 DEF ClassRegister, ClassRegisterFails
    <3>2. CASE ClassCreateFile \/ ClassCreateFileFails
      BY <3>2 DEF ClassCreateFile, ClassCreateFileFails
    <3>3. CASE GpiodGet \/ GpiodGetFails
      BY <3>3 DEF GpiodGet, GpiodGetFails
    <3>4. CASE DirectionOutput \/ DirectionOutputFails
      BY <3>4 DEF DirectionOutput, DirectionOutputFails
    <3>5. CASE ProbeSetValue \/ ProbeSetState
      BY <3>5 DEF ProbeSetValue, ProbeSetState
    <3> QED
      BY <2>1, <3>1, <3>2, <3>3, <3>4, <3>5 DEF Probe
  <2>2. CASE Remove
    <3>1. CASE GpiodPut \/ Forget
      BY <3>1 DEF GpiodPut, Forget
    <3>2. CASE RemoveFile \/ Drain \/ ClassUnregister
      BY <3>2 DEF RemoveFile, Drain, ClassUnregister
    <3> QED
      BY <2>2, <3>1, <3>2 DEF Remove
  <2>3. CASE Load \/ Bind \/ Unbind \/ Leave \/ Gone
    <3>1. CASE Load \/ Bind
      BY <3>1 DEF Load, Bind
    <3>2. CASE Unbind \/ Leave \/ Gone
      BY <3>2 DEF Unbind, Leave, Gone
    <3> QED
      BY <2>3, <3>1, <3>2
  <2>4. ASSUME NEW u \in Users, Show(u) PROVE TypeOK'
    BY <2>4 DEF Show
  <2>5. ASSUME NEW u \in Users, NEW v \in {0, 1}, Store(u, v) PROVE TypeOK'
    BY <2>5 DEF Store
  <2>6. ASSUME NEW u \in Users, Inside(u) PROVE TypeOK'
    <3>1. CASE LoadPointer(u)
      BY <3>1 DEF LoadPointer
    <3>2. CASE SetValue(u)
      BY <3>2 DEF SetValue
    <3>3. CASE GetValue(u)
      BY <3>3 DEF GetValue
    <3>4. CASE Oops(u)
      BY <3>4 DEF Oops
    <3>5. CASE GetValueFails(u) \/ SetState(u)
      BY <3>5 DEF GetValueFails, SetState, Return
    <3> QED
      BY <2>6, <3>1, <3>2, <3>3, <3>4, <3>5 DEF Inside
  <2>7. CASE UNCHANGED vars
    BY <2>7 DEF vars
  <2> QED
    BY <2>1, <2>2, <2>3, <2>4, <2>5, <2>6, <2>7 DEF Next, Driver
<1> QED
  BY <1>1, <1>2, PTL DEF Spec

-----------------------------------------------------------------------------
(* The invariant.                                                          *)

\* The calls at which the driver of a probe that went well so far, or of a
\* remove, has the descriptor; those at which users may come in.
Holding == {"gpiod_direction_output", "set_value", "set_state", "bound",
            "gpiod_put"}
Open == Holding \cup {"gpiod_get", "forget", "remove_file"}

ClassInv == class <=> binder \notin {"unbound", "class_register"}

FileInv ==
  /\ file = "there" <=> binder \in Open
  /\ file = "closing" <=> binder = "drain"
  /\ file = "none" => \A u \in Users : op[u] = "none"

\* Once leaked, the descriptor keeps probe from getting further than that.
HeldInv ==
  /\ binder \in Holding => held /\ ~leaked
  /\ binder = "forget" => ~leaked
  /\ held => leaked \/ binder \in Holding
  /\ leaked => held

\* A pointer to the descriptor outlives it only for a while during remove.
PointerInv ==
  /\ my_led_gpio = "desc" => held \/ binder = "forget"
  /\ \A u \in Users :
       op[u] = "use" /\ ptr[u] = "desc" => held \/ LateInRemove

OffInv ==
  /\ \A u \in Users : op[u] = "none" \/ ~stored => kind[u] = "show"
  /\ ~stored /\ binder \in {"set_value", "set_state", "bound"} => pin = 0

LedInv == ClassInv /\ FileInv /\ HeldInv /\ PointerInv /\ OffInv

\* The invariant holds in every state, and excludes a pin driven by nobody.
LEMMA LedInvariant == Spec => []LedInv
<1>1. Init => LedInv
  BY DEF Init, LedInv, ClassInv, FileInv, Open, Holding, HeldInv, PointerInv,
         OffInv
<1>2. TypeOK /\ LedInv /\ [Next]_vars => LedInv'
  <2> SUFFICES ASSUME TypeOK, LedInv, [Next]_vars
               PROVE  LedInv'
    OBVIOUS
  <2> USE DEF LedInv, ClassInv, FileInv, HeldInv, PointerInv, OffInv, Open,
              Holding, LateInRemove, Goto
  <2>1. CASE ClassRegister \/ ClassRegisterFails
    BY <2>1 DEF ClassRegister, ClassRegisterFails
  <2>2. CASE ClassCreateFile \/ ClassCreateFileFails
    BY <2>2 DEF ClassCreateFile, ClassCreateFileFails
  <2>3. CASE GpiodGet \/ GpiodGetFails
    BY <2>3 DEF GpiodGet, GpiodGetFails
  <2>4. CASE DirectionOutput \/ DirectionOutputFails
    BY <2>4 DEF DirectionOutput, DirectionOutputFails
  <2>5. CASE ProbeSetValue \/ ProbeSetState
    BY <2>5 DEF ProbeSetValue, ProbeSetState
  <2>6. CASE GpiodPut \/ Forget
    BY <2>6 DEF GpiodPut, Forget
  <2>7. CASE RemoveFile \/ Drain \/ ClassUnregister
    BY <2>7 DEF RemoveFile, Drain, ClassUnregister
  <2>8. CASE Load \/ Bind
    BY <2>8 DEF Load, Bind, TypeOK
  <2>9. CASE Unbind \/ Leave \/ Gone
    BY <2>9 DEF Unbind, Leave, Gone
  <2>10. ASSUME NEW u \in Users, Show(u) PROVE LedInv'
    BY <2>10 DEF Show, TypeOK
  <2>11. ASSUME NEW u \in Users, NEW v \in {0, 1}, Store(u, v) PROVE LedInv'
    BY <2>11 DEF Store, TypeOK
  <2>12. ASSUME NEW u \in Users, Inside(u) PROVE LedInv'
    <3>1. CASE LoadPointer(u)
      BY <3>1 DEF LoadPointer, TypeOK
    <3>2. CASE SetValue(u)
      BY <3>2 DEF SetValue, TypeOK
    <3>3. CASE GetValue(u)
      BY <3>3 DEF GetValue, TypeOK
    <3>4. CASE Oops(u)
      BY <3>4 DEF Oops, TypeOK
    <3>5. CASE GetValueFails(u) \/ SetState(u)
      BY <3>5 DEF GetValueFails, SetState, Return, TypeOK
    <3> QED
      BY <2>12, <3>1, <3>2, <3>3, <3>4, <3>5 DEF Inside
  <2>13. CASE UNCHANGED vars
    BY <2>13 DEF vars
  <2> QED
    BY <2>1, <2>2, <2>3, <2>4, <2>5, <2>6, <2>7, <2>8, <2>9, <2>10, <2>11,
       <2>12, <2>13
    DEF Next, Driver, Probe, Remove
<1> QED
  BY <1>1, <1>2, TypeCorrect, PTL DEF Spec

-----------------------------------------------------------------------------

\* An unbound device leaves nothing behind but what a failing
\* gpiod_direction_output leaks, and nobody inside; a leaked descriptor is never
\* got again.
THEOREM UnboundIsClean == Spec => []UnboundHoldsLittle
<1>1. TypeOK /\ LedInv => UnboundHoldsLittle
  BY DEF LedInv, TypeOK, ClassInv, FileInv, HeldInv, Open, Holding,
         UnboundHoldsLittle
<1> QED
  BY <1>1, TypeCorrect, LedInvariant, PTL

\* A device that was just bound has its LED off.
THEOREM BoundIsOff == Spec => []OffUntilStored
<1>1. LedInv => OffUntilStored
  BY DEF LedInv, OffInv, OffUntilStored
<1> QED
  BY <1>1, LedInvariant, PTL

\* The pin is driven by the one who holds the descriptor, but for stores that
\* overlap with remove.
THEOREM PinHasHolder == Spec => DrivenByHolder
<1>1. LedInv /\ [Next]_vars => [pin' # pin => held \/ LateInRemove]_vars
  <2> SUFFICES ASSUME LedInv, Next, pin' # pin
               PROVE  held \/ LateInRemove
    BY DEF vars
  <2>1. CASE Driver
    BY <2>1 DEF Driver, Probe, Remove, ClassRegister, ClassRegisterFails,
                ClassCreateFile, ClassCreateFileFails, GpiodGet,
                GpiodGetFails, DirectionOutput, DirectionOutputFails,
                ProbeSetValue, ProbeSetState, GpiodPut, Forget, RemoveFile,
                Drain, ClassUnregister, Goto, LedInv, HeldInv, Holding
  <2>2. CASE Load \/ Bind \/ Unbind \/ Leave \/ Gone
    BY <2>2 DEF Load, Bind, Unbind, Leave, Gone
  <2>3. ASSUME NEW u \in Users, Show(u) \/ \E v \in {0, 1} : Store(u, v)
        PROVE  FALSE
    BY <2>3 DEF Show, Store
  <2>4. ASSUME NEW u \in Users, Inside(u)
        PROVE  held \/ LateInRemove
    BY <2>4 DEF Inside, LoadPointer, SetValue, GetValue, Oops, GetValueFails,
                SetState, LedInv, PointerInv
  <2> QED
    BY <2>1, <2>2, <2>3, <2>4 DEF Next
<1> QED
  BY <1>1, LedInvariant, PTL DEF Spec, DrivenByHolder

-----------------------------------------------------------------------------
(* LedRegisters: what is left of a call, and the types.                    *)

Pad == Tail(OpenChanges)        \* an open that has cleared the pad
Dir == Tail(Tail(OpenChanges))  \* an open that has set it

\* The first change of each call, and what is left after it.
LEMMA TodoSteps ==
  /\ Len(OpenChanges) = 3 /\ Len(Pad) = 2 /\ Len(Dir) = 1
  /\ OpenChanges # <<>> /\ Pad # <<>> /\ Dir # <<>>
  /\ Head(OpenChanges) = Change("iomux_to_gpio", PadBits, {})
  /\ Head(Pad) = Change("iomux_to_gpio", {}, PadIsGpio)
  /\ Head(Dir) = Change("gpio_dir", {}, {LedBit})
  /\ Tail(Dir) = <<>>
  /\ \A v \in {0, 1} :
       /\ Len(WriteChanges(v)) = 1 /\ WriteChanges(v) # <<>>
       /\ Tail(WriteChanges(v)) = <<>>
       /\ Head(WriteChanges(v)) =
            IF v = 0 THEN Change("gpio_data", {}, {LedBit})
                     ELSE Change("gpio_data", {LedBit}, {})
BY DEF OpenChanges, Pad, Dir, WriteChanges

\* The calls are made of four changes.
Changes ==
  {Change("iomux_to_gpio", PadBits, {}), Change("iomux_to_gpio", {}, PadIsGpio),
   Change("gpio_dir", {}, {LedBit})}
    \cup {Change("gpio_data", {}, {LedBit}), Change("gpio_data", {LedBit}, {})}

LEMMA ChangeTypes ==
  ASSUME NEW c \in Changes
  PROVE  /\ c.reg \in Registers
         /\ c.zeros \subseteq Bits /\ c.ones \subseteq Bits
         /\ c.reg \in Bank => OtherBit \notin c.zeros \cup c.ones
BY DEF Changes, Change, Registers, Bank, Bits, PadBits, PadIsGpio, LedBit,
       OtherBit

LEMMA TodoParts ==
  ASSUME NEW t \in Todos, t # <<>>
  PROVE  /\ Head(t) \in Changes
         /\ Tail(t) \in Todos
         /\ Len(t) = 1 <=> Tail(t) = <<>>
<1> USE TodoSteps
<1>1. {<<>>, Pad, Dir} \subseteq Todos
  BY DEF Todos, Pad, Dir
<1>2. CASE t = OpenChanges
  BY <1>1, <1>2 DEF Pad, Changes
<1>3. CASE t = Pad
  <2>1. Tail(t) = Dir
    BY <1>3 DEF Pad, Dir
  <2>2. Head(t) \in Changes
    BY <1>3 DEF Changes
  <2>3. Len(t) = 2 /\ Dir # <<>> /\ Dir \in Todos
    BY <1>1, <1>3
  <2>4. Len(t) = 1 <=> Tail(t) = <<>>
    BY <2>1, <2>3
  <2> QED
    BY <2>1, <2>2, <2>3, <2>4
<1>4. CASE t = Dir
  BY <1>1, <1>4 DEF Changes
<1>5. CASE \E v \in {0, 1} : t = WriteChanges(v)
  BY <1>1, <1>5 DEF Changes
<1> QED
  BY <1>2, <1>3, <1>4, <1>5 DEF Todos, Pad, Dir

\* Every variable of the LED by registers keeps its type.
THEOREM RegistersTypeCorrect == RegistersSpec => []RegistersTypeOK
<1> USE LedRegistersAssumption
<1>1. RegistersInit => RegistersTypeOK
  <2> SUFFICES ASSUME RegistersInit PROVE RegistersTypeOK
    OBVIOUS
  <2>1. bits \in [Registers -> SUBSET Bits]
    BY DEF RegistersInit, Bits
  <2>2. todo \in [Openers -> Todos]
    BY DEF RegistersInit, Todos
  <2>3. copy \in [Openers -> (SUBSET Bits) \cup {Unread}]
    BY DEF RegistersInit
  <2>4. /\ mapping \in [Registers -> {"NULL", "mapped", "stale"}]
        /\ others \in [Bank -> BOOLEAN]
    BY DEF RegistersInit
  <2>5. my_led = "out" /\ calls \in 0 .. 6 /\ level = -1 /\ opened = FALSE
    BY DEF RegistersInit
  <2>6. /\ files = {} /\ died = {} /\ hasty = {} /\ behind = {}
        /\ undone = {} /\ taken = {}
    BY DEF RegistersInit
  <2> QED
    BY <2>1, <2>2, <2>3, <2>4, <2>5, <2>6 DEF RegistersTypeOK
<1>2. RegistersTypeOK /\ [RegistersNext]_ledVars => RegistersTypeOK'
  <2> SUFFICES ASSUME RegistersTypeOK, [RegistersNext]_ledVars
               PROVE  RegistersTypeOK'
    OBVIOUS
  <2> USE DEF RegistersTypeOK, device, chip, callers, history
  <2>1. CASE LoadMyLed \/ ExitMyLed \/ InitMyLedDone \/ MyLedGone
    BY <2>1 DEF LoadMyLed, ExitMyLed, InitMyLedDone, MyLedGone
  <2>2. CASE MakeObject \/ MakeObjectFails \/ DestroyObject
    BY <2>2 DEF MakeObject, MakeObjectFails, DestroyObject
  <2>3. CASE Ioremap \/ Iounmap
    BY <2>3 DEF Ioremap, Iounmap
  <2>4. ASSUME NEW r \in Shared, GpioDriver(r) PROVE RegistersTypeOK'
    <3>1. r \in Bank /\ Bank \subseteq Registers
      BY DEF Bank, Registers
    <3>2. {LedBit, OtherBit} \subseteq Bits
      BY DEF Bits
    <3> QED
      BY <2>4, <3>1, <3>2 DEF GpioDriver
  <2>5. ASSUME NEW u \in Openers, NEW t \in Todos, Enter(u, t)
        PROVE  RegistersTypeOK'
    BY <2>5 DEF Enter
  <2>6. ASSUME NEW u \in Openers, ReleaseMyLed(u) PROVE RegistersTypeOK'
    BY <2>6 DEF ReleaseMyLed
  <2>7. ASSUME NEW u \in Openers, ReadRegister(u) PROVE RegistersTypeOK'
    BY <2>7, TodoParts, ChangeTypes DEF ReadRegister, Idle
  <2>8. ASSUME NEW u \in Openers, WriteRegister(u)
        PROVE  RegistersTypeOK'
    <3> DEFINE c == Head(todo[u])
    <3>1. c \in Changes /\ Tail(todo[u]) \in Todos
      BY <2>8, TodoParts DEF WriteRegister, Idle
    <3>2. /\ c.reg \in Registers
          /\ c.zeros \subseteq Bits /\ c.ones \subseteq Bits
      BY <3>1, ChangeTypes
    <3>3. copy[u] \subseteq Bits
      BY <2>8 DEF WriteRegister
    <3>4. bits' \in [Registers -> SUBSET Bits]
      BY <2>8, <3>2, <3>3 DEF WriteRegister
    <3>5. /\ todo' \in [Openers -> Todos]
          /\ copy' \in [Openers -> (SUBSET Bits) \cup {Unread}]
      BY <2>8, <3>1 DEF WriteRegister
    <3>6. /\ level' \in {-1, 0, 1} /\ opened' \in BOOLEAN
          /\ files' \subseteq Openers
      BY <2>8 DEF WriteRegister
    <3> QED
      BY <2>8, <3>4, <3>5, <3>6 DEF WriteRegister
  <2>9. CASE UNCHANGED ledVars
    BY <2>9 DEF ledVars
  <2> QED
    BY <2>1, <2>2, <2>3, <2>4, <2>5, <2>6, <2>7, <2>8, <2>9
    DEF RegistersNext, MyLedModule, OpenMyLed, WriteMyLed, Todos
<1> QED
  BY <1>1, <1>2, PTL DEF RegistersSpec

-----------------------------------------------------------------------------
(* Who is inside while the module comes and goes.                          *)

\* What is mapped is mapped by an init that got that far, and not yet unmapped
\* by an exit.
MappedInv ==
  /\ my_led = "out" => calls = 0
  /\ my_led = "in" => calls = 6
  /\ my_led = "failing" => calls <= 3
  /\ \A r \in Registers :
       /\ mapping[r] = "mapped" =>
            \/ my_led = "in"
            \/ my_led = "coming" /\ calls > 3
            \/ my_led = "going" /\ calls > 3
       /\ mapping[r] = "stale" => my_led \in {"going", "out"}
  /\ my_led = "going" =>
       /\ calls < 6 => mapping["iomux_to_gpio"] # "mapped"
       /\ calls < 5 => mapping["gpio_dir"] # "mapped"

\* Whoever did not come in early is only inside while the module is in.
UsersInv ==
  /\ my_led = "going" => ~InUse
  /\ \A u \in Openers :
       /\ u \notin hasty /\ (u \in files \/ ~Idle(u)) => my_led = "in"
       /\ copy[u] # Unread => ~Idle(u)
       /\ u \in died => ~Idle(u) /\ copy[u] = Unread

\* Who died found no mapping, or came in before there was one.
DiedInv ==
  \A u \in died : \E r \in Registers :
    /\ r = Head(todo[u]).reg
    /\ u \in hasty \/ mapping[r] = "NULL"

InsideInv == MappedInv /\ UsersInv /\ DiedInv

LEMMA InsideInvariant == RegistersSpec => []InsideInv
<1> USE LedRegistersAssumption
<1>1. RegistersInit => InsideInv
  BY DEF RegistersInit, InsideInv, MappedInv, UsersInv, DiedInv, Idle, InUse
<1>2. RegistersTypeOK /\ InsideInv /\ [RegistersNext]_ledVars => InsideInv'
  <2> SUFFICES ASSUME RegistersTypeOK, InsideInv, [RegistersNext]_ledVars
               PROVE  InsideInv'
    OBVIOUS
  <2> USE DEF RegistersTypeOK, InsideInv, MappedInv, UsersInv, DiedInv,
              Idle, InUse, device, chip, callers, history
  <2>1. CASE LoadMyLed
    BY <2>1 DEF LoadMyLed
  <2>2. CASE ExitMyLed \/ InitMyLedDone \/ MyLedGone
    BY <2>2 DEF ExitMyLed, InitMyLedDone, MyLedGone
  <2>3. CASE MakeObject \/ MakeObjectFails \/ DestroyObject
    BY <2>3 DEF MakeObject, MakeObjectFails, DestroyObject
  <2>4. CASE Ioremap
    BY <2>4 DEF Ioremap
  <2>5. CASE Iounmap
    BY <2>5 DEF Iounmap, Registers, Mapped
  <2>6. ASSUME NEW r \in Shared, GpioDriver(r) PROVE InsideInv'
    BY <2>6 DEF GpioDriver
  <2>7. ASSUME NEW u \in Openers, OpenMyLed(u) PROVE InsideInv'
    BY <2>7 DEF OpenMyLed, Enter
  <2>8. ASSUME NEW u \in Openers, NEW v \in {0, 1}, WriteMyLed(u, v)
        PROVE  InsideInv'
    BY <2>8 DEF WriteMyLed, Enter
  <2>9. ASSUME NEW u \in Openers, ReleaseMyLed(u) PROVE InsideInv'
    BY <2>9 DEF ReleaseMyLed
  <2>10. ASSUME NEW u \in Openers, ReadRegister(u) PROVE InsideInv'
    <3>1. Head(todo[u]).reg \in Registers
      BY <2>10, TodoParts, ChangeTypes DEF ReadRegister
    <3> QED
      BY <2>10, <3>1 DEF ReadRegister
  <2>11. ASSUME NEW u \in Openers, WriteRegister(u) PROVE InsideInv'
    BY <2>11 DEF WriteRegister
  <2>12. CASE UNCHANGED ledVars
    BY <2>12 DEF ledVars
  <2> QED
    BY <2>1, <2>2, <2>3, <2>4, <2>5, <2>6, <2>7, <2>8, <2>9, <2>10, <2>11,
       <2>12
    DEF RegistersNext, MyLedModule
<1> QED
  BY <1>1, <1>2, RegistersTypeCorrect, PTL DEF RegistersSpec

-----------------------------------------------------------------------------
(* How far the pad is.                                                     *)

\* Nothing but the bits of the pad is in its register, nor in a copy of it,
\* and who has a copy has the mapping.
PadTypes ==
  /\ bits["iomux_to_gpio"] \subseteq PadBits
  /\ \A u \in Openers :
       todo[u] = OpenChanges /\ copy[u] # Unread =>
         copy[u] \subseteq PadBits /\ mapping["iomux_to_gpio"] = "mapped"

\* An open that has cleared the pad finds nothing there but what other opens
\* have set, and will set it; its mapping cannot go away.
PadInv ==
  /\ \A u \in Openers : todo[u] = Pad =>
       /\ mapping["iomux_to_gpio"] = "mapped" /\ u \notin died
       /\ bits["iomux_to_gpio"] \subseteq PadIsGpio
       /\ copy[u] # Unread => copy[u] \subseteq PadIsGpio
  /\ opened \/ (\E u \in Openers : todo[u] = Dir) =>
       \/ bits["iomux_to_gpio"] = PadIsGpio
       \/ \E u \in Openers : todo[u] = Pad

DirInv ==
  /\ \A u \in Openers :
       u \in files \/ todo[u] \in {WriteChanges(0), WriteChanges(1)} => opened
  /\ opened => LedBit \in bits["gpio_dir"] \/ "gpio_dir" \in taken

OpenInv == PadTypes /\ PadInv /\ DirInv

\* The calls are told apart by what is left of them.
LEMMA TodosDiffer ==
  /\ <<>> \notin {OpenChanges, Pad, Dir}
  /\ OpenChanges \notin {Pad, Dir} /\ Pad # Dir
  /\ \A v \in {0, 1} :
       WriteChanges(v) \notin {<<>>, OpenChanges, Pad, Dir}
  /\ \A t \in Todos \ {<<>>, OpenChanges, Pad, Dir} :
       t \in {WriteChanges(0), WriteChanges(1)}
<1>1. OpenChanges \notin {Pad, Dir} /\ Pad # Dir
  <2>1. Len(OpenChanges) = 3 /\ Len(Pad) = 2 /\ Len(Dir) = 1
    BY TodoSteps
  <2> QED
    BY <2>1
<1>2. \A v \in {0, 1} : WriteChanges(v) \notin {<<>>, OpenChanges, Pad}
  <2>1. /\ Len(OpenChanges) = 3 /\ Len(Pad) = 2
        /\ \A v \in {0, 1} : /\ Len(WriteChanges(v)) = 1
                             /\ WriteChanges(v) # <<>>
    BY TodoSteps
  <2> QED
    BY <2>1
<1>3. \A v \in {0, 1} : WriteChanges(v) # Dir
  <2>1. \A v \in {0, 1} : Head(WriteChanges(v)).reg = "gpio_data"
    BY TodoSteps DEF Change
  <2>2. Head(Dir).reg = "gpio_dir"
    BY TodoSteps DEF Change
  <2> QED
    BY <2>1, <2>2
<1> QED
  BY <1>1, <1>2, <1>3, TodoSteps DEF Todos, Pad, Dir

LEMMA OpenInvariant == RegistersSpec => []OpenInv
<1> USE LedRegistersAssumption
<1>1. RegistersInit => OpenInv
  BY TodosDiffer
  DEF RegistersInit, OpenInv, PadTypes, PadInv, DirInv, Registers, Bank
<1>2. /\ RegistersTypeOK /\ InsideInv /\ OpenInv
      /\ [RegistersNext]_ledVars
      => OpenInv'
  <2> SUFFICES ASSUME RegistersTypeOK, InsideInv, OpenInv,
                      [RegistersNext]_ledVars
               PROVE  OpenInv'
    OBVIOUS
  <2> USE DEF RegistersTypeOK, OpenInv, PadTypes, PadInv, DirInv, Idle, InUse,
              device, chip, callers, history
  <2>1. CASE LoadMyLed
    BY <2>1, TodosDiffer DEF LoadMyLed
  <2>2. CASE ExitMyLed \/ InitMyLedDone \/ MyLedGone
    BY <2>2 DEF ExitMyLed, InitMyLedDone, MyLedGone
  <2>3. CASE MakeObject \/ MakeObjectFails \/ DestroyObject
    BY <2>3 DEF MakeObject, MakeObjectFails, DestroyObject
  <2>4. CASE Ioremap
    BY <2>4 DEF Ioremap, Registers, Mapped, InsideInv, MappedInv
  <2>5. CASE Iounmap
    BY <2>5, TodosDiffer DEF Iounmap, InsideInv, UsersInv
  <2>6. ASSUME NEW r \in Shared, GpioDriver(r) PROVE OpenInv'
    BY <2>6 DEF GpioDriver, Bank, Registers
  <2>7. ASSUME NEW u \in Openers, OpenMyLed(u) PROVE OpenInv'
    BY <2>7, TodosDiffer DEF OpenMyLed, Enter, InsideInv, UsersInv
  <2>8. ASSUME NEW u \in Openers, NEW v \in {0, 1}, WriteMyLed(u, v)
        PROVE  OpenInv'
    BY <2>8, TodosDiffer DEF WriteMyLed, Enter
  <2>9. ASSUME NEW u \in Openers, ReleaseMyLed(u) PROVE OpenInv'
    BY <2>9 DEF ReleaseMyLed
  <2>10. ASSUME NEW u \in Openers, ReadRegister(u) PROVE OpenInv'
    <3>1. todo[u] \in {OpenChanges, Pad} => Head(todo[u]).reg = "iomux_to_gpio"
      BY TodoSteps DEF Change
    <3>2. \A v \in Openers : copy'[v] # Unread =>
            \/ copy'[v] = copy[v]
            \/ /\ v = u /\ copy'[u] = bits[Head(todo[u]).reg]
               /\ mapping[Head(todo[u]).reg] = "mapped"
      BY <2>10 DEF ReadRegister
    <3>3. /\ UNCHANGED <<bits, todo, mapping, opened, taken, files>>
          /\ \A v \in Openers : v \in died' =>
               \/ v \in died
               \/ v = u /\ mapping[Head(todo[u]).reg] # "mapped"
      BY <2>10 DEF ReadRegister
    <3>4. PadTypes'
      BY <3>1, <3>2, <3>3
    <3>5. PadInv'
      BY <3>1, <3>2, <3>3
    <3>6. DirInv'
      BY <3>3
    <3> QED
      BY <3>4, <3>5, <3>6
  <2>11. ASSUME NEW u \in Openers, WriteRegister(u) PROVE OpenInv'
    <3> DEFINE c == Head(todo[u])
               left == Tail(todo[u])
    <3>1. /\ bits' = [bits EXCEPT ![c.reg] = (copy[u] \ c.zeros) \cup c.ones]
          /\ todo' = [todo EXCEPT ![u] = left]
          /\ copy' = [copy EXCEPT ![u] = Unread]
          /\ taken' = taken \ {c.reg}
          /\ opened' = (opened \/ Len(todo[u]) = 1)
          /\ files' = IF Len(todo[u]) = 1 THEN files \cup {u} ELSE files
          /\ mapping' = mapping /\ died' = died
          /\ u \notin died /\ copy[u] # Unread
      BY <2>11 DEF WriteRegister, InsideInv, UsersInv
    <3> HIDE DEF c, left
    <3>2. CASE todo[u] = OpenChanges
      <4>1. /\ c.reg = "iomux_to_gpio" /\ c.zeros = PadBits /\ c.ones = {}
            /\ left = Pad /\ Len(todo[u]) # 1
        BY <3>2, TodoSteps DEF c, left, Change, Pad
      <4>2. copy[u] \subseteq PadBits /\ bits'["iomux_to_gpio"] = {}
        BY <3>1, <3>2, <4>1 DEF Registers
      <4>3. todo'[u] = Pad /\ u \notin died'
        BY <3>1, <4>1
      <4>4. mapping["iomux_to_gpio"] = "mapped"
        BY <3>1, <3>2
      <4> QED
        BY <3>1, <3>2, <4>1, <4>2, <4>3, <4>4, TodosDiffer DEF Registers
    <3>3. CASE todo[u] = Pad
      <4>1. /\ c.reg = "iomux_to_gpio" /\ c.zeros = {} /\ c.ones = PadIsGpio
            /\ Len(todo[u]) # 1
        BY <3>3, TodoSteps DEF c, Change
      <4>2. left = Dir
        BY <3>3 DEF left, Pad, Dir
      <4> QED
        BY <3>1, <3>3, <4>1, <4>2, TodosDiffer DEF Registers, PadIsGpio, PadBits
    <3>4. CASE todo[u] = Dir
      <4>1. /\ c.reg = "gpio_dir" /\ c.zeros = {} /\ c.ones = {LedBit}
            /\ left = <<>> /\ Len(todo[u]) = 1
        BY <3>4, TodoSteps DEF c, left, Change
      <4> QED
        BY <3>1, <3>4, <4>1, TodosDiffer DEF Registers
    <3>5. CASE todo[u] \in {WriteChanges(0), WriteChanges(1)}
      <4>1. c.reg = "gpio_data" /\ left = <<>> /\ Len(todo[u]) = 1
        BY <3>5, TodoSteps DEF c, left, Change
      <4> QED
        BY <3>1, <3>5, <4>1, TodosDiffer DEF Registers
    <3> QED
      BY <2>11, <3>2, <3>3, <3>4, <3>5, TodosDiffer DEF WriteRegister
  <2>12. CASE UNCHANGED ledVars
    BY <2>12 DEF ledVars
  <2> QED
    BY <2>1, <2>2, <2>3, <2>4, <2>5, <2>6, <2>7, <2>8, <2>9, <2>10, <2>11,
       <2>12
    DEF RegistersNext, MyLedModule
<1> QED
  BY <1>1, <1>2, RegistersTypeCorrect, InsideInvariant, PTL DEF RegistersSpec

-----------------------------------------------------------------------------
(* Whose copy is true.                                                     *)

\* A copy that is not outdated has the bit of the GPIO driver right, and so
\* has a register in which nobody has undone it.
CopyInv ==
  \A u \in Openers :
    LET r == Head(todo[u]).reg
    IN  copy[u] # Unread /\ u \notin behind /\ r \in Bank \ undone =>
          (OtherBit \in copy[u] <=> others[r])

OwnerInv == CopyInv /\ EveryBitItsOwner

LEMMA OwnerInvariant == RegistersSpec => []OwnerInv
<1> USE LedRegistersAssumption
<1>1. RegistersInit => OwnerInv
  BY DEF RegistersInit, OwnerInv, CopyInv, EveryBitItsOwner, Registers, Bank
<1>2. /\ RegistersTypeOK /\ InsideInv /\ OwnerInv
      /\ [RegistersNext]_ledVars
      => OwnerInv'
  <2> SUFFICES ASSUME RegistersTypeOK, InsideInv, OwnerInv,
                      [RegistersNext]_ledVars
               PROVE  OwnerInv'
    OBVIOUS
  <2> USE DEF RegistersTypeOK, OwnerInv, CopyInv, EveryBitItsOwner, device,
              chip, callers, history
  <2>1. CASE LoadMyLed \/ ExitMyLed \/ MyLedModule
    BY <2>1 DEF LoadMyLed, ExitMyLed, MyLedModule, MakeObject,
       MakeObjectFails, Ioremap, InitMyLedDone, Iounmap, DestroyObject,
       MyLedGone
  <2>2. ASSUME NEW r \in Shared, GpioDriver(r) PROVE OwnerInv'
    <3>1. r \in Bank /\ r \in Registers /\ Bank \subseteq Registers
      BY DEF Bank, Registers
    <3>2. /\ others' = [others EXCEPT ![r] = ~@]
          /\ undone' = undone \ {r}
          /\ UNCHANGED <<todo, copy, level>>
          /\ behind' = behind \cup {u \in Openers : copy[u] # Unread
                                            /\ Head(todo[u]).reg = r}
      BY <2>2 DEF GpioDriver
    <3>3. PICK b \in SUBSET {LedBit} :
            /\ bits' = [bits EXCEPT ![r] =
                          b \cup IF others'[r] THEN {OtherBit} ELSE {}]
            /\ taken' = IF b = bits[r] \cap {LedBit}
                        THEN taken ELSE taken \cup {r}
      BY <2>2 DEF GpioDriver
    <3>4. CopyInv'
      BY <3>1, <3>2
    <3>5. OtherBit \in bits'[r] <=> others'[r]
      BY <3>1, <3>2, <3>3 DEF LedBit, OtherBit
    <3>6. \A s \in Bank \ {r} : bits'[s] = bits[s] /\ others'[s] = others[s]
      BY <3>1, <3>2, <3>3
    <3>7. b = bits[r] \cap {LedBit} =>
            (LedBit \in bits'[r] <=> LedBit \in bits[r])
      BY <3>1, <3>3 DEF LedBit, OtherBit
    <3> QED
      BY <3>1, <3>2, <3>3, <3>4, <3>5, <3>6, <3>7 DEF Bank
  <2>3. ASSUME NEW u \in Openers, NEW t \in Todos, Enter(u, t)
        PROVE  OwnerInv'
    BY <2>3 DEF Enter, InsideInv, UsersInv
  <2>4. ASSUME NEW u \in Openers, ReleaseMyLed(u) PROVE OwnerInv'
    BY <2>4 DEF ReleaseMyLed
  <2>5. ASSUME NEW u \in Openers, ReadRegister(u) PROVE OwnerInv'
    BY <2>5 DEF ReadRegister
  <2>6. ASSUME NEW u \in Openers, WriteRegister(u) PROVE OwnerInv'
    <3> DEFINE c == Head(todo[u])
               new == (copy[u] \ c.zeros) \cup c.ones
    <3>1. /\ bits' = [bits EXCEPT ![c.reg] = new]
          /\ todo' = [todo EXCEPT ![u] = Tail(@)]
          /\ copy' = [copy EXCEPT ![u] = Unread]
          /\ taken' = taken \ {c.reg}
          /\ undone' = IF u \in behind THEN undone \cup {c.reg} ELSE undone
          /\ level' = IF c.reg # "gpio_data" THEN level
                      ELSE IF LedBit \in c.ones THEN 0 ELSE 1
          /\ behind' = behind \ {u} /\ others' = others
          /\ copy[u] # Unread
      BY <2>6 DEF WriteRegister
    <3>2. c \in Changes
      BY <2>6, TodoParts DEF WriteRegister, Idle
    <3>3. /\ c.reg \in Registers
          /\ c.reg \in Bank => OtherBit \notin c.zeros \cup c.ones
      BY <3>2, ChangeTypes
    <3>4. c.reg = "gpio_data" => (LedBit \in c.ones \/ LedBit \in c.zeros)
      BY <3>2 DEF Changes, Change
    <3> HIDE DEF c
    <3>5. CopyInv'
      BY <3>1, <3>3 DEF c
    <3>6. c.reg \in Bank => (OtherBit \in new <=> OtherBit \in copy[u])
      BY <3>3
    <3>7. \A r \in Bank \ undone' : OtherBit \in bits'[r] <=> others'[r]
      BY <3>1, <3>3, <3>6 DEF c, Bank, Registers
    <3>8. level' # -1 /\ "gpio_data" \notin taken' =>
            (LedBit \in bits'["gpio_data"] <=> level' = 0)
      BY <3>1, <3>3, <3>4 DEF Registers
    <3> QED
      BY <3>5, <3>7, <3>8
  <2>7. CASE UNCHANGED ledVars
    BY <2>7 DEF ledVars
  <2> QED
    BY <2>1, <2>2, <2>3, <2>4, <2>5, <2>6, <2>7
    DEF RegistersNext, OpenMyLed, WriteMyLed, Todos
<1> QED
  BY <1>1, <1>2, RegistersTypeCorrect, InsideInvariant, PTL DEF RegistersSpec

-----------------------------------------------------------------------------

\* No register is reached through a pointer that exit has unmapped, and a
\* module that goes away leaves nobody behind but those who came in before its
\* init was done, and no mapping.
THEOREM RegistersStay == RegistersSpec => []UsersFindRegisters
<1>1. RegistersTypeOK /\ InsideInv => UsersFindRegisters
  BY DEF RegistersTypeOK, InsideInv, MappedInv, UsersInv, DiedInv, InUse,
         UsersFindRegisters
<1> QED
  BY <1>1, RegistersTypeCorrect, InsideInvariant, PTL

\* However opens interleave, an opened LED is a GPIO pin and an output.
THEOREM OpensMakeOutput == RegistersSpec => []OpenedIsOutput
<1>1. OpenInv => OpenedIsOutput
  BY TodosDiffer DEF OpenInv, PadInv, DirInv, OpenedIsOutput, Idle
<1> QED
  BY <1>1, OpenInvariant, PTL

\* Each bit is what its owner made it, but for lost updates.
THEOREM BitsHaveOwners == RegistersSpec => []EveryBitItsOwner
BY OwnerInvariant, PTL DEF OwnerInv

-----------------------------------------------------------------------------
(* KthreadModule.                                                          *)

\* Every variable of the module with the thread keeps its type.
THEOREM KthreadTypeCorrect == KthreadSpec => []KthreadTypeOK
<1>1. KthreadInit => KthreadTypeOK
  BY DEF KthreadInit, KthreadTypeOK
<1>2. KthreadTypeOK /\ [KthreadNext]_kthreadVars => KthreadTypeOK'
  BY DEF KthreadTypeOK, KthreadNext, kthreadVars, KthreadCreate,
         KthreadCreateFails, WakeUpProcess, KthreadStop, KthreadGone, Thread,
         ThreadStarts, ThreadLooks, ThreadSleeps, ThreadSlept, Counted
<1> QED
  BY <1>1, <1>2, PTL DEF KthreadSpec

\* A thread whose flag is not set has a module that is loaded or about to be,
\* and only one whose flag is set has returned.  The flag that an earlier thread
\* had stays set while a creation fails.  Once a sleep has ended with the flag
\* set there is no other: the next look sees it.
KthreadInv ==
  /\ kmod = "wake_up" =>
       IF thread = "thread" THEN task = "created" /\ ~should_stop /\ ~woken
                            ELSE task = "none"
  /\ kmod = "in" => ~should_stop /\ task \notin {"none", "exited"}
  /\ kmod = "stopping" => should_stop
  /\ kmod \in {"out", "dead"} => task = "none"
  /\ slept # "none" => should_stop /\ task \in {"look", "exited", "none"}
  /\ slept # "more"

\* What the exit is given is a thread that has not returned, and it waits for
\* one sleep at most, however loading, stopping and the thread interleave.
THEOREM ThreadOutlivesModule == KthreadSpec => []StopFindsThread
<1>1. KthreadInit => KthreadInv
  BY DEF KthreadInit, KthreadInv
<1>2. KthreadTypeOK /\ KthreadInv /\ [KthreadNext]_kthreadVars => KthreadInv'
  <2> SUFFICES ASSUME KthreadTypeOK, KthreadInv, [KthreadNext]_kthreadVars
               PROVE  KthreadInv'
    OBVIOUS
  <2> USE DEF KthreadTypeOK, KthreadInv
  <2>load. CASE KthreadCreate \/ KthreadCreateFails \/ WakeUpProcess
    BY <2>load DEF KthreadCreate, KthreadCreateFails, WakeUpProcess
  <2>unload. CASE KthreadStop \/ KthreadGone
    BY <2>unload DEF KthreadStop, KthreadGone
  <2>start. CASE ThreadStarts
    BY <2>start DEF ThreadStarts
  <2>look. CASE ThreadLooks
    BY <2>look DEF ThreadLooks
  <2>sleep. CASE ThreadSleeps
    BY <2>sleep DEF ThreadSleeps
  <2>wake. CASE ThreadSlept
    \* It was the first sleep to end so, if the flag is set.
    <3>first. should_stop => slept = "none"
      BY <2>wake DEF ThreadSlept
    <3> QED
      BY <2>wake, <3>first DEF ThreadSlept, Counted
  <2>idle. CASE UNCHANGED kthreadVars
    BY <2>idle DEF kthreadVars
  <2> QED
    BY <2>load, <2>unload, <2>start, <2>look, <2>sleep, <2>wake, <2>idle
    DEF KthreadNext, Thread
<1>3. KthreadTypeOK /\ KthreadInv => StopFindsThread
  BY DEF KthreadTypeOK, KthreadInv, StopFindsThread
<1> QED
  BY <1>1, <1>2, <1>3, KthreadTypeCorrect, PTL DEF KthreadSpec
=============================================================================
