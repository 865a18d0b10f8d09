------------------------- MODULE KeyLifecycleProofs -------------------------
(***************************************************************************)
(* The safety properties of KeyLifecycle for any number of GPIOs, any kind *)
(* of driver, one CPU or several, and any calls that may fail: above all,  *)
(* that a pointer is left dangling for one of four reasons only.           *)
(***************************************************************************)
EXTENDS KeyLifecycle, TLAPS

USE DEF keyVars, chrVars, regVars

(* What probe and remove hold is determined by where they are in the loop. *)

LoopSteps == {"gpiod_get_index", "gpiod_to_irq", "request_irq", "set_up"}

ProbeHolds ==
  /\ binder \in LoopSteps =>
       /\ infos
       /\ idx_gpio < GpioCount
       /\ \A k \in Gpios : k < idx_gpio => k \in irq
  /\ binder \in {"gpiod_to_irq", "request_irq"} => idx_gpio \in gpio
  /\ binder = "set_up" => idx_gpio \in irq
  /\ binder = "bound" => infos /\ Gpios \subseteq irq

RemoveHolds ==
  /\ binder \in RemoveSteps => infos
  /\ binder \in {"free_irq", "gpiod_put", "kill"} => idx_gpio < GpioCount
  /\ binder = "free_irq" => \A k \in Gpios : k >= idx_gpio => k \in irq
  /\ binder = "gpiod_put" => idx_gpio \in gpio /\ idx_gpio \notin irq
  /\ binder \in {"gpiod_put", "kill"} =>
       \A k \in Gpios : k > idx_gpio => k \in irq

\* Outside remove, only keys whose handler is installed have work waiting.
WaitingHasHandler ==
  health = "fine" /\ binder \notin RemoveSteps =>
    pending \cup running \subseteq irq

LifecycleInv ==
  /\ TypeOK
  /\ HandlerHasItsKey
  /\ ProbeHolds
  /\ RemoveHolds
  /\ WaitingHasHandler

-----------------------------------------------------------------------------

LEMMA GpioCountIsPositive == GpioCount \in Nat /\ 0 < GpioCount
  BY KeyLifecycleAssumption

USE DEF LoopSteps, ProbeCalls, ProbeSteps, RemoveSteps, Coming, Going, Gpios

\* The character device keeps its types in every step of its own.
LEMMA ChrTypes ==
  ASSUME Chr!TypeOK,
         Chr!Register("keys") \/ Chr!Unregister("keys") \/ Chr!Step("keys")
  PROVE  Chr!TypeOK'
<1> USE DEF Chr!TypeOK, Chr!Goto, Chr!Answer, Chr!Make, Chr!Fail, Chr!Destroy,
            Chr!Calls, Chr!Labels, Chr!Unregistering, Chr!Objects
<1>1. CASE Chr!Register("keys") \/ Chr!Unregister("keys")
  BY <1>1 DEF Chr!Register, Chr!Unregister
<1>2. CASE Chr!AllocRegion("keys")
  BY <1>2 DEF Chr!AllocRegion, Chr!FreeNums
<1>3. CASE Chr!AllocRegionFails("keys")
  BY <1>3 DEF Chr!AllocRegionFails
<1>4. CASE Chr!CdevAdd("keys")
  BY <1>4 DEF Chr!CdevAdd
<1>5. CASE \/ Chr!CdevAddFails("keys") \/ Chr!ClassCreateFails("keys")
           \/ Chr!DeviceCreateFails("keys")
  BY <1>5 DEF Chr!CdevAddFails, Chr!ClassCreateFails, Chr!DeviceCreateFails
<1>6. CASE Chr!ClassCreate("keys")
  BY <1>6 DEF Chr!ClassCreate
<1>7. CASE Chr!DeviceCreate("keys")
  BY <1>7 DEF Chr!DeviceCreate
<1>8. CASE Chr!DestroyClass("keys")
  BY <1>8 DEF Chr!DestroyClass
<1>9. CASE Chr!DelCdev("keys")
  BY <1>9 DEF Chr!DelCdev
<1>10. CASE Chr!UnregisterChrdev("keys")
  BY <1>10 DEF Chr!UnregisterChrdev
<1>11. CASE Chr!UnregisterStep("keys")
  BY <1>11 DEF Chr!UnregisterStep
<1>12. QED
  BY <1>1, <1>2, <1>3, <1>4, <1>5, <1>6, <1>7, <1>8, <1>9, <1>10, <1>11
  DEF Chr!Step

\* The steps that the drivers have between them.
AnyProbe == ProbeKeys \/ SetUp
AnyRemove ==
  \/ RemoveKeys
  \/ driver = "timer" /\ DelTimer
  \/ driver = "tasklet" /\ TaskletKill

Interrupted ==
  \E k \in Gpios : Interrupt(k) \/ InterruptTooEarly(k) \/ BottomHalf(k)

LEMMA StepCases ==
  ASSUME [Next]_vars
  PROVE  \/ Load \/ Exit \/ Bind \/ Unbind \/ Module
         \/ AnyProbe \/ AnyRemove \/ Interrupted
         \/ UNCHANGED vars
<1>1. Probe => AnyProbe
  BY DEF Probe, ProbeTimer, ProbeTasklet, ProbeWork, ProbePoll, ProbeSig,
     ProbeLog, AnyProbe
<1>2. Remove => AnyRemove
  BY DEF Remove, RemoveTimer, RemoveTasklet, RemoveWork, RemovePoll, RemoveSig,
     RemoveLog, AnyRemove
<1>3. QED
  BY <1>1, <1>2 DEF Next, Interrupted

LEMMA ChrCases ==
  ASSUME [Next]_vars, ~UNCHANGED chrVars
  PROVE  Chr!Register("keys") \/ Chr!Unregister("keys") \/ Chr!Step("keys")
BY StepCases
DEF Load, Exit, Bind, Unbind, Module, RegisterDevice, InitDone, InitFails,
    ChrStep, UnregisterDriver, DetachDevice, Unloaded, AnyProbe, ProbeKeys,
    ProbeFails, GpioBusy, GpiodCount, Kzalloc, GpiodGetIndex, GpiodToIrq,
    RequestIrq, SetUp, AnyRemove, RemoveKeys, FreeIrq, GpiodPut, DelTimer,
    TaskletKill, Kfree, Interrupted, Interrupt, InterruptTooEarly,
    BottomHalf, Start, Finish, vars

LEMMA ChrTypesKept ==
  ASSUME Chr!TypeOK, [Next]_vars
  PROVE  Chr!TypeOK'
<1>1. CASE UNCHANGED chrVars
  BY <1>1 DEF Chr!TypeOK
<1>2. CASE ~UNCHANGED chrVars
  BY <1>2, ChrCases, ChrTypes
<1>3. QED
  BY <1>1, <1>2

\* The other variables keep their types, as long as the loops stay in bounds.
LoopsInBounds ==
  binder \in LoopSteps \cup (RemoveSteps \ {"kfree"}) => idx_gpio < GpioCount

KeyTypes ==
  /\ idx_gpio \in 0 .. GpioCount
  /\ gpio \subseteq Gpios
  /\ irq \subseteq Gpios
  /\ ready \subseteq Gpios
  /\ pending \subseteq ready
  /\ running \subseteq ready

ControlTypes ==
  /\ driver \in Drivers
  /\ smp \in CONFIG_SMP
  /\ halfway \in BOOLEAN
  /\ loader \in {"out", "in", "failed"} \cup Coming \cup Going
  /\ registered \in BOOLEAN
  /\ binder \in {"unbound", "bound"} \cup ProbeSteps \cup RemoveSteps
  /\ infos \in BOOLEAN
  /\ health \in {"fine", "not set up", "freed", "unloaded"}

LEMMA ControlTypesKept ==
  ASSUME ControlTypes, [Next]_vars
  PROVE  ControlTypes'
<1> USE StepCases
    DEF ControlTypes, Goto, Load, Exit, Bind, Unbind, StartRemove, Module,
        RegisterDevice, InitDone, InitFails, ChrStep, UnregisterDriver,
        DetachDevice, Unloaded, AnyProbe, ProbeKeys, ProbeFails, GpioBusy,
        GpiodCount, Kzalloc, GpiodGetIndex, GpiodToIrq, RequestIrq, SetUp,
        AnyRemove, RemoveKeys, FreeIrq, GpiodPut, DelTimer, TaskletKill, Kfree,
        Interrupted, Interrupt, InterruptTooEarly, BottomHalf, Start, Finish,
        vars
<1>1. loader' \in {"out", "in", "failed"} \cup Coming \cup Going
  OBVIOUS
<1>2. /\ registered' \in BOOLEAN /\ driver' \in Drivers
      /\ smp' \in CONFIG_SMP /\ halfway' \in BOOLEAN
  OBVIOUS
<1>3. binder' \in {"unbound", "bound"} \cup ProbeSteps \cup RemoveSteps
  BY DEF EndOfProbeLoop, EndOfRemoveLoop
<1>4. infos' \in BOOLEAN
  OBVIOUS
<1>5. health' \in {"fine", "not set up", "freed", "unloaded"}
  BY DEF Forget
<1>6. QED
  BY <1>1, <1>2, <1>3, <1>4, <1>5

\* Every set of keys is made of keys, and only a timer, tasklet or work item
\* that was set up waits or runs.
LEMMA KeyTypesKept ==
  ASSUME KeyTypes, LoopsInBounds, HandlerHasItsKey, WaitingHasHandler,
         [Next]_vars
  PROVE  KeyTypes'
<1> USE GpioCountIsPositive DEF KeyTypes, LoopsInBounds, Goto, ProcessMayRun
<1>1. CASE Interrupted
  BY <1>1
  DEF Interrupted, Interrupt, InterruptTooEarly, BottomHalf, Start, Finish
<1>2. CASE Load \/ Exit \/ Bind \/ Module \/ Unbind
  <2>1. UNCHANGED keyVars
    BY <1>2 DEF Load, Exit, Bind, Unbind, Module, RegisterDevice,
       InitDone, InitFails, ChrStep, UnregisterDriver, DetachDevice, Unloaded
  <2>2. idx_gpio' \in {0, idx_gpio}
    BY <1>2 DEF Load, Exit, Bind, Unbind, StartRemove, Module, RegisterDevice,
       InitDone, InitFails, ChrStep, UnregisterDriver, DetachDevice, Unloaded
  <2>3. QED
    BY <2>1, <2>2
<1>3. CASE Kzalloc
  BY <1>3 DEF Kzalloc, WaitingHasHandler
<1>4. CASE AnyProbe /\ ~Kzalloc
  <2>1. binder \in LoopSteps => idx_gpio \in Gpios
    OBVIOUS
  <2>2. idx_gpio' \in 0 .. GpioCount
    BY <1>4
    DEF AnyProbe, ProbeKeys, ProbeFails, GpioBusy, GpiodCount, GpiodGetIndex,
       GpiodToIrq, RequestIrq, SetUp
  <2>3. /\ UNCHANGED <<pending, running>>
        /\ gpio' \subseteq Gpios /\ irq' \subseteq Gpios
        /\ ready \subseteq ready' /\ ready' \subseteq Gpios
    BY <1>4, <2>1
    DEF AnyProbe, ProbeKeys, ProbeFails, GpioBusy, GpiodCount, GpiodGetIndex,
       GpiodToIrq, RequestIrq, SetUp
  <2>4. QED
    BY <2>2, <2>3
<1>5. CASE AnyRemove /\ ~Kfree
  <2>1. idx_gpio' \in 0 .. GpioCount
    BY <1>5 DEF AnyRemove, RemoveKeys, FreeIrq, GpiodPut, DelTimer, TaskletKill
  <2>2. /\ UNCHANGED <<ready, running>>
        /\ gpio' \subseteq gpio /\ irq' \subseteq irq
        /\ pending' \subseteq pending
    BY <1>5 DEF AnyRemove, RemoveKeys, FreeIrq, GpiodPut, DelTimer, TaskletKill
  <2>3. QED
    BY <2>1, <2>2
<1>6. CASE Kfree
  BY <1>6 DEF Kfree
<1>7. CASE UNCHANGED vars
  BY <1>7 DEF vars
<1>8. QED
  BY <1>1, <1>2, <1>3, <1>4, <1>5, <1>6, <1>7, StepCases

LEMMA HandlersKept ==
  ASSUME KeyTypes, HandlerHasItsKey, ProbeHolds, RemoveHolds, [Next]_vars
  PROVE  HandlerHasItsKey'
<1> USE DEF KeyTypes, HandlerHasItsKey
<1>1. CASE RequestIrq
  BY <1>1 DEF RequestIrq, ProbeHolds, Goto
<1>2. CASE GpiodPut
  BY <1>2 DEF GpiodPut, RemoveHolds, Goto
<1>3. CASE ~RequestIrq /\ ~GpiodPut
  BY <1>3, StepCases
  DEF Load, Exit, Bind, Unbind, Module, RegisterDevice,
     InitDone, InitFails, ChrStep, UnregisterDriver, DetachDevice, Unloaded,
     AnyProbe, ProbeKeys, ProbeFails, GpioBusy, GpiodCount, Kzalloc,
     GpiodGetIndex,
     GpiodToIrq, SetUp, AnyRemove, RemoveKeys, FreeIrq,
     DelTimer, TaskletKill, Kfree, Interrupted, Interrupt,
     InterruptTooEarly, BottomHalf, Start, Finish, vars
<1>4. QED
  BY <1>1, <1>2, <1>3

LEMMA WaitingKept ==
  ASSUME KeyTypes, WaitingHasHandler, ProbeHolds, [Next]_vars
  PROVE  WaitingHasHandler'
<1> USE DEF KeyTypes, WaitingHasHandler, Goto, ProcessMayRun
<1>1. CASE Interrupted
  BY <1>1
  DEF Interrupted, Interrupt, InterruptTooEarly, BottomHalf, Start, Finish
<1>2. CASE Load \/ Exit \/ Bind \/ Module \/ Unbind
  BY <1>2 DEF Load, Exit, Bind, Unbind, StartRemove, Module, RegisterDevice,
     InitDone, InitFails, ChrStep, UnregisterDriver, DetachDevice, Unloaded,
     Forget
<1>3. CASE AnyProbe
  BY <1>3, KeyLifecycleAssumption
  DEF AnyProbe, ProbeKeys, ProbeFails, GpioBusy, GpiodCount,
     Kzalloc, GpiodGetIndex, GpiodToIrq, RequestIrq, SetUp, ChrCalls,
     EndOfProbeLoop
<1>4. CASE AnyRemove /\ ~Kfree
  BY <1>4
  DEF AnyRemove, RemoveKeys, FreeIrq, GpiodPut, DelTimer, TaskletKill,
      EndOfRemoveLoop
<1>5. CASE Kfree
  BY <1>5 DEF Kfree
<1>6. CASE UNCHANGED vars
  BY <1>6 DEF vars
<1>7. QED
  BY <1>1, <1>2, <1>3, <1>4, <1>5, <1>6, StepCases

LEMMA ProbeKept ==
  ASSUME KeyTypes, ProbeHolds, [Next]_vars
  PROVE  ProbeHolds'
<1> USE GpioCountIsPositive DEF KeyTypes, ProbeHolds, Goto
<1>1. CASE Interrupted
  <2>1. UNCHANGED <<binder, idx_gpio, infos, gpio, irq>>
    BY <1>1
    DEF Interrupted, Interrupt, InterruptTooEarly, BottomHalf, Start, Finish
  <2>2. QED
    BY <2>1
<1>2. CASE Load \/ Exit \/ Bind \/ Module \/ Unbind
  BY <1>2 DEF Load, Exit, Bind, Unbind, StartRemove, Module, RegisterDevice,
     InitDone, InitFails, ChrStep, UnregisterDriver, DetachDevice, Unloaded
<1>3. CASE AnyProbe
  <2>1. CASE ProbeFails \/ GpioBusy \/ GpiodCount
    BY <2>1 DEF ProbeFails, GpioBusy, GpiodCount
  <2>2. CASE Kzalloc
    BY <2>2 DEF Kzalloc
  <2>3. CASE GpiodGetIndex \/ GpiodToIrq
    BY <2>3 DEF GpiodGetIndex, GpiodToIrq
  <2>4. CASE RequestIrq /\ Deferred
    BY <2>4 DEF RequestIrq
  <2>5. CASE RequestIrq /\ ~Deferred
    BY <2>5 DEF RequestIrq, EndOfProbeLoop
  <2>6. CASE SetUp
    BY <2>6 DEF SetUp, EndOfProbeLoop
  <2>7. QED
    BY <1>3, <2>1, <2>2, <2>3, <2>4, <2>5, <2>6
    DEF AnyProbe, ProbeKeys
<1>4. CASE AnyRemove
  BY <1>4
  DEF AnyRemove, RemoveKeys, FreeIrq, GpiodPut, DelTimer, TaskletKill, Kfree,
     EndOfRemoveLoop
<1>5. CASE UNCHANGED vars
  BY <1>5 DEF vars
<1>6. QED
  BY <1>1, <1>2, <1>3, <1>4, <1>5, StepCases

LEMMA RemoveKept ==
  ASSUME KeyTypes, HandlerHasItsKey, ProbeHolds, RemoveHolds, [Next]_vars
  PROVE  RemoveHolds'
<1> USE GpioCountIsPositive DEF KeyTypes, RemoveHolds, Goto
<1>1. CASE Interrupted
  <2>1. UNCHANGED <<binder, idx_gpio, infos, gpio, irq>>
    BY <1>1
    DEF Interrupted, Interrupt, InterruptTooEarly, BottomHalf, Start, Finish
  <2>2. QED
    BY <2>1
<1>2. CASE Load \/ Exit \/ Bind \/ (Module /\ ~DetachDevice)
  BY <1>2 DEF Load, Exit, Bind, Module, RegisterDevice,
     InitDone, InitFails, ChrStep, UnregisterDriver, Unloaded
<1>3. CASE Unbind \/ DetachDevice
  BY <1>3 DEF Unbind, DetachDevice, StartRemove, ProbeHolds
<1>4. CASE AnyProbe
  BY <1>4
  DEF AnyProbe, ProbeKeys, ProbeFails, GpioBusy, GpiodCount, Kzalloc,
      GpiodGetIndex,
     GpiodToIrq, RequestIrq, SetUp,
     EndOfProbeLoop
<1>5. CASE FreeIrq
  BY <1>5 DEF FreeIrq, HandlerHasItsKey
<1>6. CASE GpiodPut /\ driver \in {"timer", "tasklet"}
  BY <1>6 DEF GpiodPut
<1>7. CASE GpiodPut /\ driver \notin {"timer", "tasklet"}
  BY <1>7 DEF GpiodPut, EndOfRemoveLoop
<1>8. CASE DelTimer \/ TaskletKill
  BY <1>8 DEF DelTimer, TaskletKill, EndOfRemoveLoop
<1>9. CASE Kfree
  BY <1>9 DEF Kfree
<1>10. CASE UNCHANGED vars
  BY <1>10 DEF vars
<1>11. QED
  BY <1>1, <1>2, <1>3, <1>4, <1>5, <1>6, <1>7, <1>8, <1>9, <1>10,
     StepCases
  DEF AnyRemove, RemoveKeys, Module

-----------------------------------------------------------------------------

LEMMA TypesSplit == TypeOK <=> ControlTypes /\ KeyTypes /\ Chr!TypeOK
  BY DEF TypeOK, ControlTypes, KeyTypes

LEMMA LoopsStayInBounds == ProbeHolds /\ RemoveHolds => LoopsInBounds
  BY DEF ProbeHolds, RemoveHolds, LoopsInBounds

LEMMA LifecycleInit == Init => LifecycleInv
<1> SUFFICES ASSUME Init PROVE LifecycleInv
  OBVIOUS
<1>1. Chr!TypeOK
  BY DEF Init, Chr!Init, Chr!TypeOK, Chr!Calls, Chr!Labels, Chr!Unregistering
<1>2. ControlTypes /\ KeyTypes
  <2>1. ControlTypes
    BY DEF Init, ControlTypes
  <2>2. KeyTypes
    BY GpioCountIsPositive DEF Init, KeyTypes
  <2>3. QED
    BY <2>1, <2>2
<1>3. HandlerHasItsKey /\ ProbeHolds /\ RemoveHolds /\ WaitingHasHandler
  BY DEF Init, HandlerHasItsKey, ProbeHolds, RemoveHolds, WaitingHasHandler
<1>4. QED
  BY <1>1, <1>2, <1>3, TypesSplit DEF LifecycleInv

LEMMA LifecycleStep == LifecycleInv /\ [Next]_vars => LifecycleInv'
<1> SUFFICES ASSUME LifecycleInv, [Next]_vars
             PROVE  LifecycleInv'
  OBVIOUS
<1>1. /\ ControlTypes /\ KeyTypes /\ Chr!TypeOK /\ LoopsInBounds
      /\ HandlerHasItsKey /\ ProbeHolds /\ RemoveHolds /\ WaitingHasHandler
  BY TypesSplit, LoopsStayInBounds DEF LifecycleInv
<1>2. ControlTypes' /\ KeyTypes' /\ Chr!TypeOK'
  BY <1>1, ControlTypesKept, KeyTypesKept, ChrTypesKept
<1>3. HandlerHasItsKey' /\ ProbeHolds' /\ RemoveHolds' /\ WaitingHasHandler'
  BY <1>1, HandlersKept, ProbeKept, RemoveKept, WaitingKept
<1>4. TypeOK'
  BY <1>2 DEF TypeOK, ControlTypes, KeyTypes
<1>5. QED
  BY <1>3, <1>4 DEF LifecycleInv

LEMMA LifecycleAlways == Spec => []LifecycleInv
<1>1. Init => LifecycleInv
  BY LifecycleInit
<1>2. LifecycleInv /\ [Next]_vars => LifecycleInv'
  BY LifecycleStep
<1>3. QED
  BY <1>1, <1>2, PTL DEF Spec

\* The loops of probe and remove stay inside the array of keys, only what was
\* set up is scheduled, and the character device keeps its types.
THEOREM TypeCorrect == Spec => []TypeOK
<1>1. LifecycleInv => TypeOK
  BY DEF LifecycleInv
<1>2. QED
  BY <1>1, LifecycleAlways, PTL

\* remove only takes back what probe took, whichever calls failed before, and
\* no handler is installed for a key whose descriptor was given back, for any
\* driver and number of keys (read.c 131-155 and 176-178).
THEOREM RemoveIsSafe == Spec => []RemoveFindsAll
<1>1. LifecycleInv => RemoveFindsAll
  <2> SUFFICES ASSUME LifecycleInv PROVE RemoveFindsAll
    OBVIOUS
  <2>1. KeyTypes /\ HandlerHasItsKey /\ RemoveHolds
    BY TypesSplit DEF LifecycleInv
  <2>2. Left \subseteq Gpios /\ \A k \in Left : k >= idx_gpio
    BY <2>1, GpioCountIsPositive DEF KeyTypes, Left
  <2>3. ASSUME binder \in {"gpiod_put", "kill"}
        PROVE  Left \ {idx_gpio} \subseteq irq
    <3>1. \A k \in Left \ {idx_gpio} : k > idx_gpio
      BY <2>1, GpioCountIsPositive DEF KeyTypes, Left
    <3>2. QED
      BY <2>1, <2>2, <2>3, <3>1 DEF RemoveHolds
  <2>4. binder = "free_irq" => idx_gpio < GpioCount /\ Left \subseteq irq
    BY <2>1, <2>2 DEF RemoveHolds
  <2>5. /\ binder \in RemoveSteps => infos
        /\ binder = "gpiod_put" => idx_gpio \in gpio
    BY <2>1 DEF RemoveHolds
  <2>6. QED
    BY <2>1, <2>3, <2>4, <2>5 DEF HandlerHasItsKey, RemoveFindsAll
<1>2. QED
  BY <1>1, LifecycleAlways, PTL

-----------------------------------------------------------------------------
(* What may be left dangling.                                              *)

\* remove leaves no bottom half behind: it cancels them (not so the work
\* driver), and del_timer is enough where there is one CPU.
Cancels == driver # "work" /\ ~(driver = "timer" /\ smp)

\* As long as no probe failed half-way: the highest key that is held while
\* probe goes up, the lowest while remove does.
HeldByProbe ==
  /\ binder \in {"unbound", "gpiod_count", "kzalloc"} =>
       gpio = {} /\ irq = {} /\ pending = {} /\ running = {} /\ ~infos
  /\ binder = "gpiod_get_index" => \A k \in gpio : k < idx_gpio
  /\ binder \in LoopSteps => \A k \in gpio : k <= idx_gpio

HeldByRemove ==
  /\ binder = "free_irq" => \A k \in gpio : k >= idx_gpio
  /\ binder = "gpiod_put" => \A k \in gpio : k >= idx_gpio
  /\ binder = "kill" => \A k \in gpio : k > idx_gpio
  /\ binder = "kfree" => gpio = {}
  /\ binder \in RemoveSteps \ {"kfree"} => idx_gpio < GpioCount

\* What waits to run is among the keys that remove has not reached.
WaitsForRemove ==
  /\ binder \in {"free_irq", "gpiod_put", "kill"} =>
       \A k \in pending \cup running : k >= idx_gpio
  /\ binder = "kfree" => pending = {} /\ running = {}

OnlyDeferredWaits == ~Deferred => pending \cup running = {}

OffTheList == loader = "unregister_driver" => ~registered

CleanInv ==
  health = "fine" /\ ~halfway =>
    /\ HeldByProbe
    /\ HeldByRemove
    /\ Cancels => WaitsForRemove

SafeInv ==
  /\ LifecycleInv
  /\ CleanInv
  /\ OnlyDeferredWaits
  /\ OffTheList
  /\ DanglingHasCause
  /\ UnboundHoldsNothing

LEMMA OffTheListKept ==
  ASSUME OffTheList, [Next]_vars
  PROVE  OffTheList'
BY StepCases
DEF OffTheList, Load, Exit, Bind, Unbind, StartRemove, Module,
    RegisterDevice, InitDone, InitFails, ChrStep, UnregisterDriver,
    DetachDevice, Unloaded, AnyProbe, ProbeKeys, ProbeFails, GpioBusy,
    GpiodCount, Kzalloc, GpiodGetIndex, GpiodToIrq, RequestIrq, SetUp,
    AnyRemove, RemoveKeys, FreeIrq, GpiodPut, DelTimer, TaskletKill, Kfree,
    Interrupted, Interrupt, InterruptTooEarly, BottomHalf, Start, Finish, vars

\* Only the three drivers that schedule something have something waiting.
LEMMA OnlyDeferredKept ==
  ASSUME KeyTypes, OnlyDeferredWaits, [Next]_vars
  PROVE  OnlyDeferredWaits'
<1> USE DEF KeyTypes, OnlyDeferredWaits, Deferred
<1>1. CASE Interrupted
  BY <1>1 DEF Interrupted, Interrupt, InterruptTooEarly, BottomHalf,
     Start, Finish
<1>2. CASE Load \/ Exit \/ Bind \/ Unbind \/ Module
  BY <1>2 DEF Load, Exit, Bind, Unbind, Module, RegisterDevice, InitDone,
     InitFails, ChrStep, UnregisterDriver, DetachDevice, Unloaded
<1>3. CASE AnyProbe
  BY <1>3 DEF AnyProbe, ProbeKeys, ProbeFails, GpioBusy, GpiodCount, Kzalloc,
     GpiodGetIndex, GpiodToIrq, RequestIrq, SetUp
<1>4. CASE AnyRemove
  BY <1>4 DEF AnyRemove, RemoveKeys, FreeIrq, GpiodPut, DelTimer, TaskletKill,
     Kfree
<1>5. CASE UNCHANGED vars
  BY <1>5 DEF vars
<1>6. QED
  BY <1>1, <1>2, <1>3, <1>4, <1>5, StepCases

\* The kernel goes no further once it has followed a dangling pointer.
LEMMA StoppedForGood ==
  ASSUME [Next]_vars, health # "fine"
  PROVE  UNCHANGED vars
BY StepCases
DEF Goto, ProcessMayRun, Load, Exit, Bind, Unbind, Module, RegisterDevice,
    InitDone, InitFails, ChrStep, UnregisterDriver, DetachDevice, Unloaded,
    AnyProbe, ProbeKeys, ProbeFails, GpioBusy, GpiodCount, Kzalloc,
    GpiodGetIndex, GpiodToIrq, RequestIrq, SetUp, AnyRemove, RemoveKeys,
    FreeIrq, GpiodPut, DelTimer, TaskletKill, Kfree, Interrupted, Interrupt,
    InterruptTooEarly, BottomHalf, Start, Finish

\* What a failed probe left behind is never forgotten.
LEMMA HalfwayStays ==
  ASSUME halfway \in BOOLEAN, [Next]_vars
  PROVE  halfway => halfway'
BY StepCases
DEF Load, Exit, Bind, Unbind, Module, RegisterDevice, InitDone, InitFails,
    ChrStep, UnregisterDriver, DetachDevice, Unloaded, AnyProbe, ProbeKeys,
    ProbeFails, GpioBusy, GpiodCount, Kzalloc, GpiodGetIndex, GpiodToIrq,
    RequestIrq, SetUp, AnyRemove, RemoveKeys, FreeIrq, GpiodPut, DelTimer,
    TaskletKill, Kfree, Interrupted, Interrupt, InterruptTooEarly, BottomHalf,
    Start, Finish, vars

\* What probe holds, unless it fails half-way.
LEMMA HeldByProbeKept ==
  ASSUME LifecycleInv, HeldByProbe, HeldByRemove, [Next]_vars,
         health' = "fine", ~halfway, ~halfway'
  PROVE  HeldByProbe'
<1>1. KeyTypes /\ HandlerHasItsKey
  BY TypesSplit DEF LifecycleInv
<1> USE <1>1 DEF KeyTypes, HandlerHasItsKey, HeldByProbe, Goto
<1>2. CASE Interrupted
  <2>1. UNCHANGED <<binder, idx_gpio, infos, gpio, irq>>
    BY <1>2
    DEF Interrupted, Interrupt, InterruptTooEarly, BottomHalf, Start, Finish
  <2>2. irq = {} /\ pending = {} /\ running = {}
          => pending' = {} /\ running' = {}
    BY <1>2
    DEF Interrupted, Interrupt, InterruptTooEarly, BottomHalf, Start, Finish
  <2>3. QED
    BY <2>1, <2>2
<1>3. CASE Load \/ Bind
  <2>1. binder = "unbound" /\ binder' = "gpiod_count"
        /\ UNCHANGED <<idx_gpio, infos, keyVars>>
    BY <1>3 DEF Load, Bind
  <2>2. QED
    BY <2>1
<1>4. CASE Unbind \/ DetachDevice
  BY <1>4 DEF Unbind, DetachDevice, StartRemove
<1>5. CASE Exit \/ (Module /\ ~DetachDevice)
  <2>1. UNCHANGED <<binder, idx_gpio, infos, keyVars>>
    BY <1>5 DEF Exit, Module, RegisterDevice, InitDone, InitFails, ChrStep,
       UnregisterDriver, Unloaded
  <2>2. QED
    BY <2>1
<1>6. CASE AnyProbe
  <2>1. CASE ProbeFails
    <3>1. binder \in {"gpiod_count", "kzalloc"}
      BY <2>1 DEF ProbeFails
    <3>2. ~infos' /\ UNCHANGED keyVars /\ binder' = "unbound"
      BY <2>1, <3>1 DEF ProbeFails
    <3>3. QED
      BY <3>1, <3>2
  <2>2. ~GpioBusy
    BY DEF GpioBusy
  <2>3. CASE GpiodCount
    BY <2>3 DEF GpiodCount
  <2>4. CASE Kzalloc
    BY <2>4 DEF Kzalloc
  <2>5. CASE GpiodGetIndex
    BY <2>5 DEF GpiodGetIndex
  <2>6. CASE GpiodToIrq
    BY <2>6 DEF GpiodToIrq
  <2>7. CASE RequestIrq
    BY <2>7 DEF RequestIrq, EndOfProbeLoop
  <2>8. CASE SetUp
    BY <2>8 DEF SetUp, EndOfProbeLoop
  <2>9. QED
    BY <1>6, <2>1, <2>2, <2>3, <2>4, <2>5, <2>6, <2>7, <2>8
    DEF AnyProbe, ProbeKeys
<1>7. CASE AnyRemove /\ ~Kfree
  BY <1>7 DEF AnyRemove, RemoveKeys, FreeIrq, GpiodPut, DelTimer, TaskletKill,
     EndOfRemoveLoop
<1>8. CASE Kfree
  <2>1. irq = {} /\ pending = {} /\ running = {}
    BY <1>8 DEF Kfree, ProcessMayRun
  <2>2. UNCHANGED <<gpio, irq, pending, running>> /\ ~infos'
        /\ binder' = "unbound" /\ binder = "kfree"
    BY <1>8 DEF Kfree
  <2>3. QED
    BY <2>1, <2>2 DEF HeldByRemove
<1>9. CASE UNCHANGED vars
  BY <1>9 DEF vars
<1>10. QED
  BY <1>2, <1>3, <1>4, <1>5, <1>6, <1>7, <1>8, <1>9, StepCases DEF Module

\* remove leaves no descriptor behind below the key it has reached.
LEMMA HeldByRemoveKept ==
  ASSUME LifecycleInv, HeldByProbe, HeldByRemove, [Next]_vars
  PROVE  HeldByRemove'
<1>1. /\ KeyTypes /\ RemoveHolds /\ GpioCount \in Nat /\ 0 < GpioCount
  BY TypesSplit, GpioCountIsPositive DEF LifecycleInv
<1> USE <1>1 DEF KeyTypes, HeldByRemove, Goto
<1>2. CASE Interrupted
  BY <1>2
  DEF Interrupted, Interrupt, InterruptTooEarly, BottomHalf, Start, Finish
<1>3. CASE Load \/ Bind
  BY <1>3 DEF Load, Bind
<1>4. CASE Unbind \/ DetachDevice
  <2>1. /\ binder' = "free_irq" /\ idx_gpio' = 0 /\ UNCHANGED keyVars
    BY <1>4 DEF Unbind, DetachDevice, StartRemove
  <2>2. \A k \in Gpios : k >= 0
    OBVIOUS
  <2>3. QED
    BY <2>1, <2>2
<1>5. CASE Exit \/ (Module /\ ~DetachDevice)
  BY <1>5 DEF Exit, Module, RegisterDevice, InitDone, InitFails, ChrStep,
     UnregisterDriver, Unloaded
<1>6. CASE AnyProbe
  BY <1>6 DEF AnyProbe, ProbeKeys, ProbeFails, GpioBusy, GpiodCount, Kzalloc,
     GpiodGetIndex, GpiodToIrq, RequestIrq, SetUp, EndOfProbeLoop
<1>7. CASE FreeIrq
  BY <1>7 DEF FreeIrq
<1>8. CASE GpiodPut
  BY <1>8 DEF GpiodPut, EndOfRemoveLoop
<1>9. CASE DelTimer \/ TaskletKill
  <2>1. /\ binder = "kill" /\ binder' = EndOfRemoveLoop
        /\ idx_gpio' = idx_gpio + 1 /\ gpio' = gpio
    BY <1>9 DEF DelTimer, TaskletKill
  <2>2. \A k \in gpio : k >= idx_gpio + 1
    BY <2>1
  <2>3. QED
    BY <2>1, <2>2 DEF EndOfRemoveLoop
<1>10. CASE Kfree
  BY <1>10 DEF Kfree
<1>11. CASE UNCHANGED vars
  BY <1>11 DEF vars
<1>12. QED
  BY <1>2, <1>3, <1>4, <1>5, <1>6, <1>7, <1>8, <1>9, <1>10, <1>11, StepCases
  DEF Module, AnyRemove, RemoveKeys

\* Nor anything that is scheduled, if it cancels its bottom halves.
LEMMA WaitsForRemoveKept ==
  ASSUME LifecycleInv, HeldByProbe, HeldByRemove, WaitsForRemove,
         OnlyDeferredWaits, Cancels, health = "fine", [Next]_vars
  PROVE  WaitsForRemove'
<1>1. /\ KeyTypes /\ HandlerHasItsKey /\ RemoveHolds /\ HeldByRemove
      /\ GpioCount \in Nat /\ 0 < GpioCount
  BY TypesSplit, GpioCountIsPositive DEF LifecycleInv
<1> USE <1>1 DEF KeyTypes, HandlerHasItsKey, WaitsForRemove, Goto
<1>2. CASE Interrupted
  <2>1. UNCHANGED <<binder, idx_gpio, gpio, irq>>
    BY <1>2
    DEF Interrupted, Interrupt, InterruptTooEarly, BottomHalf, Start, Finish
  <2>2. pending' \cup running' \subseteq pending \cup running \cup irq
    BY <1>2
    DEF Interrupted, Interrupt, InterruptTooEarly, BottomHalf, Start, Finish
  <2>3. CASE binder = "kfree"
    BY <2>1, <2>2, <2>3 DEF HeldByRemove
  <2>4. CASE binder \in {"free_irq", "gpiod_put", "kill"}
    <3>1. \A k \in gpio : k >= idx_gpio
      BY <2>4 DEF HeldByRemove
    <3>2. \A k \in pending' \cup running' : k >= idx_gpio
      BY <2>2, <2>4, <3>1
    <3>3. QED
      BY <2>1, <2>4, <3>2
  <2>5. QED
    BY <2>1, <2>3, <2>4
<1>3. CASE Load \/ Bind
  BY <1>3 DEF Load, Bind
<1>4. CASE Unbind \/ DetachDevice
  <2>1. /\ binder' = "free_irq" /\ idx_gpio' = 0 /\ UNCHANGED keyVars
    BY <1>4 DEF Unbind, DetachDevice, StartRemove
  <2>2. \A k \in Gpios : k >= 0
    OBVIOUS
  <2>3. QED
    BY <2>1, <2>2
<1>5. CASE Exit \/ (Module /\ ~DetachDevice)
  BY <1>5 DEF Exit, Module, RegisterDevice, InitDone, InitFails, ChrStep,
     UnregisterDriver, Unloaded
<1>6. CASE AnyProbe
  BY <1>6 DEF AnyProbe, ProbeKeys, ProbeFails, GpioBusy, GpiodCount, Kzalloc,
     GpiodGetIndex, GpiodToIrq, RequestIrq, SetUp, EndOfProbeLoop
<1>7. CASE FreeIrq
  BY <1>7 DEF FreeIrq
<1>8. CASE GpiodPut /\ driver \in {"timer", "tasklet"}
  BY <1>8 DEF GpiodPut
<1>9. CASE GpiodPut /\ driver \notin {"timer", "tasklet"}
  <2>1. pending = {} /\ running = {}
    BY <1>9 DEF OnlyDeferredWaits, Deferred, Cancels
  <2>2. UNCHANGED <<pending, running>>
    BY <1>9 DEF GpiodPut
  <2>3. QED
    BY <2>1, <2>2
<1>10. CASE driver = "timer" /\ DelTimer
  <2>1. running = {} /\ UNCHANGED <<gpio, irq, running>>
    BY <1>10 DEF DelTimer, ProcessMayRun, Cancels
  <2>2. /\ pending' = pending \ {idx_gpio} /\ binder = "kill"
        /\ binder' = EndOfRemoveLoop /\ idx_gpio' = idx_gpio + 1
    BY <1>10 DEF DelTimer
  <2>3. QED
    BY <2>1, <2>2 DEF EndOfRemoveLoop
<1>11. CASE TaskletKill
  BY <1>11 DEF TaskletKill, EndOfRemoveLoop
<1>12. CASE Kfree
  BY <1>12 DEF Kfree
<1>13. CASE UNCHANGED vars
  BY <1>13 DEF vars
<1>14. QED
  BY <1>2, <1>3, <1>4, <1>5, <1>6, <1>7, <1>8, <1>9, <1>10, <1>11, <1>12,
     <1>13, StepCases
  DEF Module, AnyRemove, RemoveKeys

LEMMA CleanKept ==
  ASSUME SafeInv, [Next]_vars
  PROVE  CleanInv'
<1> SUFFICES ASSUME health' = "fine", ~halfway'
             PROVE  /\ HeldByProbe' /\ HeldByRemove'
                    /\ Cancels' => WaitsForRemove'
  BY DEF CleanInv
<1>1. health = "fine" /\ ~halfway
  <2>1. halfway \in BOOLEAN
    BY DEF SafeInv, LifecycleInv, TypeOK
  <2>2. health # "fine" => health' = health
    BY StoppedForGood DEF vars
  <2>3. QED
    BY <2>1, <2>2, HalfwayStays
<1>2. /\ LifecycleInv /\ HeldByProbe /\ HeldByRemove /\ OnlyDeferredWaits
      /\ Cancels => WaitsForRemove
  BY <1>1 DEF SafeInv, CleanInv
<1>3. UNCHANGED <<driver, smp>>
  BY StepCases
  DEF Load, Exit, Bind, Unbind, Module, RegisterDevice, InitDone, InitFails,
      ChrStep, UnregisterDriver, DetachDevice, Unloaded, AnyProbe, ProbeKeys,
      ProbeFails, GpioBusy, GpiodCount, Kzalloc, GpiodGetIndex, GpiodToIrq,
      RequestIrq, SetUp, AnyRemove, RemoveKeys, FreeIrq, GpiodPut, DelTimer,
      TaskletKill, Kfree, Interrupted, Interrupt, InterruptTooEarly,
      BottomHalf, Start, Finish, vars
<1>4. HeldByProbe' /\ HeldByRemove'
  BY <1>1, <1>2, HeldByProbeKept, HeldByRemoveKept
<1>5. Cancels' => WaitsForRemove'
  BY <1>1, <1>2, <1>3, WaitsForRemoveKept DEF Cancels
<1>6. QED
  BY <1>4, <1>5

\* The four steps that could follow a pointer into nothing do so for the
\* reasons given.
LEMMA CauseKept ==
  ASSUME SafeInv, [Next]_vars
  PROVE  DanglingHasCause'
<1> USE DEF DanglingHasCause
<1>1. /\ KeyTypes /\ HandlerHasItsKey /\ CleanInv /\ OffTheList
      /\ DanglingHasCause /\ halfway \in BOOLEAN
  BY TypesSplit DEF SafeInv, LifecycleInv, TypeOK
<1>2. CASE Kfree
  <2>1. health = "fine" /\ UNCHANGED <<driver, smp, halfway>>
        /\ binder = "kfree"
    BY <1>2 DEF Kfree, Goto, ProcessMayRun
  <2>2. CASE halfway \/ ~Cancels
    BY <1>2, <2>1, <2>2 DEF Kfree, Cancels
  <2>3. CASE ~halfway /\ Cancels
    <3>1. irq = {} /\ pending = {} /\ running = {}
      BY <1>1, <2>1, <2>3
      DEF CleanInv, HeldByRemove, WaitsForRemove, HandlerHasItsKey
    <3>2. health' = health
      BY <1>2, <3>1 DEF Kfree
    <3>3. QED
      BY <2>1, <3>2
  <2>4. QED
    BY <2>2, <2>3
<1>3. CASE Unloaded
  <2>1. /\ health = "fine" /\ UNCHANGED halfway
        /\ binder = "unbound" /\ ~registered
    BY <1>1, <1>3 DEF Unloaded, ProcessMayRun, OffTheList
  <2>2. ~halfway => irq = {} /\ pending = {} /\ running = {}
    BY <1>1, <2>1 DEF CleanInv, HeldByProbe
  <2>3. ~halfway => health' = "fine"
    BY <1>3, <2>1, <2>2 DEF Unloaded, Forget
  <2>4. health' \in {"fine", "unloaded"}
    BY <1>3, <2>1 DEF Unloaded, Forget
  <2>5. QED
    BY <2>1, <2>3, <2>4
<1>4. CASE InitFails
  BY <1>4 DEF InitFails, ProcessMayRun, Forget
<1>5. CASE Interrupted
  BY <1>1, <1>5
  DEF Interrupted, Interrupt, InterruptTooEarly, BottomHalf, Start, Finish
<1>6. CASE \/ Load \/ Exit \/ Bind \/ Unbind
           \/ Module /\ ~Unloaded /\ ~InitFails
           \/ AnyProbe
           \/ AnyRemove /\ ~Kfree
  <2>1. health = "fine"
    BY <1>6, StoppedForGood
    DEF Load, Exit, Bind, Unbind, Module, RegisterDevice, InitDone, ChrStep,
       UnregisterDriver, DetachDevice, AnyProbe, ProbeKeys, ProbeFails,
       GpioBusy, GpiodCount, Kzalloc, GpiodGetIndex, GpiodToIrq, RequestIrq,
       SetUp, AnyRemove, RemoveKeys, FreeIrq, GpiodPut, DelTimer, TaskletKill,
       Goto, ProcessMayRun
  <2>2. health' = health
    BY <1>6 DEF Load, Exit, Bind, Unbind, Module, RegisterDevice, InitDone,
       ChrStep, UnregisterDriver, DetachDevice, AnyProbe, ProbeKeys, ProbeFails,
       GpioBusy, GpiodCount, Kzalloc, GpiodGetIndex, GpiodToIrq, RequestIrq,
       SetUp, AnyRemove, RemoveKeys, FreeIrq, GpiodPut, DelTimer, TaskletKill
  <2>3. QED
    BY <2>1, <2>2
<1>7. CASE UNCHANGED vars
  BY <1>1, <1>7 DEF vars, regVars
<1>8. QED
  BY <1>2, <1>3, <1>4, <1>5, <1>6, <1>7, StepCases

\* A driver is only unbound by a remove or a failed probe, which leave nothing.
LEMMA UnboundKept ==
  ASSUME SafeInv, CleanInv', [Next]_vars
  PROVE  UnboundHoldsNothing'
<1>1. KeyTypes /\ HandlerHasItsKey /\ CleanInv /\ UnboundHoldsNothing
  BY TypesSplit DEF SafeInv, LifecycleInv
<1>2. CASE health' = "fine"
  BY <1>2 DEF CleanInv, HeldByProbe, UnboundHoldsNothing
<1>3. CASE health' # "fine" /\ health # "fine"
  BY <1>1, <1>3, StoppedForGood DEF vars, UnboundHoldsNothing
<1>4. CASE health' # "fine" /\ health = "fine"
  <2>1. \/ Kfree \/ Unloaded \/ InitFails
        \/ \E k \in Gpios : InterruptTooEarly(k)
    BY <1>4, StepCases
    DEF Load, Exit, Bind, Unbind, Module, RegisterDevice, InitDone, ChrStep,
       UnregisterDriver, DetachDevice, AnyProbe, ProbeKeys, ProbeFails,
       GpioBusy, GpiodCount, Kzalloc, GpiodGetIndex, GpiodToIrq, RequestIrq,
       SetUp, AnyRemove, RemoveKeys, FreeIrq, GpiodPut, DelTimer, TaskletKill,
       Interrupted, Interrupt, BottomHalf, Start, Finish, vars
  <2>2. CASE Kfree
    <3>1. binder = "kfree" /\ UNCHANGED <<gpio, irq, halfway>> /\ ~infos'
      BY <2>2 DEF Kfree, Goto
    <3>2. ~halfway => gpio = {} /\ irq = {}
      BY <1>1, <1>4, <3>1 DEF CleanInv, HeldByRemove, HandlerHasItsKey
    <3>3. QED
      BY <1>4, <3>1, <3>2 DEF UnboundHoldsNothing
  <2>3. CASE Unloaded \/ InitFails \/ \E k \in Gpios : InterruptTooEarly(k)
    <3>1. UNCHANGED <<binder, halfway, gpio, irq, infos>>
      BY <2>3 DEF Unloaded, InitFails, InterruptTooEarly
    <3>2. QED
      BY <1>1, <1>4, <3>1 DEF UnboundHoldsNothing
  <2>4. QED
    BY <2>1, <2>2, <2>3
<1>5. QED
  BY <1>2, <1>3, <1>4

LEMMA SafeStep == SafeInv /\ [Next]_vars => SafeInv'
<1> SUFFICES ASSUME SafeInv, [Next]_vars
             PROVE  SafeInv'
  OBVIOUS
<1>1. LifecycleInv' /\ CleanInv' /\ DanglingHasCause'
  BY LifecycleStep, CleanKept, CauseKept DEF SafeInv
<1>2. OnlyDeferredWaits' /\ OffTheList'
  BY OnlyDeferredKept, OffTheListKept, TypesSplit DEF SafeInv, LifecycleInv
<1>3. UnboundHoldsNothing'
  BY <1>1, UnboundKept
<1>4. QED
  BY <1>1, <1>2, <1>3 DEF SafeInv

LEMMA SafeAlways == Spec => []SafeInv
<1>1. Init => SafeInv
  BY LifecycleInit
  DEF Init, SafeInv, CleanInv, HeldByProbe, HeldByRemove, WaitsForRemove,
      OnlyDeferredWaits, OffTheList, DanglingHasCause, UnboundHoldsNothing
<1>2. SafeInv /\ [Next]_vars => SafeInv'
  BY SafeStep
<1>3. QED
  BY <1>1, <1>2, PTL DEF Spec

\* Whatever the interleaving of interrupts, bottom halves, binding and loading:
\* a pointer into the freed block or the unloaded text is followed only after a
\* probe that failed half-way, an init that failed with the driver registered,
\* or a remove that does not wait for what is scheduled (lines 170-219).
THEOREM NothingElseDangles == Spec => []DanglingHasCause
<1>1. SafeInv => DanglingHasCause
  BY DEF SafeInv
<1>2. QED
  BY <1>1, SafeAlways, PTL

\* Unless a probe failed half-way, remove takes back everything (170-190).
THEOREM UnboundIsClean == Spec => []UnboundHoldsNothing
<1>1. SafeInv => UnboundHoldsNothing
  BY DEF SafeInv
<1>2. QED
  BY <1>1, SafeAlways, PTL

-----------------------------------------------------------------------------
(* The character device.  To the helper the module is one of its callers,  *)
(* so that what CharDevProofs proves of the helper holds of it.            *)

Helper == INSTANCE CharDevProofs
  WITH Devices <- {"keys"}, DevNums <- {1}, Faults <- Faults \cap ChrCalls

\* What a call of the helper is going to leave behind.
Calling ==
  /\ driver = "log" => step["keys"] = "idle"
  /\ loader = "register_device" =>
       step["keys"] \in Chr!Calls \cup Chr!Labels \cup {"idle"}
  /\ loader = "unregister_device" =>
       /\ step["keys"] \in Chr!Unregistering \cup {"idle"}
       /\ step["keys"] = "idle" => held["keys"] = {}

FollowInv == Helper!CharDevInv /\ Calling /\ DeviceFollowsModule

\* The helper is instantiated twice, with and without what is proved of it.
LEMMA SameHelper ==
  /\ Chr!Register("keys") => Helper!Register("keys")
  /\ Chr!Unregister("keys") => Helper!Unregister("keys")
  /\ Chr!Step("keys") => Helper!Step("keys")
<1> USE DEF Chr!Goto, Helper!Goto, Chr!Answer, Helper!Answer
<1>1. Chr!Register("keys") => Helper!Register("keys")
  BY Zenon DEF Chr!Register, Helper!Register
<1>2. Chr!Unregister("keys") => Helper!Unregister("keys")
  BY Zenon DEF Chr!Unregister, Helper!Unregister, Chr!Objects,
               Helper!Objects
<1>3. Chr!AllocRegion("keys") => Helper!AllocRegion("keys")
  BY Zenon DEF Chr!AllocRegion, Helper!AllocRegion, Chr!FreeNums,
               Helper!FreeNums
<1>4. Chr!AllocRegionFails("keys") => Helper!AllocRegionFails("keys")
  BY Zenon DEF Chr!AllocRegionFails, Helper!AllocRegionFails, Chr!FreeNums,
               Helper!FreeNums, Chr!Fail, Helper!Fail
<1>5. /\ Chr!CdevAdd("keys") => Helper!CdevAdd("keys")
      /\ Chr!ClassCreate("keys") => Helper!ClassCreate("keys")
      /\ Chr!DeviceCreate("keys") => Helper!DeviceCreate("keys")
  BY Zenon DEF Chr!CdevAdd, Helper!CdevAdd, Chr!ClassCreate,
               Helper!ClassCreate, Chr!DeviceCreate, Helper!DeviceCreate,
               Chr!Make, Helper!Make
<1>6. /\ Chr!CdevAddFails("keys") => Helper!CdevAddFails("keys")
      /\ Chr!ClassCreateFails("keys") => Helper!ClassCreateFails("keys")
      /\ Chr!DeviceCreateFails("keys") => Helper!DeviceCreateFails("keys")
  BY Zenon DEF Chr!CdevAddFails, Helper!CdevAddFails, Chr!ClassCreateFails,
               Helper!ClassCreateFails, Chr!DeviceCreateFails,
               Helper!DeviceCreateFails, Chr!Fail, Helper!Fail
<1>7. /\ Chr!DestroyClass("keys") => Helper!DestroyClass("keys")
      /\ Chr!DelCdev("keys") => Helper!DelCdev("keys")
      /\ Chr!UnregisterChrdev("keys") => Helper!UnregisterChrdev("keys")
  BY Zenon DEF Chr!DestroyClass, Helper!DestroyClass, Chr!DelCdev,
               Helper!DelCdev, Chr!UnregisterChrdev, Helper!UnregisterChrdev,
               Chr!Destroy, Helper!Destroy
<1>8. Chr!UnregisterStep("keys") => Helper!UnregisterStep("keys")
  BY Zenon DEF Chr!UnregisterStep, Helper!UnregisterStep, Chr!Destroy,
               Helper!Destroy
<1> QED
  BY <1>1, <1>2, <1>3, <1>4, <1>5, <1>6, <1>7, <1>8
  DEF Chr!Step, Helper!Step

LEMMA HelperFaults ==
  0 \notin {1} /\ Faults \cap ChrCalls \subseteq Helper!Calls
BY DEF ChrCalls, Helper!Calls

LEMMA HelperStep == [Next]_vars => [Helper!Next]_(Helper!vars)
<1> SUFFICES ASSUME [Next]_vars, ~UNCHANGED Helper!vars
             PROVE  Helper!Next
  OBVIOUS
<1>1. Chr!Register("keys") \/ Chr!Unregister("keys") \/ Chr!Step("keys")
  BY ChrCases DEF Helper!vars
<1> QED
  BY <1>1, SameHelper DEF Helper!Next

\* The helper stays in the function that was called, and ends it as it should.
LEMMA CallStep ==
  ASSUME Chr!TypeOK, Helper!StepMatches("keys"), Chr!Step("keys")
  PROVE  /\ step["keys"] # "idle"
         /\ step["keys"] \in Chr!Calls \cup Chr!Labels =>
              step'["keys"] \in Chr!Calls \cup Chr!Labels \cup {"idle"}
         /\ step["keys"] \in Chr!Unregistering =>
              /\ step'["keys"] \in Chr!Unregistering \cup {"idle"}
              /\ step'["keys"] = "idle" => held'["keys"] = {}
<1> USE DEF Chr!TypeOK, Chr!Goto, Chr!Answer, Chr!Make, Chr!Fail, Chr!Destroy,
            Chr!Calls, Chr!Labels, Chr!Unregistering
<1>1. CASE Chr!AllocRegion("keys") \/ Chr!AllocRegionFails("keys")
  BY <1>1 DEF Chr!AllocRegion, Chr!AllocRegionFails
<1>2. CASE Chr!CdevAdd("keys") \/ Chr!ClassCreate("keys")
           \/ Chr!DeviceCreate("keys")
  BY <1>2 DEF Chr!CdevAdd, Chr!ClassCreate, Chr!DeviceCreate
<1>3. CASE Chr!CdevAddFails("keys") \/ Chr!ClassCreateFails("keys")
           \/ Chr!DeviceCreateFails("keys")
  BY <1>3 DEF Chr!CdevAddFails, Chr!ClassCreateFails, Chr!DeviceCreateFails
<1>4. CASE Chr!DestroyClass("keys") \/ Chr!DelCdev("keys")
           \/ Chr!UnregisterChrdev("keys")
  BY <1>4 DEF Chr!DestroyClass, Chr!DelCdev, Chr!UnregisterChrdev
<1>5. CASE Chr!UnregisterStep("keys")
  BY <1>5 DEF Chr!UnregisterStep, Helper!StepMatches, Helper!MadeAt,
              Chr!Objects
<1> QED
  BY <1>1, <1>2, <1>3, <1>4, <1>5 DEF Chr!Step

LEMMA CallingStep ==
  ASSUME FollowInv, Chr!TypeOK, [Next]_vars
  PROVE  (Calling /\ DeviceFollowsModule)'
<1> USE DEF FollowInv, Calling, DeviceFollowsModule
<1>0. Helper!StepMatches("keys")
  BY DEF Helper!CharDevInv
<1>1. CASE UNCHANGED <<loader, driver, chrVars>>
  BY <1>1
<1>2. CASE Load \/ UnregisterDriver
  BY <1>2 DEF Load, UnregisterDriver
<1>3. CASE RegisterDevice
  <2>1. CASE driver # "log"
    BY <1>3, <2>1 DEF RegisterDevice, Chr!TypeOK, Chr!Register, Chr!Goto,
         Chr!Calls
  <2>2. CASE driver = "log"
    BY <1>3, <2>2 DEF RegisterDevice
  <2> QED
    BY <2>1, <2>2
<1>4. CASE Exit
  <2>1. CASE driver # "log"
    BY <1>4, <2>1 DEF Exit, Chr!TypeOK, Chr!Unregister, Chr!Goto,
         Chr!Unregistering
  <2>2. CASE driver = "log"
    BY <1>4, <2>2 DEF Exit
  <2> QED
    BY <2>1, <2>2
<1>5. CASE InitDone \/ InitFails
  BY <1>0, <1>5 DEF InitDone, InitFails, Helper!StepMatches, Helper!Objects,
       Chr!Objects
<1>6. CASE Unloaded
  BY <1>6 DEF Unloaded
<1>7. CASE ChrStep
  <2>1. Chr!Step("keys") /\ loader' = loader /\ driver' = driver
    BY <1>7 DEF ChrStep
  <2>2. loader \in {"register_device", "unregister_device"}
    BY <1>0, <2>1, CallStep
  <2>3. driver # "log"
    BY <2>1, CallStep, <1>0
  <2> QED
    BY <1>0, <2>1, <2>2, <2>3, CallStep
<1>8. CASE Bind \/ Unbind \/ DetachDevice \/ AnyProbe \/ AnyRemove
           \/ Interrupted
  <2> DEFINE Kept == UNCHANGED <<loader, driver, chrVars>>
  <2>1. Bind \/ Unbind \/ DetachDevice => Kept
    BY DEF Bind, Unbind, DetachDevice
  <2>2. AnyProbe => Kept
    BY DEF AnyProbe, ProbeKeys, ProbeFails, GpioBusy, GpiodCount, Kzalloc,
           GpiodGetIndex, GpiodToIrq, RequestIrq, SetUp
  <2>3. AnyRemove => Kept
    BY DEF AnyRemove, RemoveKeys, FreeIrq, GpiodPut, DelTimer, TaskletKill,
           Kfree
  <2>4. Interrupted => Kept
    <3>1. ASSUME NEW k \in Gpios, InterruptTooEarly(k)
          PROVE  Kept
      BY <3>1, Zenon DEF InterruptTooEarly
    <3>2. ASSUME NEW k \in Gpios, Interrupt(k) \/ Start(k) \/ Finish(k)
          PROVE  Kept
      BY <3>2 DEF Interrupt, Start, Finish
    <3> QED
      BY <3>1, <3>2 DEF Interrupted, BottomHalf
  <2> QED
    BY <1>1, <1>8, <2>1, <2>2, <2>3, <2>4
<1>9. CASE UNCHANGED vars
  BY <1>1, <1>9 DEF vars
<1> QED
  BY <1>2, <1>3, <1>4, <1>5, <1>6, <1>7, <1>8, <1>9, StepCases DEF Module

\* Between calls a character device is whole or gone, as the state of the module
\* says: exit never takes back what is not there, and no number, cdev or node
\* leads into the text of a module that is gone, whichever calls fail.
THEOREM DeviceFollows == Spec => []DeviceFollowsModule
<1>1. Init => FollowInv
  BY DEF Init, Chr!Init, FollowInv, Calling, DeviceFollowsModule,
         Helper!CharDevInv, Helper!TypeOK, Helper!StepMatches,
         Helper!NumbersDiffer, Helper!Calls, Helper!Labels,
         Helper!Unregistering, Helper!MadeAt
<1>2. LifecycleInv /\ FollowInv /\ [Next]_vars => FollowInv'
  <2> SUFFICES ASSUME LifecycleInv, FollowInv, [Next]_vars
               PROVE  FollowInv'
    OBVIOUS
  <2>1. Helper!CharDevInv'
    BY HelperFaults, HelperStep, Helper!CharDevInvStep DEF FollowInv
  <2>2. (Calling /\ DeviceFollowsModule)'
    BY CallingStep, TypesSplit DEF LifecycleInv
  <2> QED
    BY <2>1, <2>2 DEF FollowInv
<1>3. FollowInv => DeviceFollowsModule
  BY DEF FollowInv
<1> QED
  BY <1>1, <1>2, <1>3, LifecycleAlways, PTL DEF Spec
=============================================================================
