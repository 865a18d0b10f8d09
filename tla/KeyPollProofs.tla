--------------------------- MODULE KeyPollProofs ----------------------------
(***************************************************************************)
(* The safety properties of KeyPoll for any number of keys and             *)
(* applications: types, no lost wake-up in poll and read, the level of a   *)
(* key, and, on one core, no update left behind and the mailbox.           *)
(***************************************************************************)
EXTENDS KeyPoll, TLAPS

USE DEF hwVars, isrVars, sharedVars, appVars, sigVars

\* The steps of the two drivers and their applications, taken together.
AnyIsr(k) == Isr(k) \/ KillFasync(k)

AnyApp(a) ==
  \/ Read(a) \/ PollWait(a) \/ PollTest(a) \/ PollAwake(a) \/ PollTimeout(a)
  \/ ReadAfterPoll(a) \/ Register(a) \/ HandleSigio(a) \/ Close(a)

LEMMA StepCases ==
  ASSUME [Next]_vars
  PROVE  \/ \E k \in Keys : Edge(k) \/ AnyIsr(k)
         \/ \E a \in Apps : AnyApp(a)
         \/ UNCHANGED vars
BY DEF Next, Handler, IsrPoll, IsrSig, App, PollApp, ReadPoll, SigApp, ReadSig,
       StopApp, AnyIsr, AnyApp

\* Every variable keeps its type, whatever the driver and the faults.
THEOREM TypeCorrect == Spec => []TypeOK
<1>1. Init => TypeOK
  <2>1. 0 \in Numbers
    BY KeyPollAssumption DEF Numbers
  <2>2. Init => Update \in [status : Status, number : Numbers]
    BY <2>1 DEF Init, Update, Status
  <2> SUFFICES ASSUME Init
               PROVE  TypeOK
    OBVIOUS
  <2>3. /\ level \in [Keys -> Status]
        /\ irq \in [Keys -> BOOLEAN]
        /\ isr \in [Keys -> IsrSteps]
        /\ key_status \in [Keys -> Status]
        /\ pc \in [Apps -> {"user", "main"} \cup PollSteps \cup ReadSteps]
    BY DEF Init, Status, IsrSteps
  <2>4. /\ notify \in Drivers
        /\ g_key_pressed \in Status
        /\ posted \in Numbers
        /\ shown \subseteq Keys
        /\ g_key_status_updated \in BOOLEAN
        /\ g_fasync \subseteq Apps
        /\ waiters \subseteq Apps
        /\ sigio \subseteq Apps
        /\ missed \in BOOLEAN
    BY <2>1 DEF Init, Status
  <2>5. got \in [status : Status, number : Numbers]
    BY <2>2 DEF Init
  <2>6. QED
    BY <2>3, <2>4, <2>5 DEF TypeOK
<1>2. TypeOK /\ [Next]_vars => TypeOK'
  <2> SUFFICES ASSUME TypeOK, [Next]_vars
               PROVE  TypeOK'
    OBVIOUS
  <2> USE DEF TypeOK, Status, IsrSteps, PollSteps, ReadSteps, Goto, Step, Return
  <2>1. ASSUME NEW k \in Keys, Edge(k) PROVE TypeOK'
    BY <2>1 DEF Edge
  <2>2. ASSUME NEW k \in Keys, AnyIsr(k) PROVE TypeOK'
    <3>1. CASE Enter(k)
      BY <3>1 DEF Enter
    <3>2. CASE GetValue(k) \/ GetValueFails(k)
      BY <3>2 DEF GetValue, GetValueFails
    <3>3. CASE Compare(k)
      BY <3>3 DEF Compare
    <3>4. CASE StoreFlag(k)
      BY <3>4 DEF StoreFlag
    <3>5. CASE StorePressed(k)
      <4>1. posted' \in Numbers
        BY <3>5, KeyPollAssumption DEF StorePressed, Numbers
      <4>2. QED
        BY <3>5, <4>1 DEF StorePressed
    <3>6. CASE WakeUp(k)
      BY <3>6 DEF WakeUp
    <3>7. CASE KillFasync(k)
      BY <3>7 DEF KillFasync
    <3>8. QED
      BY <2>2, <3>1, <3>2, <3>3, <3>4, <3>5, <3>6, <3>7 DEF AnyIsr, Isr
  <2>3. ASSUME NEW a \in Apps, AnyApp(a) PROVE TypeOK'
    <3>1. CASE FirstTest(a) \/ Prepare(a)
      BY <3>1 DEF FirstTest, Prepare
    <3>2. CASE Test(a) \/ Awake(a)
      BY <3>2 DEF Test, Awake
    <3>3. CASE Clear(a)
      BY <3>3 DEF Clear
    <3>4. CASE Copy(a) \/ CopyFails(a)
      <4>1. Update \in [status : Status, number : Numbers]
        BY DEF Update
      <4>2. QED
        BY <3>4, <4>1 DEF Copy, CopyFails, Home
    <3>5. CASE PollWait(a) \/ PollAwake(a) \/ PollTimeout(a) \/ ReadAfterPoll(a)
      BY <3>5 DEF PollWait, PollAwake, PollTimeout, ReadAfterPoll
    <3>6. CASE PollTest(a)
      BY <3>6 DEF PollTest
    <3>7. CASE Register(a) \/ HandleSigio(a) \/ Close(a)
      BY <3>7 DEF Register, HandleSigio, Close
    <3>8. QED
      BY <2>3, <3>1, <3>2, <3>3, <3>4, <3>5, <3>6, <3>7 DEF AnyApp, Read
  <2>4. CASE UNCHANGED vars
    BY <2>4 DEF vars
  <2>5. QED
    BY <2>1, <2>2, <2>3, <2>4, StepCases
<1>3. QED
  BY <1>1, <1>2, PTL DEF Spec

-----------------------------------------------------------------------------

\* No thread sleeps in poll or read on an update (line 95) unless the wake-up
\* (line 97) is still to come, for any number of CPUs, keys and applications.
THEOREM WakeupNeverLost == Spec => []NoLostWakeup
<1>1. Init => NoLostWakeup
  BY DEF Init, NoLostWakeup
<1>2. TypeOK /\ NoLostWakeup /\ [Next]_vars => NoLostWakeup'
  <2> SUFFICES ASSUME TypeOK, NoLostWakeup, [Next]_vars
               PROVE  NoLostWakeup'
    OBVIOUS
  <2> USE DEF TypeOK, NoLostWakeup, Goto, Step, Return
  <2>1. ASSUME NEW k \in Keys, Edge(k) PROVE NoLostWakeup'
    BY <2>1 DEF Edge
  <2>2. ASSUME NEW k \in Keys, AnyIsr(k) PROVE NoLostWakeup'
    <3>1. CASE Enter(k) \/ GetValue(k) \/ GetValueFails(k)
      BY <3>1 DEF Enter, GetValue, GetValueFails
    <3>2. CASE Compare(k)
      BY <3>2 DEF Compare
    <3>3. CASE StoreFlag(k)
      \* The flag is set by the very step that leads to the wake-up.
      <4>1. isr'[k] \in {"pressed", "wake"}
        BY <3>3 DEF StoreFlag
      <4>2. QED
        BY <4>1
    <3>4. CASE StorePressed(k)
      BY <3>4 DEF StorePressed
    <3>5. CASE WakeUp(k)
      BY <3>5 DEF WakeUp
    <3>6. CASE KillFasync(k)
      BY <3>6 DEF KillFasync
    <3>7. QED
      BY <2>2, <3>1, <3>2, <3>3, <3>4, <3>5, <3>6 DEF AnyIsr, Isr
  <2>3. ASSUME NEW a \in Apps, AnyApp(a) PROVE NoLostWakeup'
    <3>1. CASE FirstTest(a) \/ Prepare(a)
      BY <3>1 DEF FirstTest, Prepare
    <3>2. CASE Test(a) \/ Awake(a)
      BY <3>2 DEF Test, Awake
    <3>3. CASE Clear(a)
      BY <3>3 DEF Clear
    <3>4. CASE Copy(a) \/ CopyFails(a)
      BY <3>4 DEF Copy, CopyFails, Home
    <3>5. CASE PollWait(a) \/ PollAwake(a) \/ PollTimeout(a) \/ ReadAfterPoll(a)
      BY <3>5 DEF PollWait, PollAwake, PollTimeout, ReadAfterPoll
    <3>6. CASE PollTest(a)
      BY <3>6 DEF PollTest
    <3>7. CASE Register(a) \/ HandleSigio(a) \/ Close(a)
      BY <3>7 DEF Register, HandleSigio, Close
    <3>8. QED
      BY <2>3, <3>1, <3>2, <3>3, <3>4, <3>5, <3>6, <3>7 DEF AnyApp, Read
  <2>4. CASE UNCHANGED vars
    BY <2>4 DEF vars
  <2>5. QED
    BY <2>1, <2>2, <2>3, <2>4, StepCases
<1>3. QED
  BY <1>1, <1>2, TypeCorrect, PTL DEF Spec

-----------------------------------------------------------------------------
(* On one core NothingLeftBehind needs to know that a handler which has    *)
(* set the flag and not yet stored the status finds the flag still set:    *)
(* no application runs in between.                                         *)

EarlyFlagStands == \A k \in Keys : isr[k] = "pressed" => g_key_status_updated

HandshakeInv == EarlyFlagStands /\ NothingLeftBehind

LEMMA HandshakeStep ==
  ASSUME ~SMP, "copy" \notin Faults, TypeOK, HandshakeInv, [Next]_vars
  PROVE  HandshakeInv'
<1> USE DEF TypeOK, HandshakeInv, EarlyFlagStands, NothingLeftBehind, Owed,
            Update, Consuming, Goto, Step, Return
<1>1. ASSUME NEW k \in Keys, Edge(k) PROVE HandshakeInv'
  BY <1>1 DEF Edge
<1>2. ASSUME NEW k \in Keys, AnyIsr(k) PROVE HandshakeInv'
  <2>1. CASE Enter(k) \/ GetValue(k) \/ GetValueFails(k)
    BY <2>1 DEF Enter, GetValue, GetValueFails
  <2>2. CASE Compare(k)
    BY <2>2 DEF Compare
  <2>3. CASE StoreFlag(k)
    BY <2>3 DEF StoreFlag
  <2>4. CASE StorePressed(k)
    \* Either the flag is still to be set, or it was and still is.
    <3>1. isr'[k] = "flag" \/ g_key_status_updated'
      BY <2>4 DEF StorePressed
    <3>2. QED
      BY <2>4, <3>1 DEF StorePressed
  <2>5. CASE WakeUp(k)
    BY <2>5 DEF WakeUp
  <2>6. CASE KillFasync(k)
    BY <2>6 DEF KillFasync
  <2>7. QED
    BY <1>2, <2>1, <2>2, <2>3, <2>4, <2>5, <2>6 DEF AnyIsr, Isr
<1>3. ASSUME NEW a \in Apps, AnyApp(a) PROVE HandshakeInv'
  <2>1. CASE FirstTest(a)
    BY <2>1 DEF FirstTest
  <2>2. CASE Prepare(a) \/ Awake(a)
    BY <2>2 DEF Prepare, Awake
  <2>3. CASE Test(a)
    BY <2>3 DEF Test
  <2>4. CASE Clear(a)
    \* No handler is half-way through its stores.
    <3>1. \A k \in Keys : isr[k] # "pressed"
      BY <2>4 DEF Clear, ProcessMayRun
    <3>2. Consuming(a)'
      BY <2>4 DEF Clear
    <3>3. QED
      BY <2>4, <3>1, <3>2 DEF Clear
  <2>5. CASE Copy(a)
    BY <2>5 DEF Copy, Home
  <2>6. CASE PollWait(a) \/ PollAwake(a) \/ PollTimeout(a) \/ ReadAfterPoll(a)
    BY <2>6 DEF PollWait, PollAwake, PollTimeout, ReadAfterPoll
  <2>7. CASE PollTest(a)
    BY <2>7 DEF PollTest
  <2>8. CASE Register(a) \/ HandleSigio(a) \/ Close(a)
    BY <2>8 DEF Register, HandleSigio, Close
  <2>9. QED
    BY <1>3, <2>1, <2>2, <2>3, <2>4, <2>5, <2>6, <2>7, <2>8
    DEF AnyApp, Read, CopyFails
<1>4. CASE UNCHANGED vars
  BY <1>4 DEF vars
<1>5. QED
  BY <1>1, <1>2, <1>3, <1>4, StepCases

\* On one core no update is left behind (lines 95-96 against 50-51), in
\* whichever order the two stores of the handler are done.
THEOREM UpdateNeverLeftBehind ==
  ASSUME ~SMP, "copy" \notin Faults
  PROVE  Spec => []NothingLeftBehind
<1>1. Init => HandshakeInv
  BY DEF Init, HandshakeInv, EarlyFlagStands, NothingLeftBehind, Update
<1>2. TypeOK /\ HandshakeInv /\ [Next]_vars => HandshakeInv'
  BY HandshakeStep
<1>3. HandshakeInv => NothingLeftBehind
  BY DEF HandshakeInv
<1>4. QED
  BY <1>1, <1>2, <1>3, TypeCorrect, PTL DEF Spec

-----------------------------------------------------------------------------
(* The level of a key.  StoredIsLevel needs to know the same of what a     *)
(* handler has read and still has to compare or to store.                  *)

ReadIsLevel ==
  \A k \in Keys :
    isr[k] \in {"compare", "stores", "pressed"} /\ ~irq[k]
      => key_status[k] = level[k]

LevelInv == ReadIsLevel /\ StoredIsLevel

LEMMA LevelStep ==
  ASSUME TypeOK, LevelInv, [Next]_vars
  PROVE  LevelInv'
<1> USE DEF TypeOK, LevelInv, ReadIsLevel, StoredIsLevel, Pending, Goto, Step,
            Return
<1>1. ASSUME NEW k \in Keys, Edge(k) PROVE LevelInv'
  BY <1>1 DEF Edge
<1>2. ASSUME NEW k \in Keys, AnyIsr(k) PROVE LevelInv'
  <2>1. CASE Enter(k)
    BY <2>1 DEF Enter
  <2>2. CASE GetValue(k)
    BY <2>2 DEF GetValue
  <2>3. CASE GetValueFails(k)
    BY <2>3 DEF GetValueFails
  <2>4. CASE Compare(k)
    \* A status that is there already is the level, unless an edge has come.
    <3>1. irq[k] \/ key_status[k] = level[k]
      BY <2>4 DEF Compare
    <3>2. QED
      BY <2>4, <3>1 DEF Compare
  <2>5. CASE StoreFlag(k)
    BY <2>5 DEF StoreFlag
  <2>6. CASE StorePressed(k)
    <3>1. irq[k] \/ key_status[k] = level[k]
      BY <2>6 DEF StorePressed
    <3>2. QED
      BY <2>6, <3>1 DEF StorePressed
  <2>7. CASE WakeUp(k)
    BY <2>7 DEF WakeUp
  <2>8. CASE KillFasync(k)
    BY <2>8 DEF KillFasync
  <2>9. QED
    BY <1>2, <2>1, <2>2, <2>3, <2>4, <2>5, <2>6, <2>7, <2>8 DEF AnyIsr, Isr
<1>3. ASSUME NEW a \in Apps, AnyApp(a) PROVE LevelInv'
  BY <1>3 DEF AnyApp, Read, FirstTest, Prepare, Test, Awake, Clear, Copy,
              CopyFails, PollWait, PollTest, PollAwake, PollTimeout,
              ReadAfterPoll, Register, HandleSigio, Close
<1>4. CASE UNCHANGED vars
  BY <1>4 DEF vars
<1>5. QED
  BY <1>1, <1>2, <1>3, <1>4, StepCases

\* g_key_pressed is the level of the key that stored it, and of those that
\* found their status there, unless news of that key is on its way (lines 89-96
\* of my_gpio_key_irq): for any keys, faults and number of CPUs.
THEOREM LevelIsStored == Spec => []StoredIsLevel
<1>1. Init => LevelInv
  BY DEF Init, LevelInv, ReadIsLevel, StoredIsLevel
<1>2. TypeOK /\ LevelInv /\ [Next]_vars => LevelInv'
  BY LevelStep
<1>3. LevelInv => StoredIsLevel
  BY DEF LevelInv
<1>4. QED
  BY <1>1, <1>2, <1>3, TypeCorrect, PTL DEF Spec

\* From the pin to the program on one core: once nothing is owed and no news
\* of a key is on its way, what was handed out last (line 51) is its level.
THEOREM LevelIsHandedOut ==
  ASSUME ~SMP, "copy" \notin Faults
  PROVE  Spec => []GotIsLevel
<1>1. TypeOK /\ NothingLeftBehind /\ StoredIsLevel => GotIsLevel
  BY DEF TypeOK, NothingLeftBehind, StoredIsLevel, GotIsLevel, Update
<1>2. QED
  BY <1>1, TypeCorrect, LevelIsStored, UpdateNeverLeftBehind, PTL

-----------------------------------------------------------------------------
(* The refinement, on one core.  A single handler runs at a time and no    *)
(* application meanwhile, so that its first store may pass for the post.   *)

OneHandler ==
  \A j, k \in Keys : isr[j] # "idle" /\ isr[k] # "idle" => j = k

NewsDiffers ==
  \A k \in Keys :
    isr[k] \in {"stores", "pressed"} => key_status[k] # g_key_pressed

OneCoreInv == OneHandler /\ NewsDiffers /\ EarlyFlagStands

LEMMA OneCoreStep ==
  ASSUME ~SMP, TypeOK, OneCoreInv, [Next]_vars
  PROVE  OneCoreInv'
<1> USE DEF TypeOK, OneCoreInv, OneHandler, NewsDiffers, EarlyFlagStands, Goto,
            Step, Return
<1>1. ASSUME NEW k \in Keys, Edge(k) PROVE OneCoreInv'
  BY <1>1 DEF Edge
<1>2. ASSUME NEW k \in Keys, AnyIsr(k) PROVE OneCoreInv'
  <2>1. CASE Enter(k)
    BY <2>1 DEF Enter
  <2>2. CASE GetValue(k) \/ GetValueFails(k)
    BY <2>2 DEF GetValue, GetValueFails
  <2>3. CASE Compare(k)
    BY <2>3 DEF Compare
  <2>4. CASE StoreFlag(k)
    BY <2>4 DEF StoreFlag
  <2>5. CASE StorePressed(k)
    BY <2>5 DEF StorePressed
  <2>6. CASE WakeUp(k) \/ KillFasync(k)
    BY <2>6 DEF WakeUp, KillFasync
  <2>7. QED
    BY <1>2, <2>1, <2>2, <2>3, <2>4, <2>5, <2>6 DEF AnyIsr, Isr
<1>3. ASSUME NEW a \in Apps, AnyApp(a) PROVE OneCoreInv'
  \* Applications run while every handler is idle.
  <2>1. \A k \in Keys : isr[k] = "idle"
    BY <1>3 DEF AnyApp, Read, FirstTest, Prepare, Test, Awake, Clear, Copy,
                CopyFails, PollWait, PollTest, PollAwake, PollTimeout,
                ReadAfterPoll, Register, HandleSigio, Close, ProcessMayRun
  <2>2. UNCHANGED isr
    BY <1>3 DEF AnyApp, Read, FirstTest, Prepare, Test, Awake, Clear, Copy,
                CopyFails, PollWait, PollTest, PollAwake, PollTimeout,
                ReadAfterPoll, Register, HandleSigio, Close
  <2>3. QED
    BY <2>1, <2>2
<1>4. CASE UNCHANGED vars
  BY <1>4 DEF vars
<1>5. QED
  BY <1>1, <1>2, <1>3, <1>4, StepCases

LEMMA OneCoreInvariant ==
  ASSUME ~SMP
  PROVE  Spec => []OneCoreInv
<1>1. Init => OneCoreInv
  BY DEF Init, OneCoreInv, OneHandler, NewsDiffers, EarlyFlagStands
<1>2. TypeOK /\ OneCoreInv /\ [Next]_vars => OneCoreInv'
  BY OneCoreStep
<1>3. QED
  BY <1>1, <1>2, TypeCorrect, PTL DEF Spec

LEMMA MailboxStep ==
  ASSUME ~SMP, "copy" \notin Faults, TypeOK, OneCoreInv, [Next]_vars
  PROVE  [Mailbox!Next]_(Mailbox!vars)
<1> USE DEF TypeOK, OneCoreInv, OneHandler, NewsDiffers, Mailbox!vars, Update,
            Goto, Step, Return
\* As long as no handler is between its stores, Latest is what is stored.
<1>1. ASSUME \A k \in Keys : isr[k] # "pressed",
             \A k \in Keys : isr'[k] # "pressed",
             UNCHANGED <<g_key_pressed, posted>>
      PROVE  Latest = Update /\ UNCHANGED Latest
  BY <1>1 DEF Latest
<1>2. ASSUME NEW k \in Keys, Edge(k) PROVE UNCHANGED Mailbox!vars
  BY <1>2 DEF Edge, Latest, Owed, Consuming
<1>3. ASSUME NEW k \in Keys, AnyIsr(k)
      PROVE  [Mailbox!Next]_(Mailbox!vars)
  <2> DEFINE News == [status |-> key_status[k],
                      number |-> (posted + 1) % Numbering]
  <2>1. \A j \in Keys \ {k} : isr[j] = "idle" /\ isr'[j] = "idle"
    <3>1. CASE Enter(k)
      BY <3>1 DEF Enter
    <3>2. CASE ~Enter(k)
      BY <1>3, <3>2 DEF AnyIsr, Isr, GetValue, GetValueFails, Compare,
                        StoreFlag, StorePressed, WakeUp, KillFasync
    <3>3. QED
      BY <3>1, <3>2
  <2>2. CASE Enter(k) \/ GetValue(k) \/ GetValueFails(k)
    <3>1. UNCHANGED Latest
      BY <1>1, <2>1, <2>2 DEF Enter, GetValue, GetValueFails
    <3>2. UNCHANGED <<Owed, got>>
      BY <2>2 DEF Enter, GetValue, GetValueFails, Owed, Consuming
    <3>3. QED
      BY <3>1, <3>2
  <2>3. CASE Compare(k)
    <3>1. UNCHANGED Latest
      BY <1>1, <2>1, <2>3 DEF Compare
    <3>2. UNCHANGED <<Owed, got>>
      BY <2>3 DEF Compare, Owed, Consuming
    <3>3. QED
      BY <3>1, <3>2
  <2>4. CASE StoreFlag(k) /\ isr[k] = "stores"
    \* The flag is up, and it is clear what will be stored.
    <3>1. Latest = Update
      BY <2>1, <2>4 DEF Latest
    <3>2. isr'[k] = "pressed" /\ UNCHANGED <<g_key_pressed, posted, got>>
      BY <2>4 DEF StoreFlag
    <3>3. key_status[k] = 1 - g_key_pressed
      BY <2>4 DEF Status
    <3>4. Latest' = News
      BY <3>2, <3>3 DEF Latest
    <3>5. Owed'
      BY <2>4 DEF StoreFlag, Owed
    <3>6. Mailbox!Post(key_status[k])
      BY <3>1, <3>2, <3>4, <3>5 DEF Mailbox!Post
    <3>7. QED
      BY <3>6 DEF Mailbox!Next, Mailbox!Status, Status
  <2>5. CASE StorePressed(k) /\ isr[k] = "stores"
    <3>1. Latest = Update
      BY <2>1, <2>5 DEF Latest
    <3>2. isr'[k] = "flag" /\ Update' = News /\ UNCHANGED got
      BY <2>5 DEF StorePressed
    <3>3. Latest' = News
      BY <2>1, <3>2 DEF Latest
    <3>4. Owed'
      BY <3>2 DEF Owed
    <3>5. Mailbox!Post(key_status[k])
      BY <3>1, <3>2, <3>3, <3>4 DEF Mailbox!Post
    <3>6. QED
      BY <3>5 DEF Mailbox!Next, Mailbox!Status, Status
  <2>6. CASE StoreFlag(k) /\ isr[k] # "stores"
    <3>1. UNCHANGED <<Latest, got>>
      BY <1>1, <2>1, <2>6 DEF StoreFlag
    <3>2. Owed /\ Owed'
      BY <2>6 DEF StoreFlag, Owed
    <3>3. QED
      BY <3>1, <3>2
  <2>7. CASE StorePressed(k) /\ isr[k] # "stores"
    \* Now what was posted is stored.
    <3>1. isr[k] = "pressed" /\ isr'[k] = "wake" /\ Update' = News
      BY <2>7 DEF StorePressed
    <3>2. key_status[k] = 1 - g_key_pressed
      BY <3>1 DEF Status
    <3>3. Latest = News /\ Latest' = News
      BY <2>1, <3>1, <3>2 DEF Latest
    <3>4. Owed /\ Owed'
      BY <2>7, <3>1 DEF StorePressed, Owed, EarlyFlagStands
    <3>5. QED
      BY <2>7, <3>3, <3>4 DEF StorePressed
  <2>8. CASE WakeUp(k) \/ KillFasync(k)
    <3>1. UNCHANGED Latest
      BY <1>1, <2>1, <2>8 DEF WakeUp, KillFasync
    <3>2. UNCHANGED <<Owed, got>>
      BY <2>8 DEF WakeUp, KillFasync, Owed, Consuming
    <3>3. QED
      BY <3>1, <3>2
  <2>9. QED
    BY <1>3, <2>2, <2>3, <2>4, <2>5, <2>6, <2>7, <2>8 DEF AnyIsr, Isr
<1>4. ASSUME NEW a \in Apps, AnyApp(a)
      PROVE  [Mailbox!Next]_(Mailbox!vars)
  <2>1. /\ \A k \in Keys : isr[k] = "idle" /\ isr'[k] = "idle"
        /\ UNCHANGED <<g_key_pressed, posted>>
    BY <1>4 DEF AnyApp, Read, FirstTest, Prepare, Test, Awake, Clear, Copy,
                CopyFails, PollWait, PollTest, PollAwake, PollTimeout,
                ReadAfterPoll, Register, HandleSigio, Close, ProcessMayRun
  <2>2. Latest = Update /\ UNCHANGED Latest
    BY <1>1, <2>1
  <2>3. CASE FirstTest(a) \/ Test(a)
    BY <2>2, <2>3 DEF FirstTest, Test, Owed, Consuming
  <2>4. CASE Prepare(a) \/ Awake(a)
    BY <2>2, <2>4 DEF Prepare, Awake, Owed, Consuming
  <2>5. CASE Clear(a)
    <3>1. Consuming(a) /\ Consuming(a)'
      BY <2>5 DEF Clear, Consuming
    <3>2. Owed /\ Owed'
      BY <3>1 DEF Owed
    <3>3. QED
      BY <2>2, <2>5, <3>2 DEF Clear
  <2>6. CASE Copy(a)
    <3>1. Owed
      BY <2>6 DEF Copy, Owed, Consuming
    <3>2. Owed' \in BOOLEAN
      BY DEF Owed
    <3>3. Mailbox!Take
      BY <2>2, <2>6, <3>1, <3>2 DEF Copy, Mailbox!Take
    <3>4. QED
      BY <3>3 DEF Mailbox!Next
  <2>7. CASE \/ PollWait(a) \/ PollTest(a) \/ PollAwake(a) \/ PollTimeout(a)
             \/ ReadAfterPoll(a)
    BY <2>2, <2>7 DEF PollWait, PollTest, PollAwake, PollTimeout, ReadAfterPoll,
                      Owed, Consuming
  <2>8. CASE Register(a) \/ HandleSigio(a) \/ Close(a)
    BY <2>2, <2>8 DEF Register, HandleSigio, Close, Owed, Consuming
  <2>9. QED
    BY <1>4, <2>3, <2>4, <2>5, <2>6, <2>7, <2>8 DEF AnyApp, Read, CopyFails
<1>5. CASE UNCHANGED vars
  BY <1>5 DEF vars, Latest, Owed, Consuming
<1>6. QED
  BY <1>2, <1>3, <1>4, <1>5, StepCases

\* On one core the drivers without a bottom half implement the mailbox of
\* KeyMailbox (lines 94-96 of the handler against 48-51 of read), in whichever
\* order the handler's stores are done, unless a copy to user space fails.
THEOREM DriverImplementsMailbox ==
  ASSUME ~SMP, "copy" \notin Faults
  PROVE  Spec => ImplementsMailbox
<1>1. Init => Mailbox!Init
  BY DEF Init, Mailbox!Init, Latest, Update, Owed, Consuming
<1>2. TypeOK /\ OneCoreInv /\ [Next]_vars => [Mailbox!Next]_(Mailbox!vars)
  BY MailboxStep
<1>3. Spec => []OneCoreInv
  BY OneCoreInvariant
<1>4. QED
  BY <1>1, <1>2, <1>3, TypeCorrect, PTL
  DEF Spec, ImplementsMailbox, Mailbox!Spec

-----------------------------------------------------------------------------
(* A signal may only be missing when nobody was registered as it was sent: *)
(* whoever takes SIGIO off its list of pending ones goes on to read.       *)

SignalInv == notify = "sig" /\ g_key_status_updated /\ ~missed => Told

LEMMA SignalStep ==
  ASSUME TypeOK, SignalInv, [Next]_vars
  PROVE  SignalInv'
<1> USE DEF TypeOK, SignalInv, Told, ReadSteps, Goto, Step, Return
<1>1. ASSUME NEW k \in Keys, Edge(k) PROVE SignalInv'
  BY <1>1 DEF Edge
<1>2. ASSUME NEW k \in Keys, AnyIsr(k) PROVE SignalInv'
  <2>1. CASE Enter(k) \/ GetValue(k) \/ GetValueFails(k)
    BY <2>1 DEF Enter, GetValue, GetValueFails
  <2>2. CASE Compare(k)
    BY <2>2 DEF Compare
  <2>3. CASE StoreFlag(k)
    <3>1. isr'[k] \in {"pressed", "wake"}
      BY <2>3 DEF StoreFlag
    <3>2. QED
      BY <3>1
  <2>4. CASE StorePressed(k)
    BY <2>4 DEF StorePressed
  <2>5. CASE WakeUp(k)
    BY <2>5 DEF WakeUp
  <2>6. CASE KillFasync(k)
    \* It reaches somebody, or it is missed.
    <3>1. missed' \/ \E a \in Apps : a \in sigio'
      BY <2>6 DEF KillFasync
    <3>2. QED
      BY <3>1
  <2>7. QED
    BY <1>2, <2>1, <2>2, <2>3, <2>4, <2>5, <2>6 DEF AnyIsr, Isr
<1>3. ASSUME NEW a \in Apps, AnyApp(a) PROVE SignalInv'
  <2>1. CASE FirstTest(a)
    BY <2>1 DEF FirstTest
  <2>2. CASE Prepare(a) \/ Awake(a)
    BY <2>2 DEF Prepare, Awake
  <2>3. CASE Test(a)
    BY <2>3 DEF Test
  <2>4. CASE Clear(a)
    BY <2>4 DEF Clear
  <2>5. CASE Copy(a) \/ CopyFails(a)
    BY <2>5 DEF Copy, CopyFails
  <2>6. CASE PollWait(a) \/ PollAwake(a) \/ PollTimeout(a) \/ ReadAfterPoll(a)
    BY <2>6 DEF PollWait, PollAwake, PollTimeout, ReadAfterPoll
  <2>7. CASE PollTest(a)
    BY <2>7 DEF PollTest
  <2>8. CASE Register(a)
    BY <2>8 DEF Register
  <2>9. CASE HandleSigio(a)
    \* The signal is gone, but its handler is on its way to the flag.
    <3>1. pc'[a] = "wait"
      BY <2>9 DEF HandleSigio
    <3>2. QED
      BY <3>1
  <2>10. CASE Close(a)
    BY <2>10 DEF Close
  <2>11. QED
    BY <1>3, <2>1, <2>2, <2>3, <2>4, <2>5, <2>6, <2>7, <2>8, <2>9, <2>10
    DEF AnyApp, Read
<1>4. CASE UNCHANGED vars
  BY <1>4 DEF vars
<1>5. QED
  BY <1>1, <1>2, <1>3, <1>4, StepCases

\* An update that somebody is registered for never waits without a signal
\* (lines 91-97 of the sig driver against line 11 of its application), for any
\* number of CPUs, keys and applications, and whatever fails.
THEOREM UpdateIsSignalled == Spec => []SignalForUpdate
<1>1. Init => SignalInv
  BY DEF Init, SignalInv
<1>2. TypeOK /\ SignalInv /\ [Next]_vars => SignalInv'
  BY SignalStep
<1>3. SignalInv => SignalForUpdate
  BY DEF SignalInv, SignalForUpdate, Listening
<1>4. QED
  BY <1>1, <1>2, <1>3, TypeCorrect, PTL DEF Spec
=============================================================================
