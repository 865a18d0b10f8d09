--------------------------- MODULE KeyReadProofs ----------------------------
(***************************************************************************)
(* The safety properties of KeyRead for any number of keys and readers:    *)
(* types, no lost wake-up, no update left behind, the level of a key, and  *)
(* that the driver implements KeyMailbox.                                  *)
(***************************************************************************)
EXTENDS KeyRead, TLAPS

USE DEF hwVars, bhVars, sharedVars, readVars

\* Every variable keeps its type, whatever the driver and the faults.
THEOREM TypeCorrect == Spec => []TypeOK
<1>1. Init => TypeOK
  <2>1. 0 \in Numbers
    BY KeyReadAssumption DEF Numbers
  <2>2. Init => Update \in [status : Status, number : Numbers]
    BY <2>1 DEF Init, Update, Status
  <2>3. QED
    BY <2>1, <2>2 DEF Init, TypeOK, Status, BhSteps, ReadSteps
<1>2. TypeOK /\ [Next]_vars => TypeOK'
  <2> SUFFICES ASSUME TypeOK, [Next]_vars
               PROVE  TypeOK'
    OBVIOUS
  <2> USE DEF TypeOK, Status, BhSteps, ReadSteps, Goto, Step
  <2>1. ASSUME NEW k \in Keys, Edge(k) PROVE TypeOK'
    BY <2>1 DEF Edge
  <2>2. ASSUME NEW k \in Keys, Handler(k) PROVE TypeOK'
    BY <2>2 DEF Handler, IrqModTimer, IrqScheduleTasklet, IrqScheduleWork,
                Defer
  <2>3. ASSUME NEW k \in Keys, BottomHalf(k) PROVE TypeOK'
    <3>1. CASE Start(k)
      BY <3>1 DEF Start
    <3>2. CASE GetValue(k) \/ GetValueFails(k)
      BY <3>2 DEF GetValue, GetValueFails
    <3>3. CASE StorePressed(k)
      <4>1. posted' \in Numbers
        BY <3>3, KeyReadAssumption DEF StorePressed, Numbers
      <4>2. QED
        BY <3>3, <4>1 DEF StorePressed
    <3>4. CASE StoreFlag(k)
      BY <3>4 DEF StoreFlag
    <3>5. CASE WakeUp(k)
      BY <3>5 DEF WakeUp
    <3>6. QED
      BY <2>3, <3>1, <3>2, <3>3, <3>4, <3>5
      DEF BottomHalf, TimerFires, TaskletRuns, WorkRuns
  <2>4. ASSUME NEW r \in Readers, Reader(r) PROVE TypeOK'
    <3>1. CASE Call(r) \/ Again(r) \/ Enter(r)
      BY <3>1 DEF Call, Again, Enter
    <3>2. CASE FirstTest(r)
      BY <3>2 DEF FirstTest
    <3>3. CASE Prepare(r) \/ Interrupted(r)
      BY <3>3 DEF Prepare, Interrupted
    <3>4. CASE Test(r)
      BY <3>4 DEF Test
    <3>5. CASE Awake(r) \/ Clear(r)
      BY <3>5 DEF Awake, Clear
    <3>6. CASE Copy(r) \/ CopyFails(r)
      <4>1. Update \in [status : Status, number : Numbers]
        BY DEF Update
      <4>2. QED
        BY <3>6, <4>1 DEF Copy, CopyFails
    <3>7. QED
      BY <2>4, <3>1, <3>2, <3>3, <3>4, <3>5, <3>6 DEF Reader
  <2>5. ASSUME NEW r \in Readers, Signal(r) PROVE TypeOK'
    BY <2>5 DEF Signal
  <2>6. CASE UNCHANGED vars
    BY <2>6 DEF vars
  <2>7. QED
    BY <2>1, <2>2, <2>3, <2>4, <2>5, <2>6 DEF Next
<1>3. QED
  BY <1>1, <1>2, PTL DEF Spec

-----------------------------------------------------------------------------

\* No reader sleeps on an update (line 42) unless the wake-up is still to come
\* (line 95): for any keys, readers, faults, store order and number of CPUs.
THEOREM WakeupNeverLost == Spec => []NoLostWakeup
<1>1. Init => NoLostWakeup
  BY DEF Init, NoLostWakeup
<1>2. TypeOK /\ NoLostWakeup /\ [Next]_vars => NoLostWakeup'
  <2> SUFFICES ASSUME TypeOK, NoLostWakeup, [Next]_vars
               PROVE  NoLostWakeup'
    OBVIOUS
  <2> USE DEF TypeOK, NoLostWakeup, Goto, Step
  <2>1. ASSUME NEW k \in Keys, Edge(k) PROVE NoLostWakeup'
    BY <2>1 DEF Edge
  <2>2. ASSUME NEW k \in Keys, Handler(k) PROVE NoLostWakeup'
    BY <2>2 DEF Handler, IrqModTimer, IrqScheduleTasklet, IrqScheduleWork,
                Defer
  <2>3. ASSUME NEW k \in Keys, BottomHalf(k) PROVE NoLostWakeup'
    <3>1. CASE Start(k)
      BY <3>1 DEF Start
    <3>2. CASE GetValue(k) \/ GetValueFails(k)
      BY <3>2 DEF GetValue, GetValueFails
    <3>3. CASE StorePressed(k)
      BY <3>3 DEF StorePressed
    <3>4. CASE StoreFlag(k)
      \* The flag is set by the very step that leads to the wake-up.
      <4>1. bh'[k] \in {"pressed", "wake"}
        BY <3>4 DEF StoreFlag
      <4>2. QED
        BY <4>1
    <3>5. CASE WakeUp(k)
      BY <3>5 DEF WakeUp
    <3>6. QED
      BY <2>3, <3>1, <3>2, <3>3, <3>4, <3>5
      DEF BottomHalf, TimerFires, TaskletRuns, WorkRuns
  <2>4. ASSUME NEW r \in Readers, Reader(r) PROVE NoLostWakeup'
    <3>1. CASE Call(r) \/ Again(r) \/ Enter(r)
      BY <3>1 DEF Call, Again, Enter
    <3>2. CASE FirstTest(r)
      BY <3>2 DEF FirstTest
    <3>3. CASE Prepare(r) \/ Interrupted(r)
      BY <3>3 DEF Prepare, Interrupted
    <3>4. CASE Test(r)
      BY <3>4 DEF Test
    <3>5. CASE Awake(r) \/ Clear(r)
      BY <3>5 DEF Awake, Clear
    <3>6. CASE Copy(r) \/ CopyFails(r)
      BY <3>6 DEF Copy, CopyFails
    <3>7. QED
      BY <2>4, <3>1, <3>2, <3>3, <3>4, <3>5, <3>6 DEF Reader
  <2>5. ASSUME NEW r \in Readers, Signal(r) PROVE NoLostWakeup'
    BY <2>5 DEF Signal
  <2>6. CASE UNCHANGED vars
    BY <2>6 DEF vars
  <2>7. QED
    BY <2>1, <2>2, <2>3, <2>4, <2>5, <2>6 DEF Next
<1>3. QED
  BY <1>1, <1>2, TypeCorrect, PTL DEF Spec

-----------------------------------------------------------------------------
(* NothingLeftBehind is not inductive by itself: a reader could clear the  *)
(* flag while a bottom half that set it early has still to store the       *)
(* status.  Either the stores are in order and no bottom half is ever      *)
(* there, or readers stand still while one is.                             *)

StoresTogether == InOrder \/ (~SMP /\ "work" \notin Deferrals)

EarlyFlagStands ==
  \A k \in Keys : bh[k] = "pressed" => ~InOrder /\ g_key_status_updated

HandshakeInv == EarlyFlagStands /\ NothingLeftBehind

LEMMA HandshakeStep ==
  ASSUME StoresTogether, "copy" \notin Faults,
         TypeOK, HandshakeInv, [Next]_vars
  PROVE  HandshakeInv'
<1> USE DEF TypeOK, HandshakeInv, EarlyFlagStands, NothingLeftBehind, Owed,
            Update, Consuming, Goto, Step
<1>1. ASSUME NEW k \in Keys, Edge(k) PROVE HandshakeInv'
  BY <1>1 DEF Edge
<1>2. ASSUME NEW k \in Keys, Handler(k) PROVE HandshakeInv'
  BY <1>2 DEF Handler, IrqModTimer, IrqScheduleTasklet, IrqScheduleWork, Defer
<1>3. ASSUME NEW k \in Keys, BottomHalf(k) PROVE HandshakeInv'
  <2>1. CASE Start(k)
    BY <2>1 DEF Start
  <2>2. CASE GetValue(k) \/ GetValueFails(k)
    BY <2>2 DEF GetValue, GetValueFails
  <2>3. CASE StorePressed(k)
    \* Either the flag is still to be set, or it was and still is.
    <3>1. bh'[k] = "flag" \/ g_key_status_updated'
      BY <2>3 DEF StorePressed
    <3>2. QED
      BY <2>3, <3>1 DEF StorePressed
  <2>4. CASE StoreFlag(k)
    BY <2>4 DEF StoreFlag
  <2>5. CASE WakeUp(k)
    BY <2>5 DEF WakeUp
  <2>6. QED
    BY <1>3, <2>1, <2>2, <2>3, <2>4, <2>5
    DEF BottomHalf, TimerFires, TaskletRuns, WorkRuns
<1>4. ASSUME NEW r \in Readers, Reader(r) PROVE HandshakeInv'
  <2>1. CASE Call(r) \/ Again(r) \/ Enter(r)
    BY <2>1 DEF Call, Again, Enter
  <2>2. CASE FirstTest(r)
    BY <2>2 DEF FirstTest
  <2>3. CASE Prepare(r) \/ Interrupted(r)
    BY <2>3 DEF Prepare, Interrupted
  <2>4. CASE Test(r)
    BY <2>4 DEF Test
  <2>5. CASE Awake(r)
    BY <2>5 DEF Awake
  <2>6. CASE Clear(r)
    \* No bottom half is half-way through its stores in the other order.
    <3>1. \A k \in Keys : bh[k] # "pressed"
      BY <2>6 DEF Clear, ProcessMayRun, StoresTogether
    <3>2. Consuming(r)'
      BY <2>6 DEF Clear
    <3>3. QED
      BY <2>6, <3>1, <3>2 DEF Clear
  <2>7. CASE Copy(r)
    BY <2>7 DEF Copy
  <2>8. QED
    BY <1>4, <2>1, <2>2, <2>3, <2>4, <2>5, <2>6, <2>7 DEF Reader, CopyFails
<1>5. ASSUME NEW r \in Readers, Signal(r) PROVE HandshakeInv'
  BY <1>5 DEF Signal
<1>6. CASE UNCHANGED vars
  BY <1>6 DEF vars
<1>7. QED
  BY <1>1, <1>2, <1>3, <1>4, <1>5, <1>6 DEF Next

\* No update is left behind (lines 44-45 against 93-94) as long as the copy to
\* user space does not fail, if the stores are in order or the readers cannot
\* see them half done.
THEOREM UpdateNeverLeftBehind ==
  ASSUME StoresTogether, "copy" \notin Faults
  PROVE  Spec => []NothingLeftBehind
<1>1. Init => HandshakeInv
  BY DEF Init, HandshakeInv, EarlyFlagStands, NothingLeftBehind, Update
<1>2. TypeOK /\ HandshakeInv /\ [Next]_vars => HandshakeInv'
  BY HandshakeStep
<1>3. HandshakeInv => NothingLeftBehind
  BY DEF HandshakeInv
<1>4. QED
  BY <1>1, <1>2, <1>3, TypeCorrect, PTL DEF Spec

-----------------------------------------------------------------------------
(* The level of a key.  StoredIsLevel needs to know the same of what a     *)
(* bottom half has read and still has to store.                            *)

ReadIsLevel ==
  \A k \in Keys :
    bh[k] \in {"stores", "pressed"} /\ ~irq[k] /\ ~deferred[k]
      => key_status[k] = level[k]

LevelInv == ReadIsLevel /\ StoredIsLevel

LEMMA LevelStep ==
  ASSUME TypeOK, LevelInv, [Next]_vars
  PROVE  LevelInv'
<1> USE DEF TypeOK, LevelInv, ReadIsLevel, StoredIsLevel, Pending, Goto, Step
<1>1. ASSUME NEW k \in Keys, Edge(k) PROVE LevelInv'
  BY <1>1 DEF Edge
<1>2. ASSUME NEW k \in Keys, Handler(k) PROVE LevelInv'
  BY <1>2 DEF Handler, IrqModTimer, IrqScheduleTasklet, IrqScheduleWork, Defer
<1>3. ASSUME NEW k \in Keys, BottomHalf(k) PROVE LevelInv'
  <2>1. CASE Start(k)
    BY <2>1 DEF Start
  <2>2. CASE GetValue(k)
    BY <2>2 DEF GetValue
  <2>3. CASE GetValueFails(k)
    BY <2>3 DEF GetValueFails
  <2>4. CASE StorePressed(k)
    \* What is stored is the level, or an edge has come since it was read.
    <3>1. irq[k] \/ deferred[k] \/ key_status[k] = level[k]
      BY <2>4 DEF StorePressed
    <3>2. QED
      BY <2>4, <3>1 DEF StorePressed
  <2>5. CASE StoreFlag(k)
    BY <2>5 DEF StoreFlag
  <2>6. CASE WakeUp(k)
    BY <2>6 DEF WakeUp
  <2>7. QED
    BY <1>3, <2>1, <2>2, <2>3, <2>4, <2>5, <2>6
    DEF BottomHalf, TimerFires, TaskletRuns, WorkRuns
<1>4. ASSUME NEW r \in Readers, Reader(r) PROVE LevelInv'
  BY <1>4 DEF Reader, Call, Again, Enter, FirstTest, Prepare, Interrupted,
              Test, Awake, Clear, Copy, CopyFails
<1>5. ASSUME NEW r \in Readers, Signal(r) PROVE LevelInv'
  BY <1>5 DEF Signal
<1>6. CASE UNCHANGED vars
  BY <1>6 DEF vars
<1>7. QED
  BY <1>1, <1>2, <1>3, <1>4, <1>5, <1>6 DEF Next

\* g_key_pressed is the level of the key that stored it unless news of that
\* key is on its way (lines 88-93): for any keys, faults, store order and
\* number of CPUs.
THEOREM LevelIsStored == Spec => []StoredIsLevel
<1>1. Init => LevelInv
  BY DEF Init, LevelInv, ReadIsLevel, StoredIsLevel
<1>2. TypeOK /\ LevelInv /\ [Next]_vars => LevelInv'
  BY LevelStep
<1>3. LevelInv => StoredIsLevel
  BY DEF LevelInv
<1>4. QED
  BY <1>1, <1>2, <1>3, TypeCorrect, PTL DEF Spec

\* From the pin to the program (lines 88-95, 38-45): once nothing is owed and
\* no news of a key is on its way, the program has the level of the key that
\* was handed out last.  It is what is left of SettledLevelRead without time.
THEOREM LevelIsHandedOut ==
  ASSUME StoresTogether, "copy" \notin Faults
  PROVE  Spec => []GotIsLevel
<1>1. TypeOK /\ NothingLeftBehind /\ StoredIsLevel => GotIsLevel
  BY DEF TypeOK, NothingLeftBehind, StoredIsLevel, GotIsLevel, Update
<1>2. QED
  BY <1>1, TypeCorrect, LevelIsStored, UpdateNeverLeftBehind, PTL

-----------------------------------------------------------------------------
(* NonBlockNeverSleeps does not hold of the code.  It does when there is   *)
(* only one reader: nobody else can lower the flag that it has seen.       *)

SeenFlagStands ==
  \A r \in NonBlock :
    pc[r] \in {"wait", "prepare", "test", "sleep"}
      => pc[r] = "wait" /\ g_key_status_updated

\* The lone reader lowers the flag only when it is already behind the wait, and
\* nothing else in the driver lowers it.
LEMMA SeenFlagStep ==
  ASSUME \A r, s \in Readers : r = s,
         TypeOK, SeenFlagStands, [Next]_vars
  PROVE  SeenFlagStands'
<1> USE KeyReadAssumption DEF TypeOK, SeenFlagStands, Goto, Step
<1>reads. ASSUME NEW r \in Readers, Reader(r) PROVE SeenFlagStands'
  <2>lower. CASE Clear(r)
    <3>only. pc'[r] = "copy" /\ \A s \in NonBlock : s = r
      BY <2>lower DEF Clear
    <3> QED
      BY <3>only
  <2>look. CASE FirstTest(r)
    BY <2>look DEF FirstTest
  <2>pass. CASE \/ Call(r) \/ Again(r) \/ Enter(r)
                \/ Copy(r) \/ CopyFails(r)
    BY <2>pass DEF Call, Again, Enter, Copy, CopyFails
  <2>doze. CASE Prepare(r) \/ Interrupted(r) \/ Test(r) \/ Awake(r)
    BY <2>doze DEF Prepare, Interrupted, Test, Awake
  <2> QED
    BY <1>reads, <2>lower, <2>look, <2>pass, <2>doze DEF Reader
<1>stores. ASSUME NEW k \in Keys, BottomHalf(k) PROVE SeenFlagStands'
  BY <1>stores DEF BottomHalf, TimerFires, TaskletRuns, WorkRuns, Start,
                   GetValue, GetValueFails, StorePressed, StoreFlag, WakeUp
\* Neither the flag nor where a reader stands.
<1>rest. ASSUME \/ UNCHANGED vars
                \/ \E r \in Readers : Signal(r)
                \/ \E k \in Keys : Edge(k) \/ Handler(k)
         PROVE  SeenFlagStands'
  BY <1>rest DEF vars, Signal, Edge, Handler, IrqModTimer,
                 IrqScheduleTasklet, IrqScheduleWork, Defer
<1> QED
  BY <1>rest, <1>stores, <1>reads DEF Next

\* O_NONBLOCK is honoured (line 38 against 42) as long as one thread reads.
THEOREM SoleReaderNeverSleeps ==
  ASSUME \A r, s \in Readers : r = s
  PROVE  Spec => []NonBlockNeverSleeps
<1>1. Init => SeenFlagStands
  BY KeyReadAssumption DEF Init, SeenFlagStands
<1>2. TypeOK /\ SeenFlagStands /\ [Next]_vars => SeenFlagStands'
  BY SeenFlagStep
<1>3. SeenFlagStands => NonBlockNeverSleeps
  BY DEF SeenFlagStands, NonBlockNeverSleeps
<1>4. QED
  BY <1>1, <1>2, <1>3, TypeCorrect, PTL DEF Spec

-----------------------------------------------------------------------------
(* The refinement.  Storing g_key_pressed is the post, copying it is the   *)
(* take, and every other step leaves the mailbox as it is.                 *)

NoSignals == \A r \in Readers : ~signalled[r]

LEMMA NeverSignalled ==
  ASSUME "signal" \notin Faults
  PROVE  Spec => []NoSignals
<1>1. Init => NoSignals
  BY DEF Init, NoSignals
<1>2. TypeOK /\ NoSignals /\ [Next]_vars => NoSignals'
  BY DEF TypeOK, NoSignals, vars, Next, Edge, Handler, IrqModTimer,
         IrqScheduleTasklet, IrqScheduleWork, Defer, BottomHalf, TimerFires,
         TaskletRuns, WorkRuns, Start, GetValue, GetValueFails, StorePressed,
         StoreFlag, WakeUp, Reader, Call, Again, Enter, FirstTest, Prepare,
         Interrupted, Test, Awake, Clear, Copy, CopyFails, Signal
<1>3. QED
  BY <1>1, <1>2, TypeCorrect, PTL DEF Spec

OrderedStores == \A k \in Keys : bh[k] # "pressed"

LEMMA StoresOrdered ==
  ASSUME InOrder
  PROVE  Spec => []OrderedStores
<1>1. Init => OrderedStores
  BY DEF Init, OrderedStores
<1>2. TypeOK /\ OrderedStores /\ [Next]_vars => OrderedStores'
  BY DEF TypeOK, OrderedStores, vars, Next, Edge, Handler, IrqModTimer,
         IrqScheduleTasklet, IrqScheduleWork, Defer, BottomHalf, TimerFires,
         TaskletRuns, WorkRuns, Start, GetValue, GetValueFails, StorePressed,
         StoreFlag, WakeUp, Goto, Reader, Call, Again, Enter, FirstTest,
         Prepare, Interrupted, Test, Awake, Clear, Copy, CopyFails, Signal
<1>3. QED
  BY <1>1, <1>2, TypeCorrect, PTL DEF Spec

\* A step that touches neither the status, nor what was copied, nor any of
\* the three reasons for which an update is owed, is a stutter.
LEMMA MailboxStep ==
  ASSUME InOrder, Faults \cap {"copy", "signal"} = {},
         TypeOK, NoSignals, OrderedStores, [Next]_vars
  PROVE  [Mailbox!Next]_(Mailbox!vars)
<1> USE DEF TypeOK, Mailbox!vars, Update, Goto, Step
<1>1. ASSUME NEW k \in Keys, Edge(k) PROVE UNCHANGED Mailbox!vars
  BY <1>1 DEF Edge, Owed, Consuming
<1>2. ASSUME NEW k \in Keys, Handler(k) PROVE UNCHANGED Mailbox!vars
  BY <1>2 DEF Handler, IrqModTimer, IrqScheduleTasklet, IrqScheduleWork,
              Defer, Owed, Consuming
<1>3. ASSUME NEW k \in Keys, BottomHalf(k)
      PROVE  [Mailbox!Next]_(Mailbox!vars)
  <2>1. CASE Start(k)
    BY <2>1 DEF Start, Owed, Consuming
  <2>2. CASE GetValue(k) \/ GetValueFails(k)
    BY <2>2 DEF GetValue, GetValueFails, Owed, Consuming
  <2>3. CASE StorePressed(k)
    <3>1. bh'[k] = "flag"
      BY <2>3 DEF StorePressed, OrderedStores
    <3>2. Owed'
      BY <3>1 DEF Owed
    <3>3. Mailbox!Post(key_status[k])
      BY <2>3, <3>2 DEF StorePressed, Mailbox!Post
    <3>4. key_status[k] \in Mailbox!Status
      BY DEF Status, Mailbox!Status
    <3>5. QED
      BY <3>3, <3>4 DEF Mailbox!Next
  <2>4. CASE StoreFlag(k)
    <3>1. Owed /\ Owed'
      BY <2>4 DEF StoreFlag, Owed
    <3>2. QED
      BY <2>4, <3>1 DEF StoreFlag
  <2>5. CASE WakeUp(k)
    BY <2>5 DEF WakeUp, Owed, Consuming
  <2>6. QED
    BY <1>3, <2>1, <2>2, <2>3, <2>4, <2>5
    DEF BottomHalf, TimerFires, TaskletRuns, WorkRuns
<1>4. ASSUME NEW r \in Readers, Reader(r)
      PROVE  [Mailbox!Next]_(Mailbox!vars)
  <2>1. CASE Call(r) \/ Again(r) \/ Enter(r) \/ Prepare(r) \/ Awake(r)
    BY <2>1 DEF Call, Again, Enter, Prepare, Awake, Owed, Consuming
  <2>2. CASE FirstTest(r)
    BY <2>2 DEF FirstTest, Owed, Consuming
  <2>3. CASE Test(r)
    BY <2>3 DEF Test, Owed, Consuming
  <2>4. CASE Clear(r)
    <3>1. Consuming(r) /\ Consuming(r)'
      BY <2>4 DEF Clear, Consuming
    <3>2. Owed /\ Owed'
      BY <3>1 DEF Owed
    <3>3. QED
      BY <2>4, <3>2 DEF Clear
  <2>5. CASE Copy(r)
    <3>1. Owed
      BY <2>5 DEF Copy, Owed, Consuming
    <3>2. Owed' \in BOOLEAN
      BY DEF Owed
    <3>3. Mailbox!Take
      BY <2>5, <3>1, <3>2 DEF Copy, Mailbox!Take
    <3>4. QED
      BY <3>3 DEF Mailbox!Next
  <2>6. QED
    BY <1>4, <2>1, <2>2, <2>3, <2>4, <2>5
    DEF Reader, Interrupted, CopyFails, NoSignals
<1>5. ASSUME NEW r \in Readers, Signal(r) PROVE FALSE
  BY <1>5 DEF Signal
<1>6. CASE UNCHANGED vars
  BY <1>6 DEF vars, Owed, Consuming
<1>7. QED
  BY <1>1, <1>2, <1>3, <1>4, <1>5, <1>6 DEF Next

\* The drivers implement the mailbox of KeyMailbox when the stores are in
\* order, no copy fails and no reader is interrupted by a signal.
THEOREM DriverImplementsMailbox ==
  ASSUME InOrder, Faults \cap {"copy", "signal"} = {}
  PROVE  Spec => ImplementsMailbox
<1>1. Init => Mailbox!Init
  BY DEF Init, Mailbox!Init, Update, Owed, Consuming
<1>2. TypeOK /\ NoSignals /\ OrderedStores /\ [Next]_vars
        => [Mailbox!Next]_(Mailbox!vars)
  BY MailboxStep
<1>3. "signal" \notin Faults
  OBVIOUS
<1>4. Spec => []NoSignals
  BY <1>3, NeverSignalled
<1>5. Spec => []OrderedStores
  BY StoresOrdered
<1>6. QED
  BY <1>1, <1>2, <1>4, <1>5, TypeCorrect, PTL
  DEF Spec, ImplementsMailbox, Mailbox!Spec
=============================================================================
