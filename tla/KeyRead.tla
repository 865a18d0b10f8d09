------------------------------ MODULE KeyRead -------------------------------
(***************************************************************************)
(* The event path of the three key drivers that read through a blocking or *)
(* non-blocking read(2) and that leave the work of the interrupt to a      *)
(* bottom half: my_gpio_key_read (a debounce timer), my_gpio_key_read_     *)
(* tasklet and my_gpio_key_read_workqueue.  The driver is bound and stays  *)
(* bound; probing and removal are the subject of other modules.            *)
(*                                                                         *)
(* An edge on a key latches its interrupt.  The handler only schedules the *)
(* bottom half of that key; the bottom half reads the pin, stores the      *)
(* status in g_key_pressed, sets g_key_status_updated and wakes the        *)
(* readers.  A reader sleeps in wait_event_interruptible until the flag is *)
(* set, clears it and copies the status.  The two globals are shared by    *)
(* all keys and all readers and no lock protects them, so every access is  *)
(* a step of its own.                                                      *)
(***************************************************************************)
EXTENDS Integers

CONSTANTS
  Keys,      \* the GPIOs listed in the device tree
  Readers,   \* the threads that read the device
  NonBlock,  \* those whose descriptor has O_NONBLOCK
  Deferrals, \* how the handlers of the drivers considered defer their work
  SMP,       \* several CPUs, or the single core of the i.MX6ULL
  InOrder,   \* the bottom half's two stores are done in the order written
  Faults,    \* what may go wrong: "gpio", "copy", "signal"
  Numbering  \* bound: updates are numbered 0, 1, ... modulo this (history only)

ASSUME KeyReadAssumption ==
  /\ NonBlock \subseteq Readers
  /\ Deferrals \subseteq {"timer", "tasklet", "work"}
  /\ SMP \in BOOLEAN
  /\ InOrder \in BOOLEAN
  /\ Faults \subseteq {"gpio", "copy", "signal"}
  /\ Numbering \in Nat \ {0}

VARIABLES
  deferral,              \* which of the drivers this is; it never changes
  level,                 \* the logical level of each pin
  irq,                   \* interrupts latched and not yet handled
  deferred,              \* bottom halves scheduled and not yet started
  bh,                    \* where each running bottom half is
  key_status,            \* the local variable of each bottom half
  g_key_pressed,
  g_key_status_updated,
  pc,                    \* where each reader is in my_chr_read
  waiters,               \* readers on g_gpio_key_wait_queue that may sleep
  signalled,             \* readers with a signal pending
  posted,                \* history: number of the last status stored
  shown,                 \* history: the key whose status it is, in a set; not
                         \* if its pin could not be read since
  got                    \* history: the last update copied to user space

hwVars     == <<deferral, level, irq, deferred>>
bhVars     == <<bh, key_status>>
sharedVars == <<g_key_pressed, posted, shown, g_key_status_updated>>
readVars   == <<pc, signalled, got>>
vars == <<hwVars, bhVars, sharedVars, waiters, readVars>>

Status == {0, 1}
Numbers == 0 .. Numbering - 1

\* The update that g_key_pressed stands for; its number tells it from an
\* earlier one with the same status.
Update == [status |-> g_key_pressed, number |-> posted]

\* "stores" has both stores to do, "flag" and "pressed" only the one named.
BhSteps == {"idle", "get", "stores", "flag", "pressed", "wake"}

\* "wait" is the first test of wait_event_interruptible, "test" the one that
\* follows prepare_to_wait; "clear" and "copy" are the two lines after it.
ReadSteps == {"user", "entry", "wait", "prepare", "test", "sleep",
              "clear", "copy"}

TypeOK ==
  /\ deferral \in Deferrals
  /\ level \in [Keys -> Status]
  /\ irq \in [Keys -> BOOLEAN]
  /\ deferred \in [Keys -> BOOLEAN]
  /\ bh \in [Keys -> BhSteps]
  /\ key_status \in [Keys -> Status]
  /\ g_key_pressed \in Status
  /\ posted \in Numbers
  /\ shown \subseteq Keys
  /\ g_key_status_updated \in BOOLEAN
  /\ pc \in [Readers -> ReadSteps]
  /\ waiters \subseteq Readers
  /\ signalled \in [Readers -> BOOLEAN]
  /\ got \in [status : Status, number : Numbers]

\* The globals start as false whatever the level of the pins is.
Init ==
  /\ deferral \in Deferrals
  /\ level \in [Keys -> Status]
  /\ irq = [k \in Keys |-> FALSE]
  /\ deferred = [k \in Keys |-> FALSE]
  /\ bh = [k \in Keys |-> "idle"]
  /\ key_status = [k \in Keys |-> 0]
  /\ g_key_pressed = 0
  /\ posted = 0
  /\ shown = {}
  /\ g_key_status_updated = FALSE
  /\ pc = [r \in Readers |-> "user"]
  /\ waiters = {}
  /\ signalled = [r \in Readers |-> FALSE]
  /\ got = Update

-----------------------------------------------------------------------------
(* The pin and the interrupt handler.                                      *)

\* A press or a release.  The interrupt is latched on either edge; an edge
\* that comes before the handler has run is merged with it.
Edge(k) ==
  /\ level' = [level EXCEPT ![k] = 1 - @]
  /\ irq' = [irq EXCEPT ![k] = TRUE]
  /\ UNCHANGED <<deferral, deferred, bhVars, sharedVars, waiters, readVars>>

\* Seeded bug: an interrupt is ignored while the bottom half of its key runs.
DeferIfIdle(k) ==
  /\ irq[k]
  /\ irq' = [irq EXCEPT ![k] = FALSE]
  /\ deferred' = [deferred EXCEPT ![k] = @ \/ bh[k] = "idle"]
  /\ UNCHANGED <<deferral, level, bhVars, sharedVars, waiters, readVars>>

\* my_gpio_key_irq leaves the work to the bottom half of its key.  Scheduling
\* one that is already scheduled changes nothing but the timer's deadline.
Defer(k) ==
  /\ irq[k]
  /\ irq' = [irq EXCEPT ![k] = FALSE]
  /\ deferred' = [deferred EXCEPT ![k] = TRUE]
  /\ UNCHANGED <<deferral, level, bhVars, sharedVars, waiters, readVars>>

IrqModTimer(k) == deferral = "timer" /\ Defer(k)
IrqScheduleTasklet(k) == deferral = "tasklet" /\ Defer(k)
IrqScheduleWork(k) == deferral = "work" /\ Defer(k)

-----------------------------------------------------------------------------
(* The bottom half.                                                        *)

Goto(k, from, to) ==
  /\ bh[k] = from
  /\ bh' = [bh EXCEPT ![k] = to]

\* The kernel takes the timer, tasklet or work item off its list before it
\* calls the function, so an interrupt may schedule it again while it runs;
\* it never runs one item twice at once, nor two on the same CPU.
Start(k) ==
  /\ deferred[k]
  /\ SMP \/ \A j \in Keys : bh[j] = "idle"
  /\ Goto(k, "idle", "get")
  /\ deferred' = [deferred EXCEPT ![k] = FALSE]
  /\ UNCHANGED <<deferral, level, irq, key_status, sharedVars, waiters,
                 readVars>>

TimerFires(k) == deferral = "timer" /\ Start(k)
TaskletRuns(k) == deferral = "tasklet" /\ Start(k)
WorkRuns(k) == deferral = "work" /\ Start(k)

GetValue(k) ==
  /\ Goto(k, "get", "stores")
  /\ key_status' = [key_status EXCEPT ![k] = level[k]]
  /\ UNCHANGED <<hwVars, sharedVars, waiters, readVars>>

\* gpiod_get_value returned an error: nothing is stored and nobody is woken.
GetValueFails(k) ==
  /\ "gpio" \in Faults
  /\ Goto(k, "get", "idle")
  /\ shown' = shown \ {k}
  /\ UNCHANGED <<hwVars, key_status, g_key_pressed, posted,
                 g_key_status_updated, waiters, readVars>>

\* The two stores go to different plain globals and nothing orders them, so
\* the compiler may swap them; both precede the call of wake_up.
StorePressed(k) ==
  /\ \/ Goto(k, "stores", "flag")
     \/ Goto(k, "pressed", "wake")
  /\ g_key_pressed' = key_status[k]
  /\ posted' = (posted + 1) % Numbering
  /\ shown' = {k}
  /\ UNCHANGED <<hwVars, key_status, g_key_status_updated, waiters, readVars>>

StoreFlag(k) ==
  /\ \/ Goto(k, "flag", "wake")
     \/ ~InOrder /\ Goto(k, "stores", "pressed")
  /\ g_key_status_updated' = TRUE
  /\ UNCHANGED <<hwVars, key_status, g_key_pressed, posted, shown, waiters,
                 readVars>>

\* Every sleeper is non-exclusive: one wake_up_interruptible makes them all
\* runnable.  The local variable is gone when the function returns.
WakeUp(k) ==
  /\ Goto(k, "wake", "idle")
  /\ waiters' = {}
  /\ key_status' = [key_status EXCEPT ![k] = 0]
  /\ UNCHANGED <<hwVars, sharedVars, readVars>>

BottomHalf(k) ==
  \/ TimerFires(k) \/ TaskletRuns(k) \/ WorkRuns(k)
  \/ GetValue(k) \/ GetValueFails(k)
  \/ StorePressed(k) \/ StoreFlag(k)
  \/ WakeUp(k)

-----------------------------------------------------------------------------
(* The readers.                                                            *)

\* On a single CPU a reader stands still while a timer or a tasklet runs; a
\* work item is run by a thread, which can be preempted like any other.
ProcessMayRun ==
  SMP \/ deferral = "work" \/ \A k \in Keys : bh[k] = "idle"

Step(r, from, to) ==
  /\ ProcessMayRun
  /\ pc[r] = from
  /\ pc' = [pc EXCEPT ![r] = to]

Call(r) ==
  /\ Step(r, "user", "entry")
  /\ UNCHANGED <<hwVars, bhVars, sharedVars, waiters, signalled, got>>

\* -EAGAIN: no update and O_NONBLOCK.
Again(r) ==
  /\ ~g_key_status_updated
  /\ r \in NonBlock
  /\ Step(r, "entry", "user")
  /\ signalled' = [signalled EXCEPT ![r] = FALSE]
  /\ UNCHANGED <<hwVars, bhVars, sharedVars, waiters, got>>

Enter(r) ==
  /\ g_key_status_updated \/ r \notin NonBlock
  /\ Step(r, "entry", "wait")
  /\ UNCHANGED <<hwVars, bhVars, sharedVars, waiters, signalled, got>>

\* wait_event_interruptible tests the flag before it touches the queue.
FirstTest(r) ==
  /\ \/ g_key_status_updated /\ Step(r, "wait", "clear")
     \/ ~g_key_status_updated /\ Step(r, "wait", "prepare")
  /\ UNCHANGED <<hwVars, bhVars, sharedVars, waiters, signalled, got>>

\* Seeded bug: the reader sleeps without the test that follows the enqueuing.
PrepareAndSleep(r) ==
  /\ ~signalled[r]
  /\ Step(r, "prepare", "sleep")
  /\ waiters' = waiters \cup {r}
  /\ UNCHANGED <<hwVars, bhVars, sharedVars, signalled, got>>

\* prepare_to_wait_event: on the queue and TASK_INTERRUPTIBLE from here on.
Prepare(r) ==
  /\ ~signalled[r]
  /\ Step(r, "prepare", "test")
  /\ waiters' = waiters \cup {r}
  /\ UNCHANGED <<hwVars, bhVars, sharedVars, signalled, got>>

\* With a signal pending the wait is given up with -ERESTARTSYS.  The driver
\* discards that result and goes on as if the flag had been set.
Interrupted(r) ==
  /\ signalled[r]
  /\ Step(r, "prepare", "clear")
  /\ waiters' = waiters \ {r}
  /\ UNCHANGED <<hwVars, bhVars, sharedVars, signalled, got>>

Test(r) ==
  /\ \/ /\ g_key_status_updated
        /\ Step(r, "test", "clear")
        /\ waiters' = waiters \ {r}
     \/ /\ ~g_key_status_updated
        /\ Step(r, "test", "sleep")
        /\ UNCHANGED waiters
  /\ UNCHANGED <<hwVars, bhVars, sharedVars, signalled, got>>

\* Seeded bug: a reader that was woken does not test the flag again.
AwakeForSure(r) ==
  /\ r \notin waiters
  /\ Step(r, "sleep", "clear")
  /\ UNCHANGED <<hwVars, bhVars, sharedVars, waiters, signalled, got>>

\* schedule() returns once a wake-up or a signal has made the task runnable,
\* at once if that happened before it was called.
Awake(r) ==
  /\ r \notin waiters
  /\ Step(r, "sleep", "prepare")
  /\ UNCHANGED <<hwVars, bhVars, sharedVars, waiters, signalled, got>>

\* Seeded bug: the flag is not reset.
KeepFlag(r) ==
  /\ Step(r, "clear", "copy")
  /\ UNCHANGED <<hwVars, bhVars, sharedVars, waiters, signalled, got>>

Clear(r) ==
  /\ Step(r, "clear", "copy")
  /\ g_key_status_updated' = FALSE
  /\ UNCHANGED <<hwVars, bhVars, g_key_pressed, posted, shown, waiters,
                 signalled, got>>

\* copy_to_user reads g_key_pressed now, after the flag was cleared.  A
\* pending signal is handled on the way back to user space.
Copy(r) ==
  /\ Step(r, "copy", "user")
  /\ got' = Update
  /\ signalled' = [signalled EXCEPT ![r] = FALSE]
  /\ UNCHANGED <<hwVars, bhVars, sharedVars, waiters>>

\* -EFAULT: the flag is already cleared, so this update is gone.
CopyFails(r) ==
  /\ "copy" \in Faults
  /\ Step(r, "copy", "user")
  /\ signalled' = [signalled EXCEPT ![r] = FALSE]
  /\ UNCHANGED <<hwVars, bhVars, sharedVars, waiters, got>>

\* A signal for a thread that is inside the driver; it makes a sleeper
\* runnable.
Signal(r) ==
  /\ "signal" \in Faults
  /\ pc[r] # "user"
  /\ signalled' = [signalled EXCEPT ![r] = TRUE]
  /\ waiters' = waiters \ {r}
  /\ UNCHANGED <<hwVars, bhVars, sharedVars, pc, got>>

Reader(r) ==
  \/ Call(r) \/ Again(r) \/ Enter(r)
  \/ FirstTest(r) \/ Prepare(r) \/ Interrupted(r) \/ Test(r) \/ Awake(r)
  \/ Clear(r) \/ Copy(r) \/ CopyFails(r)

-----------------------------------------------------------------------------

Handler(k) == IrqModTimer(k) \/ IrqScheduleTasklet(k) \/ IrqScheduleWork(k)

Next ==
  \/ \E k \in Keys : Edge(k) \/ Handler(k) \/ BottomHalf(k)
  \/ \E r \in Readers : Reader(r) \/ Signal(r)

Spec == Init /\ [][Next]_vars

\* The kernel handles a latched interrupt, runs what was scheduled and gives
\* every runnable thread the CPU; the applications call read() in a loop.
\* Nothing obliges a key to move or a signal to come.
Fairness ==
  /\ \A k \in Keys : WF_vars(Handler(k)) /\ WF_vars(BottomHalf(k))
  /\ \A r \in Readers : WF_vars(Reader(r))

FairSpec == Spec /\ Fairness

-----------------------------------------------------------------------------
(* What the event path must guarantee.                                     *)

\* No wake-up is lost: a reader (line 42) sleeps on an update that is there to
\* be read only while the bottom half that set the flag (line 94) has still
\* to call wake_up_interruptible (line 95).
NoLostWakeup ==
  \A r \in Readers :
    g_key_status_updated /\ pc[r] = "sleep" /\ r \in waiters
      => \E k \in Keys : bh[k] \in {"pressed", "wake"}

\* An update is owed while the flag is set, while a bottom half is between
\* its stores, and while a reader has yet to copy what it was let through for.
Consuming(r) == pc[r] \in {"clear", "copy"}

Owed ==
  \/ g_key_status_updated
  \/ \E k \in Keys : bh[k] \in {"flag", "pressed"}
  \/ \E r \in Readers : Consuming(r)

\* The handshake of lines 44-45 with lines 93-94 (clear then copy, against
\* store then set) leaves no update behind: when none is owed, the update
\* that was copied last is the one that was stored last.
NothingLeftBehind == ~Owed => got = Update

\* News of a key is on its way to g_key_pressed.
Pending(k) ==
  irq[k] \/ deferred[k] \/ bh[k] \in {"get", "stores", "pressed"}

\* g_key_pressed is never out of date for good: it is the level of the key that
\* stored it (line 93), unless newer news of that key is on its way.  An edge
\* during the bottom half (after line 88) is caught by its next run.
StoredIsLevel ==
  \A k \in shown : ~Pending(k) => g_key_pressed = level[k]

\* Nor is the application: what it was handed last is the level of that key
\* once nothing is owed and nothing on its way.
GotIsLevel ==
  ~Owed => \A k \in shown : ~Pending(k) => got.status = level[k]

\* O_NONBLOCK is honoured (line 38): such a reader is never put to sleep.
NonBlockNeverSleeps == \A r \in NonBlock : pc[r] # "sleep"

\* The driver implements the mailbox: updates are posted and handed out,
\* a read ends only when something was posted, and the last is not left behind.
Mailbox == INSTANCE KeyMailbox WITH latest <- Update, owed <- Owed

ImplementsMailbox == Mailbox!Spec

\* An update is consumed in the end, whoever competes for it.
UpdateConsumed == g_key_status_updated ~> ~g_key_status_updated

\* Debouncing ends with the truth: when a key stays at a level after an
\* interrupt, there is a time from then on at which the status that was copied
\* last is that level (and from when nothing is under way any more it stays so,
\* which is GotIsLevel).
SettledLevelRead ==
  \A k \in Keys, v \in Status :
    (irq[k] /\ [](level[k] = v)) ~> (got.status = v)
=============================================================================
