------------------------------- MODULE KeyPoll -------------------------------
(***************************************************************************)
(* The event path of the two key drivers without a bottom half:            *)
(* my_gpio_key_poll, whose application asks poll(2) before it reads, and   *)
(* my_gpio_key_sig, whose application reads in its handler of SIGIO.  The  *)
(* driver is bound and stays bound (see KeyLifecycle).                     *)
(*                                                                         *)
(* The interrupt handler does all the work.  It reads the pin, compares    *)
(* the status with g_key_pressed, and only when they differ sets           *)
(* g_key_status_updated, stores the status and wakes the wait queue; the   *)
(* second driver then sends SIGIO.  The read handler is that of KeyRead    *)
(* without O_NONBLOCK.                                                     *)
(***************************************************************************)
EXTENDS Integers

CONSTANTS
  Keys,      \* the GPIOs listed in the device tree
  Apps,      \* the running applications, one thread each
  Drivers,   \* the drivers of which one is there: "poll", "sig"
  SMP,       \* several CPUs, or the single core of the i.MX6ULL
  Faults,    \* what may go wrong: "gpio", "copy"
  Numbering  \* bound: updates are numbered modulo this (history only)

ASSUME KeyPollAssumption ==
  /\ Drivers \subseteq {"poll", "sig"}
  /\ SMP \in BOOLEAN
  /\ Faults \subseteq {"gpio", "copy"}
  /\ Numbering \in Nat \ {0}

VARIABLES
  notify,                \* the driver that is there; it never changes
  level,                 \* the logical level of each pin
  irq,                   \* interrupts latched and not yet handled
  isr,                   \* where the handler of each key is
  key_status,            \* the local variable of each handler
  g_key_pressed,
  g_key_status_updated,
  g_fasync,              \* the applications registered for SIGIO
  pc,                    \* where each application is
  waiters,               \* applications on the wait queue, not yet woken
  sigio,                 \* applications with SIGIO pending
  posted,                \* history: number of the last status stored
  shown,                 \* history: the keys whose status it is, as far as
                         \* their pins could be read since
  got,                   \* history: the last update copied to user space
  missed                 \* history: the last update was sent to nobody

hwVars     == <<level, irq>>
isrVars    == <<isr, key_status>>
sharedVars == <<g_key_pressed, posted, shown, g_key_status_updated>>
appVars    == <<pc, got>>
sigVars    == <<notify, g_fasync, sigio, missed>>
vars == <<hwVars, isrVars, sharedVars, waiters, appVars, sigVars>>

Status == {0, 1}
Numbers == 0 .. Numbering - 1
Update == [status |-> g_key_pressed, number |-> posted]

IsrSteps == {"idle", "get", "compare", "stores", "flag", "pressed", "wake",
             "kill"}

\* In poll(2): the driver is "asked", "ask" again after a wake-up, the thread
\* waits in "doze", and "last" is the question after the timeout.
PollSteps == {"asked", "ask", "doze", "last", "readable"}
ReadSteps == {"wait", "prepare", "test", "sleep", "clear", "copy"}

TypeOK ==
  /\ notify \in Drivers
  /\ level \in [Keys -> Status]
  /\ irq \in [Keys -> BOOLEAN]
  /\ isr \in [Keys -> IsrSteps]
  /\ key_status \in [Keys -> Status]
  /\ g_key_pressed \in Status
  /\ posted \in Numbers
  /\ shown \subseteq Keys
  /\ g_key_status_updated \in BOOLEAN
  /\ g_fasync \subseteq Apps
  /\ pc \in [Apps -> {"user", "main"} \cup PollSteps \cup ReadSteps]
  /\ waiters \subseteq Apps
  /\ sigio \subseteq Apps
  /\ got \in [status : Status, number : Numbers]
  /\ missed \in BOOLEAN

Init ==
  /\ notify \in Drivers
  /\ level \in [Keys -> Status]
  /\ irq = [k \in Keys |-> FALSE]
  /\ isr = [k \in Keys |-> "idle"]
  /\ key_status = [k \in Keys |-> 0]
  /\ g_key_pressed = 0
  /\ posted = 0
  /\ shown = {}
  /\ g_key_status_updated = FALSE
  /\ g_fasync = {}
  /\ pc = [a \in Apps |-> "user"]
  /\ waiters = {}
  /\ sigio = {}
  /\ got = Update
  /\ missed = FALSE

-----------------------------------------------------------------------------
(* The pin and my_gpio_key_irq.                                            *)

Edge(k) ==
  /\ level' = [level EXCEPT ![k] = 1 - @]
  /\ irq' = [irq EXCEPT ![k] = TRUE]
  /\ UNCHANGED <<isrVars, sharedVars, waiters, appVars, sigVars>>

Goto(k, from, to) ==
  /\ isr[k] = from
  /\ isr' = [isr EXCEPT ![k] = to]

\* A handler never runs twice at once, and on one CPU runs to its end.
Enter(k) ==
  /\ irq[k]
  /\ SMP \/ \A j \in Keys : isr[j] = "idle"
  /\ Goto(k, "idle", "get")
  /\ irq' = [irq EXCEPT ![k] = FALSE]
  /\ UNCHANGED <<level, key_status, sharedVars, waiters, appVars, sigVars>>

GetValue(k) ==
  /\ Goto(k, "get", "compare")
  /\ key_status' = [key_status EXCEPT ![k] = level[k]]
  /\ UNCHANGED <<hwVars, sharedVars, waiters, appVars, sigVars>>

GetValueFails(k) ==
  /\ "gpio" \in Faults
  /\ Goto(k, "get", "idle")
  /\ shown' = shown \ {k}
  /\ UNCHANGED <<hwVars, key_status, g_key_pressed, posted,
                 g_key_status_updated, waiters, appVars, sigVars>>

\* The local variable is gone when the handler returns.
Return(k, from) ==
  /\ Goto(k, from, "idle")
  /\ key_status' = [key_status EXCEPT ![k] = 0]

\* Seeded bug: a status is dropped while the last one is still to be read.
DropWhileUnread(k) ==
  /\ \/ /\ key_status[k] # g_key_pressed /\ ~g_key_status_updated
        /\ Goto(k, "compare", "stores")
        /\ UNCHANGED <<key_status, shown>>
     \/ /\ key_status[k] = g_key_pressed \/ g_key_status_updated
        /\ Return(k, "compare")
        /\ shown' = shown \cup {k}
  /\ UNCHANGED <<hwVars, g_key_pressed, posted, g_key_status_updated, waiters,
                 appVars, sigVars>>

\* IRQ_NONE when the status is the one that is stored already.
Compare(k) ==
  /\ \/ /\ key_status[k] # g_key_pressed
        /\ Goto(k, "compare", "stores")
        /\ UNCHANGED <<key_status, shown>>
     \/ /\ key_status[k] = g_key_pressed
        /\ Return(k, "compare")
        /\ shown' = shown \cup {k}
  /\ UNCHANGED <<hwVars, g_key_pressed, posted, g_key_status_updated, waiters,
                 appVars, sigVars>>

\* The flag is written before the status, but nothing orders the two stores.
StoreFlag(k) ==
  /\ \/ Goto(k, "stores", "pressed")
     \/ Goto(k, "flag", "wake")
  /\ g_key_status_updated' = TRUE
  /\ UNCHANGED <<hwVars, key_status, g_key_pressed, posted, shown, waiters,
                 appVars, sigVars>>

StorePressed(k) ==
  /\ \/ Goto(k, "stores", "flag")
     \/ Goto(k, "pressed", "wake")
  /\ g_key_pressed' = key_status[k]
  /\ posted' = (posted + 1) % Numbering
  /\ shown' = {k}
  /\ UNCHANGED <<hwVars, key_status, g_key_status_updated, waiters, appVars,
                 sigVars>>

\* Seeded bug: nobody is woken.
NoWakeUp(k) ==
  /\ \/ notify = "poll" /\ Return(k, "wake")
     \/ notify = "sig" /\ Goto(k, "wake", "kill") /\ UNCHANGED key_status
  /\ UNCHANGED <<hwVars, sharedVars, waiters, appVars, sigVars>>

WakeUp(k) ==
  /\ \/ notify = "poll" /\ Return(k, "wake")
     \/ notify = "sig" /\ Goto(k, "wake", "kill") /\ UNCHANGED key_status
  /\ waiters' = {}
  /\ UNCHANGED <<hwVars, sharedVars, appVars, sigVars>>

\* Seeded bug: no signal for an application that is inside read().
KillUnlessReading(k) ==
  /\ Return(k, "kill")
  /\ sigio' = sigio \cup {a \in g_fasync : pc[a] = "main"}
  /\ missed' = (g_fasync = {})
  /\ UNCHANGED <<hwVars, sharedVars, waiters, appVars, notify, g_fasync>>

\* SIGIO to every application that registered; a pending one is not repeated.
KillFasync(k) ==
  /\ Return(k, "kill")
  /\ sigio' = sigio \cup g_fasync
  /\ missed' = (g_fasync = {})
  /\ UNCHANGED <<hwVars, sharedVars, waiters, appVars, notify, g_fasync>>

Isr(k) ==
  \/ Enter(k) \/ GetValue(k) \/ GetValueFails(k) \/ Compare(k)
  \/ StoreFlag(k) \/ StorePressed(k) \/ WakeUp(k)

IsrPoll(k) == notify = "poll" /\ Isr(k)
IsrSig(k) == notify = "sig" /\ (Isr(k) \/ KillFasync(k))

-----------------------------------------------------------------------------
(* my_chr_read.                                                            *)

\* On a single CPU an application stands still while a handler runs.
ProcessMayRun == SMP \/ \A k \in Keys : isr[k] = "idle"

Step(a, from, to) ==
  /\ ProcessMayRun
  /\ pc[a] = from
  /\ pc' = [pc EXCEPT ![a] = to]

\* Where an application goes on after the read.
Home == IF notify = "poll" THEN "user" ELSE "main"

\* wait_event_interruptible tests the flag before it touches the queue.
FirstTest(a) ==
  /\ \/ g_key_status_updated /\ Step(a, "wait", "clear")
     \/ ~g_key_status_updated /\ Step(a, "wait", "prepare")
  /\ UNCHANGED <<hwVars, isrVars, sharedVars, waiters, got, sigVars>>

\* No signal is deliverable: the poll application handles none, the other one
\* reads inside its handler, where SIGIO is blocked.
Prepare(a) ==
  /\ Step(a, "prepare", "test")
  /\ waiters' = waiters \cup {a}
  /\ UNCHANGED <<hwVars, isrVars, sharedVars, got, sigVars>>

Test(a) ==
  /\ \/ /\ g_key_status_updated
        /\ Step(a, "test", "clear")
        /\ waiters' = waiters \ {a}
     \/ /\ ~g_key_status_updated
        /\ Step(a, "test", "sleep")
        /\ UNCHANGED waiters
  /\ UNCHANGED <<hwVars, isrVars, sharedVars, got, sigVars>>

\* Seeded bug: a reader that was woken does not test the flag again.
AwakeForSure(a) ==
  /\ a \notin waiters
  /\ Step(a, "sleep", "clear")
  /\ UNCHANGED <<hwVars, isrVars, sharedVars, waiters, got, sigVars>>

Awake(a) ==
  /\ a \notin waiters
  /\ Step(a, "sleep", "prepare")
  /\ UNCHANGED <<hwVars, isrVars, sharedVars, waiters, got, sigVars>>

Clear(a) ==
  /\ Step(a, "clear", "copy")
  /\ g_key_status_updated' = FALSE
  /\ UNCHANGED <<hwVars, isrVars, g_key_pressed, posted, shown, waiters, got,
                 sigVars>>

Copy(a) ==
  /\ Step(a, "copy", Home)
  /\ got' = Update
  /\ UNCHANGED <<hwVars, isrVars, sharedVars, waiters, sigVars>>

\* -EFAULT, after the flag was cleared.
CopyFails(a) ==
  /\ "copy" \in Faults
  /\ Step(a, "copy", Home)
  /\ UNCHANGED <<hwVars, isrVars, sharedVars, waiters, got, sigVars>>

Read(a) ==
  \/ FirstTest(a) \/ Prepare(a) \/ Test(a) \/ Awake(a)
  \/ Clear(a) \/ Copy(a) \/ CopyFails(a)

ReadPoll(a) == notify = "poll" /\ Read(a)
ReadSig(a) == notify = "sig" /\ Read(a)

-----------------------------------------------------------------------------
(* my_chr_poll, the loop of poll(2) around it, and its application.        *)

\* poll_wait puts the thread on the wait queue before the flag is tested.
PollWait(a) ==
  /\ Step(a, "user", "asked")
  /\ waiters' = waiters \cup {a}
  /\ UNCHANGED <<hwVars, isrVars, sharedVars, got, sigVars>>

\* POLLIN | POLLRDNORM when the flag is set, otherwise 0.  The thread leaves
\* the queue when poll(2) returns, because of the answer or of the timeout.
PollTest(a) ==
  /\ \/ /\ g_key_status_updated
        /\ \E from \in {"asked", "ask", "last"} : Step(a, from, "readable")
        /\ waiters' = waiters \ {a}
     \/ /\ ~g_key_status_updated
        /\ Step(a, "last", "user")
        /\ waiters' = waiters \ {a}
     \/ /\ ~g_key_status_updated
        /\ \E from \in {"asked", "ask"} : Step(a, from, "doze")
        /\ UNCHANGED waiters
  /\ UNCHANGED <<hwVars, isrVars, sharedVars, got, sigVars>>

\* A wake-up counts from the moment the thread was queued; before the driver
\* is asked again the thread is made ready to be woken once more.
PollAwake(a) ==
  /\ a \notin waiters
  /\ Step(a, "doze", "ask")
  /\ waiters' = waiters \cup {a}
  /\ UNCHANGED <<hwVars, isrVars, sharedVars, got, sigVars>>

PollTimeout(a) ==
  /\ Step(a, "doze", "last")
  /\ UNCHANGED <<hwVars, isrVars, sharedVars, waiters, got, sigVars>>

\* POLLIN is set in revents: the application reads.
ReadAfterPoll(a) ==
  /\ Step(a, "readable", "wait")
  /\ UNCHANGED <<hwVars, isrVars, sharedVars, waiters, got, sigVars>>

PollApp(a) ==
  /\ notify = "poll"
  /\ \/ PollWait(a) \/ PollTest(a) \/ PollAwake(a) \/ PollTimeout(a)
     \/ ReadAfterPoll(a)

-----------------------------------------------------------------------------
(* my_chr_fasync and the application with the signal handler.              *)

\* fcntl(F_SETFL, O_ASYNC), after which the application sleeps in its loop.
Register(a) ==
  /\ Step(a, "user", "main")
  /\ g_fasync' = g_fasync \cup {a}
  /\ UNCHANGED <<hwVars, isrVars, sharedVars, waiters, got, notify, sigio,
                 missed>>

\* The application is stopped; the kernel takes its file off the list, and a
\* signal that it has not handled yet is lost.
Close(a) ==
  /\ Step(a, "main", "user")
  /\ g_fasync' = g_fasync \ {a}
  /\ sigio' = sigio \ {a}
  /\ missed' = (missed \/ a \in sigio)
  /\ UNCHANGED <<hwVars, isrVars, sharedVars, waiters, got, notify>>

\* signal_handler is called and reads; SIGIO is blocked until it returns.
HandleSigio(a) ==
  /\ a \in sigio
  /\ Step(a, "main", "wait")
  /\ sigio' = sigio \ {a}
  /\ UNCHANGED <<hwVars, isrVars, sharedVars, waiters, got, notify, g_fasync,
                 missed>>

SigApp(a) == notify = "sig" /\ (Register(a) \/ HandleSigio(a))
StopApp(a) == notify = "sig" /\ Close(a)

-----------------------------------------------------------------------------

App(a) == PollApp(a) \/ ReadPoll(a) \/ SigApp(a) \/ ReadSig(a)
Handler(k) == IsrPoll(k) \/ IsrSig(k)

Next ==
  \/ \E k \in Keys : Edge(k) \/ Handler(k)
  \/ \E a \in Apps : App(a) \/ StopApp(a)

Spec == Init /\ [][Next]_vars

\* Latched interrupts are handled, and interrupts leave the applications some
\* of the CPU: one that can go on again and again does (strong fairness, since
\* on one core each handler stops it).  No key has to move, and no application
\* has to stop.
Fairness ==
  /\ \A k \in Keys : WF_vars(Handler(k))
  /\ \A a \in Apps : SF_vars(App(a))

FairSpec == Spec /\ Fairness

-----------------------------------------------------------------------------

\* No wake-up is lost, neither in poll(2) nor in read(2): a thread sleeps on
\* an update that is there only while the handler that set the flag (line 95)
\* has still to call wake_up_interruptible (line 97).
NoLostWakeup ==
  \A a \in Apps :
    g_key_status_updated /\ pc[a] \in {"doze", "sleep"} /\ a \in waiters
      => \E k \in Keys : isr[k] \in {"pressed", "wake"}

Consuming(a) == pc[a] \in {"clear", "copy"}

Owed ==
  \/ g_key_status_updated
  \/ \E k \in Keys : isr[k] \in {"flag", "pressed"}
  \/ \E a \in Apps : Consuming(a)

\* On one core no update is left behind by the handshake of the handler
\* (lines 95-96) with read (lines 50-51): when none is owed, the update that
\* was copied last is the one that was stored last.
NothingLeftBehind == ~Owed => got = Update

\* News of a key is on its way to g_key_pressed.
Pending(k) ==
  irq[k] \/ isr[k] \in {"get", "compare", "stores", "pressed"}

\* g_key_pressed is never out of date for good: it is the level of the key that
\* stored it (line 96), and of every key that found its status there already
\* (line 94) since, unless newer news of that key is on its way.
StoredIsLevel ==
  \A k \in shown : ~Pending(k) => g_key_pressed = level[k]

\* Nor is an application: what was handed out last is the level of these keys
\* once nothing is owed and nothing on its way.
GotIsLevel ==
  ~Owed => \A k \in shown : ~Pending(k) => got.status = level[k]

\* On one core the driver implements the same mailbox as those of KeyRead.
\* There the first of the two stores of the handler, whichever it is, is the
\* post: nobody looks before the second, and the status that is still to be
\* stored is the other one than is there.
Latest ==
  IF \E k \in Keys : isr[k] = "pressed"
  THEN [status |-> 1 - g_key_pressed, number |-> (posted + 1) % Numbering]
  ELSE Update

Mailbox == INSTANCE KeyMailbox WITH latest <- Latest, owed <- Owed

ImplementsMailbox == Mailbox!Spec

\* Somebody will ask or is told of every update.
Listening == notify = "poll" \/ (g_fasync # {} /\ ~missed)

\* When a key stays at a level after an interrupt, that level is the status
\* that was read last, then or later: the comparison in line 94 never filters
\* the last change of a single key.
SettledLevelRead ==
  \A k \in Keys, v \in Status :
    (irq[k] /\ [](level[k] = v /\ Listening)) ~> (got.status = v)

\* Some application has SIGIO pending or is before the line that resets the
\* flag (46 of the sig driver), or a handler has still to send it (line 97).
Told ==
  \/ \E a \in Apps : a \in sigio \/ pc[a] \in ReadSteps \ {"copy"}
  \/ \E k \in Keys : isr[k] \in {"pressed", "wake", "kill"}

\* No update waits without a signal: signals merge and applications come and
\* go, but while the flag is set somebody is told, or was not there to be.
SignalForUpdate ==
  notify = "sig" /\ g_key_status_updated /\ Listening => Told
=============================================================================
