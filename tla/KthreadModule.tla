--------------------------- MODULE KthreadModule ---------------------------
(***************************************************************************)
(* kthread_module: a module whose init starts a kernel thread and whose    *)
(* exit stops it.  The thread sleeps between two looks at its stop flag,   *)
(* in the text of the module; what keeps that text in place is that        *)
(* kthread_stop waits until the function has returned, and what keeps the  *)
(* pointer good that it is given, that the function does not return before.*)
(***************************************************************************)

CONSTANT KthreadFaults  \* {"kthread_create"} if that may fail, or {}

ASSUME KthreadModuleAssumption == KthreadFaults \subseteq {"kthread_create"}

VARIABLES
  kmod,         \* the module: "out", "wake_up", "in", "stopping" or "dead"
  thread,       \* what kthread_create has returned: "thread" or "error"
  task,         \* the thread: "none", "created", "look", "body", "sleep" or
                \* "exited"
  should_stop,  \* its flag
  woken,        \* wake_up_process was called for it
  slept         \* history: how many sleeps it ended with its flag set: "none",
                \* "one" or "more"

kthreadVars == <<kmod, thread, task, should_stop, woken, slept>>

KthreadTypeOK ==
  /\ kmod \in {"out", "wake_up", "in", "stopping", "dead"}
  /\ thread \in {"thread", "error"}
  /\ task \in {"none", "created", "look", "body", "sleep", "exited"}
  /\ should_stop \in BOOLEAN /\ woken \in BOOLEAN
  /\ slept \in {"none", "one", "more"}

KthreadInit ==
  /\ kmod = "out"
  /\ thread = "error"
  /\ task = "none"
  /\ should_stop = FALSE /\ woken = FALSE
  /\ slept = "none"

\* kthread_module_init.
KthreadCreate ==
  /\ kmod = "out"
  /\ kmod' = "wake_up"
  /\ thread' = "thread" /\ task' = "created"
  /\ should_stop' = FALSE /\ woken' = FALSE
  /\ slept' = "none"

\* The error pointer is not NULL, and is taken for a thread.
KthreadCreateFails ==
  /\ "kthread_create" \in KthreadFaults
  /\ kmod = "out"
  /\ kmod' = "wake_up"
  /\ thread' = "error"
  /\ UNCHANGED <<task, should_stop, woken, slept>>

\* With an error pointer init dies here, and the module is never got rid of.
WakeUpProcess ==
  /\ kmod = "wake_up"
  /\ IF thread = "thread" THEN kmod' = "in" /\ woken' = TRUE
                          ELSE kmod' = "dead" /\ UNCHANGED woken
  /\ UNCHANGED <<thread, task, should_stop, slept>>

\* The thread gets to run; its function is not even called if it is to stop.
ThreadStarts ==
  /\ task = "created" /\ woken
  /\ task' = IF should_stop THEN "exited" ELSE "look"
  /\ UNCHANGED <<kmod, thread, should_stop, woken, slept>>

\* Seeded bug: the flag is not looked at.
ThreadLoops ==
  /\ task = "look"
  /\ task' = "body"
  /\ UNCHANGED <<kmod, thread, should_stop, woken, slept>>

\* while (!kthread_should_stop())
ThreadLooks ==
  /\ task = "look"
  /\ task' = IF should_stop THEN "exited" ELSE "body"
  /\ UNCHANGED <<kmod, thread, should_stop, woken, slept>>

\* msleep(1000)
ThreadSleeps ==
  /\ task = "body"
  /\ task' = "sleep"
  /\ UNCHANGED <<kmod, thread, should_stop, woken, slept>>

Counted ==
  IF ~should_stop THEN slept ELSE IF slept = "none" THEN "one" ELSE "more"

\* Seeded bug: `if' in place of `while'.
ThreadSleptOnce ==
  /\ task = "sleep"
  /\ task' = "exited"
  /\ slept' = Counted
  /\ UNCHANGED <<kmod, thread, should_stop, woken>>

\* msleep ends by its timeout only; being woken does not cut it short.
ThreadSlept ==
  /\ task = "sleep"
  /\ task' = "look"
  /\ slept' = Counted
  /\ UNCHANGED <<kmod, thread, should_stop, woken>>

\* kthread_module_exit: kthread_stop sets the flag, wakes the thread and waits.
KthreadStop ==
  /\ kmod = "in"
  /\ kmod' = "stopping"
  /\ should_stop' = TRUE /\ woken' = TRUE
  /\ UNCHANGED <<thread, task, slept>>

KthreadGone ==
  /\ kmod = "stopping" /\ task = "exited"
  /\ kmod' = "out" /\ task' = "none"
  /\ UNCHANGED <<thread, should_stop, woken, slept>>

Thread == ThreadStarts \/ ThreadLooks \/ ThreadSleeps \/ ThreadSlept

KthreadNext ==
  \/ KthreadCreate \/ KthreadCreateFails \/ WakeUpProcess
  \/ KthreadStop \/ KthreadGone \/ Thread

\* A woken thread runs and its sleeps end.
KthreadFairness ==
  WF_kthreadVars(Thread) /\ WF_kthreadVars(WakeUpProcess \/ KthreadGone)

KthreadSpec == KthreadInit /\ [][KthreadNext]_kthreadVars /\ KthreadFairness

\* The exit may follow its pointer, since the thread lives until it is told to
\* stop: the function does not return before (12), and a module whose thread
\* was not created is never loaded (23-24).  And wherever the thread is when it
\* is told, the exit waits for one sleep at most (12-14, 46).
StopFindsThread ==
  /\ kmod = "in" => task \in {"created", "look", "body", "sleep"}
  /\ slept # "more"

\* exit ends, whether the thread was asleep, looking or had never run (46).
StopEnds == kmod = "stopping" ~> kmod = "out"
=============================================================================
