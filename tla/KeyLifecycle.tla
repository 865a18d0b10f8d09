---------------------------- MODULE KeyLifecycle ----------------------------
(***************************************************************************)
(* How the six key drivers come and go: loading and unloading the module, *)
(* probe and remove (at load, at unload, and by bind and unbind in sysfs), *)
(* the character device made by CharDev, and the interrupts and bottom     *)
(* halves that may strike at any moment in between.  The drivers share     *)
(* this code line by line; they differ in what the handler of a key        *)
(* schedules (a timer, a tasklet, a work item), if anything at all.        *)
(*                                                                         *)
(* What a handler or a bottom half does with the key is the subject of     *)
(* KeyRead and KeyPoll.  Here only the pointers matter that the kernel     *)
(* holds into the driver: the registered driver, the handlers, and the     *)
(* timers, tasklets and work items that are waiting to run.                *)
(***************************************************************************)
EXTENDS Integers

CONSTANTS
  Drivers,     \* the drivers of which one is loaded and unloaded
  GpioCount,   \* number of GPIOs in the device tree node
  CONFIG_SMP,  \* TRUE: several CPUs, FALSE: the single core of the i.MX6ULL
  EarlyEdges,  \* a key may be touched before its probing is finished
  Faults       \* the calls that may fail, by name

ProbeCalls == {"gpiod_count", "kzalloc", "gpiod_get_index", "gpiod_to_irq",
               "request_irq"}

ChrCalls == {"alloc_chrdev_region", "cdev_add", "class_create",
             "device_create"}

ASSUME KeyLifecycleAssumption ==
  /\ Drivers \subseteq {"timer", "tasklet", "work", "poll", "sig", "log"}
  /\ GpioCount \in Nat \ {0}
  /\ CONFIG_SMP \subseteq BOOLEAN
  /\ EarlyEdges \in BOOLEAN
  /\ Faults \subseteq ProbeCalls \cup ChrCalls

VARIABLES
  driver, smp, \* the driver and the kernel this is about; they never change
  loader,      \* the module: out, coming, in, going, or failed to load
  registered,  \* my_gpio_key_driver is on the list of platform drivers
  binder,      \* the next call of probe or remove; "unbound", "bound" outside
  idx_gpio,    \* the loop counter of probe and remove
  infos,       \* g_gpio_key_infos is not NULL
  gpio,        \* GPIO descriptors that were obtained and not put
  irq,         \* interrupts whose handler is installed
  ready,       \* timers, tasklets and work items that were set up
  pending,     \* those that are scheduled
  running,     \* those whose function is running
  health,      \* "fine" until the kernel follows a pointer that leads nowhere
  halfway,     \* history: a probe failed after it had taken something
  dev_num, held, step, ret  \* the character device, see CharDev

chrVars == <<dev_num, held, step, ret>>
keyVars == <<gpio, irq, ready, pending, running>>
regVars == <<driver, smp, registered, halfway>>
vars == <<loader, regVars, binder, idx_gpio, infos, keyVars, health,
          chrVars>>

Gpios == 0 .. GpioCount - 1
Deferred == driver \in {"timer", "tasklet", "work"}

Chr == INSTANCE CharDev WITH Devices <- {"keys"}, DevNums <- {1},
                             Faults <- Faults \cap ChrCalls

Coming == {"register_driver", "register_device"}
Going == {"unregister_device", "unregister_driver"}
ProbeSteps == ProbeCalls \cup {"set_up"}
RemoveSteps == {"free_irq", "gpiod_put", "kill", "kfree"}

TypeOK ==
  /\ driver \in Drivers
  /\ smp \in CONFIG_SMP
  /\ halfway \in BOOLEAN
  /\ loader \in {"out", "in", "failed"} \cup Coming \cup Going
  /\ registered \in BOOLEAN
  /\ binder \in {"unbound", "bound"} \cup ProbeSteps \cup RemoveSteps
  /\ idx_gpio \in 0 .. GpioCount
  /\ infos \in BOOLEAN
  /\ gpio \subseteq Gpios
  /\ irq \subseteq Gpios
  /\ ready \subseteq Gpios
  /\ pending \subseteq ready
  /\ running \subseteq ready
  /\ health \in {"fine", "not set up", "freed", "unloaded"}
  /\ Chr!TypeOK

Init ==
  /\ driver \in Drivers
  /\ smp \in CONFIG_SMP
  /\ halfway = FALSE
  /\ loader = "out"
  /\ registered = FALSE
  /\ binder = "unbound"
  /\ idx_gpio = 0
  /\ infos = FALSE
  /\ gpio = {} /\ irq = {} /\ ready = {} /\ pending = {} /\ running = {}
  /\ health = "fine"
  /\ Chr!Init

-----------------------------------------------------------------------------
(* Interrupts and bottom halves.                                           *)

\* On a single CPU a process stands still while a timer or a tasklet runs.
ProcessMayRun == health = "fine" /\ (smp \/ driver = "work" \/ running = {})

\* An edge on a key whose handler is installed schedules the bottom half of the
\* key.  The handlers of the drivers without one leave everything here as it is.
Interrupt(k) ==
  /\ health = "fine"
  /\ k \in irq
  /\ Deferred /\ k \in ready
  /\ pending' = pending \cup {k}
  /\ UNCHANGED <<loader, regVars, binder, idx_gpio, infos, gpio, irq,
                 ready, running, health, chrVars>>

\* The handler is installed but the timer, tasklet or work item is still all
\* zero.  The kernel stops at a timer or a tasklet without a function; a work
\* item without one is refused with a warning, and the edge is lost.
InterruptTooEarly(k) ==
  /\ health = "fine"
  /\ EarlyEdges
  /\ driver \in {"timer", "tasklet"}
  /\ k \in irq \ ready
  /\ health' = "not set up"
  /\ UNCHANGED <<loader, regVars, binder, idx_gpio, infos, keyVars, chrVars>>

\* No function runs twice at once; on one CPU no two run at all.
Start(k) ==
  /\ health = "fine"
  /\ k \in pending \ running
  /\ smp \/ running = {}
  /\ pending' = pending \ {k}
  /\ running' = running \cup {k}
  /\ UNCHANGED <<loader, regVars, binder, idx_gpio, infos, gpio, irq,
                 ready, health, chrVars>>

\* Seeded bug: the function schedules itself again.
FinishAgain(k) ==
  /\ health = "fine"
  /\ k \in running
  /\ running' = running \ {k}
  /\ pending' = pending \cup {k}
  /\ UNCHANGED <<loader, regVars, binder, idx_gpio, infos, gpio, irq,
                 ready, health, chrVars>>

Finish(k) ==
  /\ health = "fine"
  /\ k \in running
  /\ running' = running \ {k}
  /\ UNCHANGED <<loader, regVars, binder, idx_gpio, infos, gpio, irq,
                 ready, pending, health, chrVars>>

-----------------------------------------------------------------------------
(* my_gpio_key_probe.                                                      *)

Goto(from, to) ==
  /\ ProcessMayRun
  /\ binder = from
  /\ binder' = to

\* A call of probe failed: its error is returned and nothing is taken back.
ProbeFails ==
  /\ binder \in Faults
  /\ infos' = (infos /\ binder # "kzalloc")
  /\ halfway' = (halfway \/ binder \notin {"gpiod_count", "kzalloc"})
  /\ Goto(binder, "unbound")
  /\ UNCHANGED <<loader, driver, smp, registered, idx_gpio, keyVars, health,
                 chrVars>>

GpiodCount ==
  /\ Goto("gpiod_count", "kzalloc")
  /\ UNCHANGED <<loader, regVars, idx_gpio, infos, keyVars, health, chrVars>>

\* The new block is all zero.  A block that an earlier, failed probe left
\* behind is still there for the handlers that point to it.
Kzalloc ==
  /\ Goto("kzalloc", "gpiod_get_index")
  /\ infos' = TRUE
  /\ idx_gpio' = 0
  /\ ready' = ready \cap irq
  /\ UNCHANGED <<loader, regVars, gpio, irq, pending, running, health,
                 chrVars>>

GpiodGetIndex ==
  /\ idx_gpio \notin gpio
  /\ Goto("gpiod_get_index", "gpiod_to_irq")
  /\ gpio' = gpio \cup {idx_gpio}
  /\ UNCHANGED <<loader, regVars, idx_gpio, infos, irq, ready, pending,
                 running, health, chrVars>>

\* -EBUSY: the descriptor was left behind by an earlier, failed probe.
GpioBusy ==
  /\ idx_gpio \in gpio
  /\ Goto("gpiod_get_index", "unbound")
  /\ UNCHANGED <<loader, regVars, idx_gpio, infos, keyVars, health, chrVars>>

GpiodToIrq ==
  /\ Goto("gpiod_to_irq", "request_irq")
  /\ UNCHANGED <<loader, regVars, idx_gpio, infos, keyVars, health, chrVars>>

EndOfProbeLoop ==
  IF idx_gpio + 1 < GpioCount THEN "gpiod_get_index" ELSE "bound"

\* With the handler installed, interrupts of this key come from here on.  The
\* drivers without bottom half go round the loop at once.
RequestIrq ==
  /\ irq' = irq \cup {idx_gpio}
  /\ \/ /\ Deferred
        /\ Goto("request_irq", "set_up")
        /\ UNCHANGED idx_gpio
     \/ /\ ~Deferred
        /\ Goto("request_irq", EndOfProbeLoop)
        /\ idx_gpio' = idx_gpio + 1
  /\ UNCHANGED <<loader, regVars, infos, gpio, ready, pending, running,
                 health, chrVars>>

\* setup_timer, tasklet_init or INIT_WORK.
SetUp ==
  /\ Goto("set_up", EndOfProbeLoop)
  /\ ready' = ready \cup {idx_gpio}
  /\ idx_gpio' = idx_gpio + 1
  /\ UNCHANGED <<loader, regVars, infos, gpio, irq, pending, running,
                 health, chrVars>>

\* What probe does in every driver, and what it is in each.
ProbeKeys ==
  \/ ProbeFails \/ GpioBusy
  \/ GpiodCount \/ Kzalloc \/ GpiodGetIndex \/ GpiodToIrq \/ RequestIrq

ProbeTimer == driver = "timer" /\ (ProbeKeys \/ SetUp)
ProbeTasklet == driver = "tasklet" /\ (ProbeKeys \/ SetUp)
ProbeWork == driver = "work" /\ (ProbeKeys \/ SetUp)
ProbePoll == driver = "poll" /\ ProbeKeys
ProbeSig == driver = "sig" /\ ProbeKeys
ProbeLog == driver = "log" /\ ProbeKeys

Probe ==
  \/ ProbeTimer \/ ProbeTasklet \/ ProbeWork
  \/ ProbePoll \/ ProbeSig \/ ProbeLog

-----------------------------------------------------------------------------
(* my_gpio_key_remove.                                                     *)

\* Seeded bug: the descriptor is put before the handler is removed.
PutBeforeFreeIrq ==
  /\ Goto("free_irq", "gpiod_put")
  /\ gpio' = gpio \ {idx_gpio}
  /\ UNCHANGED <<loader, regVars, idx_gpio, infos, irq, ready, pending,
                 running, health, chrVars>>

FreeIrq ==
  /\ Goto("free_irq", "gpiod_put")
  /\ irq' = irq \ {idx_gpio}
  /\ UNCHANGED <<loader, regVars, idx_gpio, infos, gpio, ready, pending,
                 running, health, chrVars>>

EndOfRemoveLoop == IF idx_gpio + 1 < GpioCount THEN "free_irq" ELSE "kfree"

GpiodPut ==
  /\ gpio' = gpio \ {idx_gpio}
  /\ \/ /\ driver \in {"timer", "tasklet"}
        /\ Goto("gpiod_put", "kill")
        /\ UNCHANGED idx_gpio
     \/ /\ driver \notin {"timer", "tasklet"}
        /\ Goto("gpiod_put", EndOfRemoveLoop)
        /\ idx_gpio' = idx_gpio + 1
  /\ UNCHANGED <<loader, regVars, infos, irq, ready, pending, running,
                 health, chrVars>>

\* Seeded bug: the timer is not deleted, as the work driver does not cancel.
TimerLeft ==
  /\ Goto("kill", EndOfRemoveLoop)
  /\ idx_gpio' = idx_gpio + 1
  /\ UNCHANGED <<loader, regVars, infos, keyVars, health, chrVars>>

\* del_timer takes a pending timer off; it does not wait for a running one.
DelTimer ==
  /\ Goto("kill", EndOfRemoveLoop)
  /\ pending' = pending \ {idx_gpio}
  /\ idx_gpio' = idx_gpio + 1
  /\ UNCHANGED <<loader, regVars, infos, gpio, irq, ready, running, health,
                 chrVars>>

\* tasklet_kill waits until the tasklet is neither scheduled nor running.
TaskletKill ==
  /\ idx_gpio \notin pending \cup running
  /\ Goto("kill", EndOfRemoveLoop)
  /\ idx_gpio' = idx_gpio + 1
  /\ UNCHANGED <<loader, regVars, infos, keyVars, health, chrVars>>

\* Seeded bug: the pointer is not reset.
KfreeOnly ==
  /\ Goto("kfree", "unbound")
  /\ ready' = {}
  /\ UNCHANGED <<loader, regVars, idx_gpio, infos, gpio, irq, pending,
                 running, health, chrVars>>

\* What the kernel still points to in the block is lost with it.
Kfree ==
  /\ Goto("kfree", "unbound")
  /\ infos' = FALSE
  /\ IF irq \cup pending \cup running = {}
     THEN ready' = {} /\ UNCHANGED health
     ELSE health' = "freed" /\ UNCHANGED ready
  /\ UNCHANGED <<loader, regVars, idx_gpio, gpio, irq, pending, running,
                 chrVars>>

\* The work driver cancels nothing, and the other three have nothing to cancel.
RemoveKeys == FreeIrq \/ GpiodPut \/ Kfree

RemoveTimer == driver = "timer" /\ (RemoveKeys \/ DelTimer)
RemoveTasklet == driver = "tasklet" /\ (RemoveKeys \/ TaskletKill)
RemoveWork == driver = "work" /\ RemoveKeys
RemovePoll == driver = "poll" /\ RemoveKeys
RemoveSig == driver = "sig" /\ RemoveKeys
RemoveLog == driver = "log" /\ RemoveKeys

Remove ==
  \/ RemoveTimer \/ RemoveTasklet \/ RemoveWork
  \/ RemovePoll \/ RemoveSig \/ RemoveLog

-----------------------------------------------------------------------------
(* The driver core calls probe and remove under the lock of the device, on *)
(* behalf of the module's init and exit and of bind and unbind in sysfs.   *)

StartRemove ==
  /\ binder = "bound"
  /\ binder' = "free_irq"
  /\ idx_gpio' = 0

Bind ==
  /\ registered
  /\ Goto("unbound", "gpiod_count")
  /\ UNCHANGED <<loader, regVars, idx_gpio, infos, keyVars, health, chrVars>>

Unbind ==
  /\ registered
  /\ ProcessMayRun
  /\ StartRemove
  /\ UNCHANGED <<loader, regVars, infos, keyVars, health, chrVars>>

-----------------------------------------------------------------------------
(* my_gpio_key_ini and my_gpio_key_exit.                                   *)

\* What the kernel still points to in the module's text when that goes away.
Forget ==
  health' = IF irq \cup pending \cup running = {} /\ ~registered
            THEN health ELSE "unloaded"

\* platform_driver_register, which probes the device before it returns.  (When
\* it fails nothing has happened, and -ENODEV is returned.)
Load ==
  /\ loader = "out"
  /\ ~registered
  /\ Goto("unbound", "gpiod_count")
  /\ registered' = TRUE
  /\ loader' = "register_driver"
  /\ UNCHANGED <<driver, smp, halfway, idx_gpio, infos, keyVars, health,
                 chrVars>>

\* It returns 0 whether the probe succeeded or not.  my_gpio_key has no
\* character device and is done.
RegisterDevice ==
  /\ ProcessMayRun
  /\ loader = "register_driver"
  /\ binder \in {"unbound", "bound"}
  /\ \/ /\ driver # "log"
        /\ loader' = "register_device"
        /\ Chr!Register("keys")
     \/ /\ driver = "log"
        /\ loader' = "in"
        /\ UNCHANGED chrVars
  /\ UNCHANGED <<regVars, binder, idx_gpio, infos, keyVars, health>>

InitDone ==
  /\ ProcessMayRun
  /\ loader = "register_device"
  /\ step["keys"] = "idle"
  /\ ret["keys"] = "ok"
  /\ loader' = "in"
  /\ UNCHANGED <<regVars, binder, idx_gpio, infos, keyVars, health, chrVars>>

\* The error is returned with the platform driver still registered, and the
\* kernel discards the module.
InitFails ==
  /\ ProcessMayRun
  /\ loader = "register_device"
  /\ step["keys"] = "idle"
  /\ ret["keys"] = "error"
  /\ loader' = "failed"
  /\ Forget
  /\ UNCHANGED <<regVars, binder, idx_gpio, infos, keyVars, chrVars>>

\* register_my_char_device and unregister_my_char_device at work.
ChrStep ==
  /\ ProcessMayRun
  /\ Chr!Step("keys")
  /\ UNCHANGED <<loader, regVars, binder, idx_gpio, infos, keyVars, health>>

Exit ==
  /\ ProcessMayRun
  /\ loader = "in"
  /\ loader' = "unregister_device"
  /\ IF driver # "log" THEN Chr!Unregister("keys") ELSE UNCHANGED chrVars
  /\ UNCHANGED <<regVars, binder, idx_gpio, infos, keyVars, health>>

\* platform_driver_unregister: off the list, after a remove if bound.
UnregisterDriver ==
  /\ ProcessMayRun
  /\ loader = "unregister_device"
  /\ step["keys"] = "idle"
  /\ loader' = "unregister_driver"
  /\ registered' = FALSE
  /\ UNCHANGED <<driver, smp, halfway, binder, idx_gpio, infos, keyVars,
                 health, chrVars>>

DetachDevice ==
  /\ ProcessMayRun
  /\ loader = "unregister_driver"
  /\ StartRemove
  /\ UNCHANGED <<loader, regVars, infos, keyVars, health, chrVars>>

Unloaded ==
  /\ ProcessMayRun
  /\ loader = "unregister_driver"
  /\ binder = "unbound"
  /\ loader' = "out"
  /\ Forget
  /\ UNCHANGED <<regVars, binder, idx_gpio, infos, keyVars, chrVars>>

-----------------------------------------------------------------------------

Module ==
  \/ RegisterDevice \/ InitDone \/ InitFails \/ ChrStep
  \/ UnregisterDriver \/ DetachDevice \/ Unloaded

BottomHalf(k) == Start(k) \/ Finish(k)

Next ==
  \/ Load \/ Exit \/ Bind \/ Unbind
  \/ Module \/ Probe \/ Remove
  \/ \E k \in Gpios : Interrupt(k) \/ InterruptTooEarly(k) \/ BottomHalf(k)

Spec == Init /\ [][Next]_vars

\* What is scheduled gets its turn, and the interrupts leave init, exit, probe
\* and remove some of the CPU, so that their calls return (strong fairness,
\* since on one core every timer and tasklet stops the others for a while).
\* Nobody has to load, unload, bind or unbind, and no key has to move.
Fairness ==
  /\ SF_vars(Module) /\ SF_vars(Probe) /\ SF_vars(Remove)
  /\ \A k \in Gpios : SF_vars(BottomHalf(k))

FairSpec == Spec /\ Fairness

-----------------------------------------------------------------------------

\* When the kernel follows a pointer into the block that kfree gave back (line
\* 185) or into the text of a module that is gone, one of these is the cause,
\* and nothing else: a probe that failed half-way and took nothing back (131,
\* 149), a driver that does not cancel its work items (work 170-178), a
\* del_timer that did not wait for the function on another CPU (180), or an
\* init that failed with the platform driver still registered (217-219).
DanglingHasCause ==
  /\ health = "freed" =>
       halfway \/ driver = "work" \/ (driver = "timer" /\ smp)
  /\ health = "unloaded" => halfway \/ loader = "failed"

\* A timer is set up before an interrupt starts it (line 104 against 158).
TimerIsSetUp == health # "not set up"

\* A driver that is not bound holds nothing, however often it was bound before
\* and whatever moved meanwhile: remove (170-190) takes back all that probe
\* (108-168) took, unless a probe failed half-way.
UnboundHoldsNothing ==
  binder = "unbound" /\ ~halfway =>
    /\ gpio = {} /\ irq = {} /\ ~infos
    /\ health = "fine" => pending = {} /\ running = {}

\* A handler is installed only for a key whose descriptor is held: it is
\* requested after gpiod_get_index and freed before gpiod_put.
HandlerHasItsKey == irq \subseteq gpio

\* remove is only ever called for a device whose probe went through for every
\* key: what it is about to free is there, and no handler ever outlives the
\* descriptor of its key, even when an earlier probe failed half-way.
Left == idx_gpio .. GpioCount - 1

RemoveFindsAll ==
  /\ HandlerHasItsKey
  /\ binder \in RemoveSteps => infos
  /\ binder = "free_irq" => idx_gpio < GpioCount /\ Left \subseteq irq
  /\ binder = "gpiod_put" => idx_gpio \in gpio
  /\ binder \in {"gpiod_put", "kill"} => Left \ {idx_gpio} \subseteq irq

\* The character device comes and goes with the module (212-219, 224): while
\* the module is in it is there as a whole, so that exit only ever unregisters
\* what is registered; and when the module's text is discarded, at the end of
\* exit or of an init that failed, no number, cdev or node leads there.
DeviceFollowsModule ==
  /\ loader \notin {"register_device", "unregister_device"} =>
       step["keys"] = "idle"
  /\ loader = "in" /\ driver # "log" => held["keys"] = Chr!Objects
  /\ driver = "log" \/ loader \in {"out", "register_driver",
                                  "unregister_driver", "failed"} =>
       held["keys"] = {}

\* Loading and unloading end, whichever calls fail and whatever is scheduled
\* meanwhile, unless the kernel stops at a dangling pointer.
ModuleSettles ==
  loader \in Coming \cup Going
    ~> loader \in {"in", "out", "failed"} \/ health # "fine"
=============================================================================
