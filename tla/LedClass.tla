------------------------------ MODULE LedClass ------------------------------
(***************************************************************************)
(* my_led_dtree_and_pdriver: an LED on a GPIO that the device tree names,  *)
(* switched through the file led_ctrl of a class in sysfs.  probe makes    *)
(* the class and the file before it has the descriptor, and remove puts    *)
(* the descriptor before it deletes the file, so that users come in while  *)
(* my_led_gpio is NULL, an error pointer, or no longer held.               *)
(*                                                                         *)
(* Every use of the descriptor is in three steps, since nothing locks it:  *)
(* reading the pointer, calling gpiolib, and storing my_led_state.  What   *)
(* saves the driver is sysfs: class_remove_file lets nobody in any more    *)
(* and waits for those who are inside.                                     *)
(***************************************************************************)
EXTENDS Integers

CONSTANTS
  Users,  \* the threads that read or write led_ctrl
  Faults  \* the calls that may fail, by name

ProbeCalls == {"class_register", "class_create_file", "gpiod_get",
               "gpiod_direction_output"}

ASSUME LedClassAssumption ==
  Faults \subseteq ProbeCalls \cup {"gpiod_get_value"}

VARIABLES
  loader,        \* the module: "out", "in" or "leaving"
  binder,        \* the next call of probe or remove; "unbound", "bound" outside
  class,         \* my_led_class is registered
  file,          \* led_ctrl: "none", "there", or "closing" while it is drained
  my_led_gpio,   \* the pointer: "null", "error" or "desc"
  held,          \* the descriptor is taken
  pin,           \* the logical value of the pin
  my_led_state,
  op,            \* where each user is in my_led_show or my_led_store
  kind,          \* which of the two it is
  ptr,           \* the pointer it has read
  val,           \* the value it stores or has got
  leaked,        \* history: a failed probe left with the descriptor
  stored         \* history: somebody has called store since probe began

sysfs == <<class, file>>
gpio == <<my_led_gpio, held, leaked>>
led == <<pin, my_led_state>>
drvVars == <<loader, binder, sysfs, gpio>>
userVars == <<op, kind, ptr, val>>
vars == <<drvVars, led, stored, userVars>>

Probing == ProbeCalls \cup {"set_value", "set_state"}
Removing == {"gpiod_put", "forget", "remove_file", "drain", "class_unregister"}
Pointers == {"null", "error", "desc"}

TypeOK ==
  /\ loader \in {"out", "in", "leaving"}
  /\ binder \in {"unbound", "bound"} \cup Probing \cup Removing
  /\ class \in BOOLEAN
  /\ file \in {"none", "there", "closing"}
  /\ my_led_gpio \in Pointers
  /\ held \in BOOLEAN
  /\ pin \in {0, 1}
  /\ my_led_state \in {0, 1}
  /\ op \in [Users -> {"none", "load", "use", "state", "dead"}]
  /\ kind \in [Users -> {"show", "store"}]
  /\ ptr \in [Users -> Pointers]
  /\ val \in [Users -> {0, 1}]
  /\ leaked \in BOOLEAN
  /\ stored \in BOOLEAN

\* The pin is at whatever the boot loader left there.
Init ==
  /\ loader = "out"
  /\ binder = "unbound"
  /\ class = FALSE
  /\ file = "none"
  /\ my_led_gpio = "null"
  /\ held = FALSE
  /\ pin \in {0, 1}
  /\ my_led_state = 0
  /\ op = [u \in Users |-> "none"]
  /\ kind = [u \in Users |-> "show"]
  /\ ptr = [u \in Users |-> "null"]
  /\ val = [u \in Users |-> 0]
  /\ leaked = FALSE
  /\ stored = FALSE

-----------------------------------------------------------------------------
(* my_led_probe.                                                           *)

Goto(from, to) ==
  /\ binder = from
  /\ binder' = to

\* One call of probe or remove, which concerns neither exit nor the users.
Call(from, to) ==
  /\ Goto(from, to)
  /\ UNCHANGED <<loader, stored, userVars>>

ClassRegister ==
  /\ Call("class_register", "class_create_file")
  /\ class' = TRUE
  /\ UNCHANGED <<file, gpio, led>>

ClassRegisterFails ==
  /\ "class_register" \in Faults
  /\ Call("class_register", "unbound")
  /\ UNCHANGED <<sysfs, gpio, led>>

\* From here on users may come in.
ClassCreateFile ==
  /\ Call("class_create_file", "gpiod_get")
  /\ file' = "there"
  /\ UNCHANGED <<class, gpio, led>>

\* The label removes the files made so far, of which there are none.
ClassCreateFileFails ==
  /\ "class_create_file" \in Faults
  /\ Call("class_create_file", "class_unregister")
  /\ UNCHANGED <<sysfs, gpio, led>>

GpiodGet ==
  /\ ~held
  /\ Call("gpiod_get", "gpiod_direction_output")
  /\ my_led_gpio' = "desc"
  /\ held' = TRUE
  /\ UNCHANGED <<sysfs, leaked, led>>

\* Seeded bug: the label skips the file, by one decrement too many.
GpiodGetFailsShort ==
  /\ "gpiod_get" \in Faults \/ held
  /\ Call("gpiod_get", "class_unregister")
  /\ my_led_gpio' = "error"
  /\ UNCHANGED <<sysfs, held, leaked, led>>

\* An error, -EBUSY if an earlier probe left with the descriptor: the pointer
\* keeps the error while the file is still there.
GpiodGetFails ==
  /\ "gpiod_get" \in Faults \/ held
  /\ Call("gpiod_get", "remove_file")
  /\ my_led_gpio' = "error"
  /\ UNCHANGED <<sysfs, held, leaked, led>>

DirectionOutput ==
  /\ Call("gpiod_direction_output", "set_value")
  /\ pin' = 0
  /\ UNCHANGED <<sysfs, gpio, my_led_state>>

\* Seeded bug: the descriptor is put, but the file is still there and
\* my_led_gpio still points to it.
DirectionOutputFailsPut ==
  /\ "gpiod_direction_output" \in Faults
  /\ Call("gpiod_direction_output", "remove_file")
  /\ held' = FALSE
  /\ UNCHANGED <<sysfs, my_led_gpio, leaked, led>>

\* The label does not put the descriptor.
DirectionOutputFails ==
  /\ "gpiod_direction_output" \in Faults
  /\ Call("gpiod_direction_output", "remove_file")
  /\ leaked' = TRUE
  /\ UNCHANGED <<sysfs, my_led_gpio, held, led>>

\* set_led_state(led_off), in its two steps.
ProbeSetValue ==
  /\ Call("set_value", "set_state")
  /\ pin' = 0
  /\ UNCHANGED <<sysfs, gpio, my_led_state>>

ProbeSetState ==
  /\ Call("set_state", "bound")
  /\ my_led_state' = 0
  /\ UNCHANGED <<sysfs, gpio, pin>>

Probe ==
  \/ ClassRegister \/ ClassRegisterFails
  \/ ClassCreateFile \/ ClassCreateFileFails
  \/ GpiodGet \/ GpiodGetFails
  \/ DirectionOutput \/ DirectionOutputFails
  \/ ProbeSetValue \/ ProbeSetState

-----------------------------------------------------------------------------
(* my_led_remove, and the label of probe, which share their last calls.    *)

GpiodPut ==
  /\ Call("gpiod_put", "forget")
  /\ held' = FALSE
  /\ UNCHANGED <<sysfs, my_led_gpio, leaked, led>>

Forget ==
  /\ Call("forget", "remove_file")
  /\ my_led_gpio' = "null"
  /\ UNCHANGED <<sysfs, held, leaked, led>>

\* class_remove_file shuts the file and waits until the last user is out.
RemoveFile ==
  /\ Call("remove_file", "drain")
  /\ file' = "closing"
  /\ UNCHANGED <<class, gpio, led>>

\* Seeded bug: the loop does not count, and removes the same file again.
DrainAgain ==
  /\ \A u \in Users : op[u] = "none"
  /\ Call("drain", "remove_file")
  /\ file' = "none"
  /\ UNCHANGED <<class, gpio, led>>

Drain ==
  /\ \A u \in Users : op[u] = "none"
  /\ Call("drain", "class_unregister")
  /\ file' = "none"
  /\ UNCHANGED <<class, gpio, led>>

ClassUnregister ==
  /\ Call("class_unregister", "unbound")
  /\ class' = FALSE
  /\ UNCHANGED <<file, gpio, led>>

Remove == GpiodPut \/ Forget \/ RemoveFile \/ Drain \/ ClassUnregister

-----------------------------------------------------------------------------
(* The module and the driver core.                                         *)

\* Loading registers the driver, which probes the device; the globals of the
\* module are as good as new.
Load ==
  /\ loader = "out"
  /\ loader' = "in"
  /\ Goto("unbound", "class_register")
  /\ my_led_gpio' = "null"
  /\ my_led_state' = 0
  /\ stored' = FALSE
  /\ UNCHANGED <<sysfs, held, leaked, pin, userVars>>

Bind ==
  /\ loader = "in"
  /\ Goto("unbound", "class_register")
  /\ stored' = FALSE
  /\ UNCHANGED <<loader, sysfs, gpio, led, userVars>>

\* By sysfs, or by the unregistration of the driver.
Unbind ==
  /\ Goto("bound", "gpiod_put")
  /\ UNCHANGED <<loader, sysfs, gpio, led, stored, userVars>>

Leave ==
  /\ loader = "in"
  /\ loader' = "leaving"
  /\ UNCHANGED <<binder, sysfs, gpio, led, stored, userVars>>

Gone ==
  /\ loader = "leaving"
  /\ binder = "unbound"
  /\ loader' = "out"
  /\ UNCHANGED <<binder, sysfs, gpio, led, stored, userVars>>

-----------------------------------------------------------------------------
(* The users.  A command that is no number, or neither 0 nor 1, changes    *)
(* nothing and is left out.                                                *)

Store(u, v) ==
  /\ file = "there"
  /\ op[u] = "none"
  /\ op' = [op EXCEPT ![u] = "load"]
  /\ kind' = [kind EXCEPT ![u] = "store"]
  /\ val' = [val EXCEPT ![u] = v]
  /\ stored' = TRUE
  /\ UNCHANGED <<drvVars, led, ptr>>

Show(u) ==
  /\ file = "there"
  /\ op[u] = "none"
  /\ op' = [op EXCEPT ![u] = "load"]
  /\ UNCHANGED <<drvVars, led, stored, kind, ptr, val>>

LoadPointer(u) ==
  /\ op[u] = "load"
  /\ op' = [op EXCEPT ![u] = "use"]
  /\ ptr' = [ptr EXCEPT ![u] = my_led_gpio]
  /\ UNCHANGED <<drvVars, led, stored, kind, val>>

\* gpiod_set_value does nothing with a NULL pointer, and returns nothing:
\* set_led_state goes on, and store answers success.
SetValue(u) ==
  /\ op[u] = "use" /\ kind[u] = "store"
  /\ op' = [op EXCEPT ![u] = "state"]
  /\ pin' = IF ptr[u] = "desc" THEN val[u] ELSE pin
  /\ UNCHANGED <<drvVars, my_led_state, stored, kind, ptr, val>>

\* gpiod_get_value answers 0 for a NULL pointer.
GetValue(u) ==
  /\ op[u] = "use" /\ kind[u] = "show"
  /\ op' = [op EXCEPT ![u] = "state"]
  /\ val' = [val EXCEPT ![u] = IF ptr[u] = "desc" THEN pin ELSE 0]
  /\ UNCHANGED <<drvVars, led, stored, kind, ptr>>

\* A kernel that does not look for error pointers follows this one, and the
\* thread dies inside.
Oops(u) ==
  /\ op[u] = "use" /\ ptr[u] = "error"
  /\ op' = [op EXCEPT ![u] = "dead"]
  /\ UNCHANGED <<drvVars, led, stored, kind, ptr, val>>

\* The call returns, its local variables are gone.
Return(u) ==
  /\ op' = [op EXCEPT ![u] = "none"]
  /\ kind' = [kind EXCEPT ![u] = "show"]
  /\ ptr' = [ptr EXCEPT ![u] = "null"]
  /\ val' = [val EXCEPT ![u] = 0]

GetValueFails(u) ==
  /\ "gpiod_get_value" \in Faults
  /\ op[u] = "use" /\ kind[u] = "show"
  /\ Return(u)
  /\ UNCHANGED <<drvVars, led, stored>>

SetState(u) ==
  /\ op[u] = "state"
  /\ my_led_state' = val[u]
  /\ Return(u)
  /\ UNCHANGED <<drvVars, pin, stored>>

Inside(u) ==
  \/ LoadPointer(u) \/ SetValue(u) \/ GetValue(u) \/ Oops(u)
  \/ GetValueFails(u) \/ SetState(u)

-----------------------------------------------------------------------------

Driver == Probe \/ Remove

Next ==
  \/ Driver
  \/ Load \/ Bind \/ Unbind \/ Leave \/ Gone
  \/ \E u \in Users : Show(u) \/ Inside(u) \/ \E v \in {0, 1} : Store(u, v)

Spec == Init /\ [][Next]_vars

\* probe, remove and a user inside the driver go on; an exit unbinds.  Nobody
\* has to come in, to load or to bind.
Fairness ==
  /\ WF_vars(Driver)
  /\ WF_vars(loader = "leaving" /\ Unbind)
  /\ WF_vars(Gone)
  /\ \A u \in Users : WF_vars(Inside(u))

FairSpec == Spec /\ Fairness

-----------------------------------------------------------------------------

\* What a probe takes, a failed probe or a remove gives back (lines 143-158):
\* class and file are gone and nobody is inside once the device is unbound,
\* and the descriptor is not held unless gpiod_direction_output failed.  What
\* the label of lines 143-147 does not put then is never got again, not even by
\* another load of the module.
UnboundHoldsLittle ==
  /\ binder = "unbound" =>
       /\ ~class /\ file = "none"
       /\ \A u \in Users : op[u] = "none"
       /\ held => leaked
  /\ leaked => held /\ binder # "bound"

\* The pin is driven by the one who holds the descriptor.  The exception is a
\* store that read the pointer before remove put the descriptor or reset the
\* pointer (lines 153-154), and even that is over once the file is gone (157).
LateInRemove ==
  \/ binder = "forget"
  \/ binder \in {"remove_file", "drain"} /\ my_led_gpio = "null"

DrivenByHolder == [][pin' # pin => held \/ LateInRemove]_vars

\* A device that was just bound has its LED off (line 138) until somebody
\* stores something: no store of an earlier binding comes late.
OffUntilStored == binder = "bound" /\ ~stored => pin = 0

\* probe, remove and exit end, however many users come and go, unless one of
\* them died of the error pointer of line 122.
ComingAndGoingEnds ==
  binder \in Probing \cup Removing \/ loader = "leaving"
    ~> \/ binder \in {"bound", "unbound"} /\ loader # "leaving"
       \/ \E u \in Users : op[u] = "dead"
=============================================================================
