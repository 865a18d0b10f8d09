--------------------------- MODULE MCSmallModules ---------------------------
(* The system with one of the three small modules that do not concern the  *)
(* keys or the EEPROM: the two drivers of the LED, which would fight over  *)
(* it, and the module with the thread.  Which of them it is never changes. *)
EXTENDS LedClass, LedRegisters, KthreadModule

VARIABLE module

all == <<module, vars, ledVars, kthreadVars>>

EveryLedClassFault == ProbeCalls \cup {"gpiod_get_value"}
EveryLedFault == {InitCalls[i] : i \in 1 .. 6}
GpioOrNot == {PadIsGpio, {1, 3}}

OneInit ==
  /\ module \in {"my_led_dtree_and_pdriver", "my_led", "kthread_module"}
  /\ Init /\ RegistersInit /\ KthreadInit

OneNext ==
  /\ UNCHANGED module
  /\ \/ /\ module = "my_led_dtree_and_pdriver"
        /\ Next
        /\ UNCHANGED <<ledVars, kthreadVars>>
     \/ /\ module = "my_led"
        /\ RegistersNext
        /\ UNCHANGED <<vars, kthreadVars>>
     \/ /\ module = "kthread_module"
        /\ KthreadNext
        /\ UNCHANGED <<vars, ledVars>>

\* Nothing of a module that is not loaded is enabled, and its fairness is met.
OneSpec == OneInit /\ [][OneNext]_all /\ Fairness /\ KthreadFairness
=============================================================================
