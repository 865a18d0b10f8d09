---------------------------- MODULE LedRegisters ----------------------------
(***************************************************************************)
(* my_led: the same LED, switched by a character device that writes the    *)
(* registers of the chip itself.  Three things are shared and locked by    *)
(* nobody: the mapping of the registers, which init makes after the device *)
(* is there to be opened; the registers, which every open and write reads, *)
(* changes and writes back; and the other bits of the GPIO registers,      *)
(* which belong to the GPIO driver of the kernel.                          *)
(*                                                                         *)
(* A register is the set of its bits that are 1.  A command that is no     *)
(* number, or neither 0 nor 1, changes nothing and is left out.            *)
(***************************************************************************)
EXTENDS Integers, Sequences

CONSTANTS
  Openers,    \* the threads that open and write the device
  LedFaults,  \* the calls that may fail, by name
  PadResets,  \* what the pad may be set to when the system is up
  Shared      \* the registers that the GPIO driver writes, too

InitCalls == <<"register_chrdev", "class_create", "device_create",
               "ioremap", "ioremap", "ioremap">>
Mapped == <<"iomux_to_gpio", "gpio_dir", "gpio_data">>
Registers == {"iomux_to_gpio", "gpio_dir", "gpio_data"}
Bank == {"gpio_dir", "gpio_data"}

LedBit == 3
OtherBit == 4    \* another pin of the bank, which the GPIO driver drives
PadBits == 0 .. 3
PadIsGpio == {0, 2}
Bits == PadBits \cup {LedBit, OtherBit}
Unread == {-1}

ASSUME LedRegistersAssumption ==
  /\ LedFaults \subseteq {InitCalls[i] : i \in 1 .. 6}
  /\ PadResets \subseteq SUBSET PadBits
  /\ Shared \subseteq Bank

VARIABLES
  my_led,   \* the module: "out", "coming", "in", "going", or "failing"
  calls,    \* how many of InitCalls were made and not yet taken back
  mapping,  \* each pointer: "NULL", "mapped", or "stale" after iounmap
  bits,     \* what is in each register
  others,   \* the GPIO driver: what it last put into its bit of each register
  files,    \* the users that have the device open
  todo,     \* what each user's call still has to do to the registers
  copy,     \* the register as the user has read it
  died,     \* the users that followed a pointer that was not mapped
  level,    \* history: the value of the last write; -1 before it
  opened,   \* history: an open went through since the system is up
  hasty,    \* history: the users that came in before init was done
  behind,   \* history: the users whose copy the GPIO driver has outdated
  undone,   \* history: the registers that such a user has written back
  taken     \* history: the registers where the GPIO driver has the LED's bit

device == <<my_led, calls, mapping>>
chip == <<bits, others>>
callers == <<files, todo, copy, died>>
history == <<level, opened, hasty, behind, undone, taken>>
ledVars == <<device, chip, callers, history>>

\* What a call does to a register: some bits to 0, some to 1.
Change(r, zeros, ones) == [reg |-> r, zeros |-> zeros, ones |-> ones]

\* Seeded bug: the pad is cleared after it was set.
OpenChangesSwapped ==
  <<Change("iomux_to_gpio", {}, PadIsGpio),
    Change("iomux_to_gpio", PadBits, {}),
    Change("gpio_dir", {}, {LedBit})>>
OpenChanges ==
  <<Change("iomux_to_gpio", PadBits, {}),
    Change("iomux_to_gpio", {}, PadIsGpio),
    Change("gpio_dir", {}, {LedBit})>>

\* Seeded bug: the bit is assigned, not set.
AssignChanges(val) ==
  <<IF val = 0 THEN Change("gpio_data", Bits, {LedBit})
               ELSE Change("gpio_data", {LedBit}, {})>>
WriteChanges(val) ==
  <<IF val = 0 THEN Change("gpio_data", {}, {LedBit})
               ELSE Change("gpio_data", {LedBit}, {})>>

\* What can be left to do of an open or a write.
Todos ==
  {<<>>, OpenChanges, Tail(OpenChanges), Tail(Tail(OpenChanges))}
    \cup {WriteChanges(val) : val \in {0, 1}}

Idle(u) == todo[u] = <<>>
InUse == files # {} \/ \E u \in Openers : ~Idle(u)

RegistersTypeOK ==
  /\ my_led \in {"out", "coming", "in", "going", "failing"}
  /\ calls \in 0 .. 6
  /\ mapping \in [Registers -> {"NULL", "mapped", "stale"}]
  /\ bits \in [Registers -> SUBSET Bits]
  /\ others \in [Bank -> BOOLEAN]
  /\ files \subseteq Openers /\ died \subseteq Openers
  /\ hasty \subseteq Openers /\ behind \subseteq Openers
  /\ copy \in [Openers -> (SUBSET Bits) \cup {Unread}]
  /\ todo \in [Openers -> Todos]
  /\ level \in {-1, 0, 1} /\ opened \in BOOLEAN
  /\ undone \subseteq Registers /\ taken \subseteq Bank

RegistersInit ==
  /\ my_led = "out" /\ calls = 0
  /\ mapping = [r \in Registers |-> "NULL"]
  /\ \E pad \in PadResets :
       bits = [r \in Registers |-> IF r \in Bank THEN {} ELSE pad]
  /\ others = [r \in Bank |-> FALSE]
  /\ files = {} /\ died = {} /\ hasty = {} /\ behind = {}
  /\ undone = {} /\ taken = {}
  /\ todo = [u \in Openers |-> <<>>]
  /\ copy = [u \in Openers |-> Unread]
  /\ level = -1 /\ opened = FALSE

-----------------------------------------------------------------------------
(* my_led_ini and my_led_exit.                                             *)

\* The module's data is new.  What follows when a module was discarded while
\* it was in use is nobody's guess.
LoadMyLed ==
  /\ my_led = "out" /\ ~InUse
  /\ my_led' = "coming"
  /\ mapping' = [r \in Registers |-> "NULL"]
  /\ UNCHANGED <<calls, chip, callers, history>>

MakeObject ==
  /\ my_led = "coming" /\ calls < 3
  /\ calls' = calls + 1
  /\ UNCHANGED <<my_led, mapping, chip, callers, history>>

MakeObjectFails ==
  /\ my_led = "coming" /\ calls < 3
  /\ InitCalls[calls + 1] \in LedFaults
  /\ my_led' = "failing"
  /\ UNCHANGED <<calls, mapping, chip, callers, history>>

\* Nobody looks at what ioremap returns.
Ioremap ==
  /\ my_led = "coming" /\ calls \in 3 .. 5
  /\ calls' = calls + 1
  /\ \E result \in {"mapped"} \cup IF "ioremap" \in LedFaults THEN {"NULL"}
                                                              ELSE {} :
       mapping' = [mapping EXCEPT ![Mapped[calls - 2]] = result]
  /\ UNCHANGED <<my_led, chip, callers, history>>

InitMyLedDone ==
  /\ my_led = "coming" /\ calls = 6
  /\ my_led' = "in"
  /\ UNCHANGED <<calls, mapping, chip, callers, history>>

\* The kernel only lets a module go that nobody uses.
ExitMyLed ==
  /\ my_led = "in" /\ ~InUse
  /\ my_led' = "going"
  /\ UNCHANGED <<calls, mapping, chip, callers, history>>

Iounmap ==
  /\ my_led = "going" /\ calls \in 4 .. 6
  /\ calls' = calls - 1
  /\ LET r == Mapped[7 - calls]
     IN  mapping' = [mapping EXCEPT ![r] = IF @ = "NULL" THEN @ ELSE "stale"]
  /\ UNCHANGED <<my_led, chip, callers, history>>

\* device_destroy, class_destroy, unregister_chrdev: in exit and at the labels.
DestroyObject ==
  /\ my_led \in {"going", "failing"} /\ calls \in 1 .. 3
  /\ calls' = calls - 1
  /\ UNCHANGED <<my_led, mapping, chip, callers, history>>

MyLedGone ==
  /\ my_led \in {"going", "failing"} /\ calls = 0
  /\ my_led' = "out"
  /\ UNCHANGED <<calls, mapping, chip, callers, history>>

MyLedModule ==
  \/ MakeObject \/ MakeObjectFails \/ Ioremap \/ InitMyLedDone
  \/ Iounmap \/ DestroyObject \/ MyLedGone

-----------------------------------------------------------------------------
(* The users, and the GPIO driver of the kernel.                           *)

Enter(u, changes) ==
  /\ u \notin died /\ Idle(u)
  /\ todo' = [todo EXCEPT ![u] = changes]
  /\ hasty' = IF my_led \in {"coming", "failing"} THEN hasty \cup {u}
                                                 ELSE hasty \ {u}
  /\ UNCHANGED <<device, chip, files, copy, died, level, opened, behind,
                 undone, taken>>

\* Seeded bug: the file operations do not name their owner, and the device can
\* be opened until it is unregistered.
OpenUnowned(u) ==
  /\ calls > 0
  /\ u \notin files
  /\ Enter(u, OpenChanges)

\* The device can be opened as soon as it is registered, while the module is in
\* its init, too, but not any more when it is about to leave.
OpenMyLed(u) ==
  /\ my_led \in {"coming", "failing", "in"} /\ calls > 0
  /\ u \notin files
  /\ Enter(u, OpenChanges)

WriteMyLed(u, val) ==
  /\ my_led # "out" /\ u \in files
  /\ Enter(u, WriteChanges(val))

\* my_led_release does nothing, but the file held the module.
ReleaseMyLed(u) ==
  /\ my_led # "out" /\ u \in files /\ Idle(u)
  /\ files' = files \ {u}
  /\ UNCHANGED <<device, chip, todo, copy, died, history>>

ReadRegister(u) ==
  /\ my_led # "out" /\ ~Idle(u) /\ u \notin died
  /\ copy[u] = Unread
  /\ IF mapping[Head(todo[u]).reg] = "mapped"
     THEN copy' = [copy EXCEPT ![u] = bits[Head(todo[u]).reg]]
          /\ UNCHANGED died
     ELSE died' = died \cup {u} /\ UNCHANGED copy
  /\ behind' = behind \ {u}
  /\ UNCHANGED <<device, chip, files, todo, level, opened, hasty, undone,
                 taken>>

\* The last change of an open opens the file.
WriteRegister(u) ==
  /\ my_led # "out" /\ ~Idle(u) /\ copy[u] # Unread
  /\ LET c == Head(todo[u])
         last == Len(todo[u]) = 1
     IN  /\ bits' = [bits EXCEPT ![c.reg] = (copy[u] \ c.zeros) \cup c.ones]
         /\ taken' = taken \ {c.reg}
         /\ undone' = IF u \in behind THEN undone \cup {c.reg} ELSE undone
         /\ level' = IF c.reg # "gpio_data" THEN level
                     ELSE IF LedBit \in c.ones THEN 0 ELSE 1
         /\ opened' = (opened \/ last)
         /\ files' = IF last THEN files \cup {u} ELSE files
  /\ todo' = [todo EXCEPT ![u] = Tail(@)]
  /\ copy' = [copy EXCEPT ![u] = Unread]
  /\ behind' = behind \ {u}
  /\ UNCHANGED <<device, others, died, hasty>>

\* The chip has one core, and the GPIO driver shuts out the interrupts: what
\* it does to a register is one step.  It may write what it remembers of the
\* other pins, the one of the LED among them.
GpioDriver(r) ==
  /\ my_led # "out"
  /\ others' = [others EXCEPT ![r] = ~@]
  /\ \E led \in SUBSET {LedBit} :
       /\ bits' = [bits EXCEPT ![r] =
            led \cup IF others'[r] THEN {OtherBit} ELSE {}]
       /\ taken' = IF led = bits[r] \cap {LedBit} THEN taken ELSE taken \cup {r}
  /\ behind' = behind \cup {u \in Openers : copy[u] # Unread
                                            /\ Head(todo[u]).reg = r}
  /\ undone' = undone \ {r}
  /\ UNCHANGED <<device, callers, level, opened, hasty>>

-----------------------------------------------------------------------------

RegistersNext ==
  \/ LoadMyLed \/ ExitMyLed \/ MyLedModule
  \/ \E r \in Shared : GpioDriver(r)
  \/ \E u \in Openers :
       \/ OpenMyLed(u) \/ ReleaseMyLed(u) \/ ReadRegister(u) \/ WriteRegister(u)
       \/ \E val \in {0, 1} : WriteMyLed(u, val)

RegistersSpec == RegistersInit /\ [][RegistersNext]_ledVars

-----------------------------------------------------------------------------

\* A register is only reached through a pointer that is mapped, unless its
\* user came in before init had mapped it (lines 105-117) or ioremap failed and
\* nobody looked.  Nobody has the device open or is inside when the module goes
\* away, and no register stays mapped (134-140), unless init failed after the
\* device could be opened (92-109): then its users are left without the module.
UsersFindRegisters ==
  /\ \A u \in died : \E r \in Registers :
       /\ r = Head(todo[u]).reg
       /\ u \in hasty \/ mapping[r] = "NULL"
  /\ my_led \in {"going", "out"} =>
       /\ \A u \in Openers \ hasty : u \notin files /\ Idle(u)
       /\ my_led = "out" => \A r \in Registers : mapping[r] # "mapped"

\* However two opens interleave (32-36): when none is under way, the pad of an
\* opened LED is a GPIO pin, and the pin an output unless the GPIO driver made
\* it an input.
OpenedIsOutput ==
  opened /\ (\A u \in Openers : Idle(u) \/ u \in died) =>
    /\ bits["iomux_to_gpio"] = PadIsGpio
    /\ LedBit \in bits["gpio_dir"] \/ "gpio_dir" \in taken

\* Each bit is what its owner made it: the LED shows the last write that went
\* through, unless the GPIO driver has overwritten it, and the bits of that
\* driver are what it set them to, unless a user of the LED has written back a
\* copy that was read before (36, 70, 72).
EveryBitItsOwner ==
  /\ level # -1 /\ "gpio_data" \notin taken =>
       (LedBit \in bits["gpio_data"] <=> level = 0)
  /\ \A r \in Bank \ undone : OtherBit \in bits[r] <=> others[r]
=============================================================================
