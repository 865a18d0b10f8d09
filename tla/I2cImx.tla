------------------------------- MODULE I2cImx -------------------------------
(***************************************************************************)
(* i2c-imx, the reference source of the adapter that the EEPROM driver     *)
(* talks through: one call of i2c_imx_xfer at a time (the I2C core holds   *)
(* the bus), the interrupt handler, the controller, and the slave, which   *)
(* may refuse a byte, keep the clock low, or hold the bus.                 *)
(*                                                                         *)
(* Without DMA, which the controller of this board is not given, a byte is *)
(* started by the driver, shifted by the controller, reported by the       *)
(* interrupt in i2csr, and awaited for a tenth of a second.  Nothing ties  *)
(* what is in i2csr to the byte that is awaited.                           *)
(*                                                                         *)
(* I2CR and I2SR are the sets of their bits that are 1.                    *)
(***************************************************************************)
EXTENDS Integers, Sequences

CONSTANTS
  Requests,      \* the sequences of messages that clients ask for
  BlockLengths,  \* what a slave may announce as the length of a block
  BlockMax,      \* I2C_SMBUS_BLOCK_MAX
  MaxUsage       \* bound of the usage count, to which failed resumes add

\* A message: does it read, how many bytes, is the length still to be read.
Messages == [rd : BOOLEAN, len : Nat, block : BOOLEAN]

ASSUME I2cImxAssumption ==
  /\ Requests \subseteq Seq(Messages) \ {<<>>}
  /\ BlockLengths \subseteq Nat
  /\ BlockMax \in Nat /\ MaxUsage \in Nat \ {0}

VARIABLES
  pc,         \* where i2c_imx_xfer is; "idle" when it is not called
  msgs,       \* what is left of the request, the current message first
  i,          \* the loop counter of i2c_imx_write and i2c_imx_read
  result,     \* "ok" or an error
  recovery,   \* what bus recovery can still be done in this transfer
  stopped,    \* i2c_imx->stopped
  i2csr,      \* i2c_imx->i2csr has IIF
  i2cr, i2sr, \* the registers of the controller
  shift,      \* the byte on the wire: "none", "address", "out" or "in"
  clk,        \* the clock: "on", "off", or "error" after a failed resume
  usage,      \* the usage count of runtime PM
  wire,       \* history: the acknowledge bit of each byte of this message
  whole,      \* history: each message that was finished went over the wire
  excuse      \* history: what makes the answer of this transfer unreliable

call == <<pc, msgs, i, result, recovery>>
drv == <<stopped, i2csr>>
ctrl == <<i2cr, i2sr, shift>>
pm == <<clk, usage>>
history == <<wire, whole, excuse>>
vars == <<call, drv, ctrl, pm, history>>

Waiting == {"start_busy", "await_address", "await_byte", "last_busy",
            "stop_busy"}
Working == {"start", "address", "address_done", "byte_done", "counted",
            "restart", "stop", "disable"}
Results == {"ok", "ENXIO", "EAGAIN", "ETIMEDOUT", "EPROTO", "resume"}

CallTypes ==
  /\ pc \in {"idle"} \cup Waiting \cup Working
  /\ msgs \in Seq(Messages)
  /\ i \in Nat
  /\ result \in Results
  /\ recovery \in {"none", "possible", "done"}
  /\ clk \in {"on", "off", "error"}
  /\ usage \in 0 .. MaxUsage

ControllerTypes ==
  /\ stopped \in BOOLEAN /\ i2csr \in BOOLEAN
  /\ i2cr \subseteq {"IEN", "IIEN", "MSTA", "MTX", "TXAK"}
  /\ i2sr \subseteq {"IBB", "IAL", "IIF", "RXAK"}
  /\ shift \in {"none", "address", "out", "in"}

HistoryTypes ==
  /\ wire \in Seq(BOOLEAN) /\ whole \in BOOLEAN
  /\ excuse \subseteq
       {"stale", "arbitration", "no_byte", "no_address", "block_of_one"}

TypeOK == CallTypes /\ ControllerTypes /\ HistoryTypes

\* kzalloc makes stopped 0.
Init ==
  /\ pc = "idle" /\ msgs = <<>> /\ i = 0 /\ result = "ok"
  /\ recovery = "none"
  /\ stopped = FALSE /\ i2csr = FALSE
  /\ i2cr = {} /\ i2sr = {} /\ shift = "none"
  /\ clk = "on" /\ usage = 0
  /\ wire = <<>> /\ whole = TRUE /\ excuse = {}

Message == Head(msgs)
IsLastMsg == Len(msgs) = 1

-----------------------------------------------------------------------------
(* The controller and the slave.                                           *)

\* A byte is through.  Its receiver has acknowledged it: a byte that goes out,
\* if the slave likes it, a byte that comes in, if TXAK is 0.
Shifted ==
  /\ shift # "none" /\ "IEN" \in i2cr
  /\ \E ack \in IF shift = "in" THEN {"TXAK" \notin i2cr} ELSE BOOLEAN :
       /\ i2sr' = (i2sr \ {"RXAK"}) \cup {"IIF"}
                    \cup IF ack THEN {} ELSE {"RXAK"}
       /\ wire' = Append(wire, ack)
  /\ shift' = "none"
  /\ UNCHANGED <<call, drv, i2cr, pm, whole, excuse>>

\* Another master, or a slave that is out of step, pulls the line.
ArbitrationLost ==
  /\ shift # "none" /\ "MSTA" \in i2cr
  /\ i2sr' = i2sr \cup {"IAL", "IIF"}
  /\ i2cr' = i2cr \ {"MSTA"}
  /\ shift' = "none"
  /\ excuse' = excuse \cup {"arbitration"}
  /\ UNCHANGED <<call, drv, pm, wire, whole>>

\* START is on the bus, or somebody else has the bus.
BusTaken ==
  /\ "MSTA" \in i2cr /\ "IBB" \notin i2sr
  /\ \/ /\ i2sr' = i2sr \cup {"IBB"}
        /\ UNCHANGED i2cr
     \/ /\ i2sr' = i2sr \cup {"IAL"}
        /\ i2cr' = i2cr \ {"MSTA"}
  /\ UNCHANGED <<call, drv, shift, pm, history>>

\* STOP is on the bus, and a byte that was still on the wire is cut off.
BusFreed ==
  /\ "MSTA" \notin i2cr /\ "IBB" \in i2sr
  /\ i2sr' = i2sr \ {"IBB"}
  /\ shift' = "none"
  /\ UNCHANGED <<call, drv, i2cr, pm, history>>

\* i2c_imx_isr.
Interrupt ==
  /\ "IIF" \in i2sr /\ {"IEN", "IIEN"} \subseteq i2cr
  /\ i2csr' = TRUE
  /\ i2sr' = i2sr \ {"IIF"}
  /\ UNCHANGED <<call, stopped, i2cr, shift, pm, history>>

\* The device was not used for a while.
RuntimeSuspend ==
  /\ usage = 0 /\ clk = "on"
  /\ clk' = "off"
  /\ UNCHANGED <<call, drv, ctrl, usage, history>>

-----------------------------------------------------------------------------
(* What the driver does with the controller.                               *)

Goto(from, to) == pc = from /\ pc' = to

\* A byte is only shifted out by a master that transmits; and a master that
\* receives goes on to shift in the next byte whenever I2DR is read.
WriteI2DR(byte) ==
  shift' = IF {"MSTA", "MTX"} \subseteq i2cr THEN byte ELSE shift

ReadI2DR(cr) ==
  shift' = IF "MSTA" \in cr /\ "MTX" \notin cr THEN "in" ELSE shift

\* i2c_imx_bus_busy: what it may return at this moment; it resets IAL.
BusBusy(for_busy) ==
  IF "IAL" \in i2sr THEN {"EAGAIN"}
  ELSE IF ("IBB" \in i2sr) = for_busy THEN {"ok"}
  ELSE {"ETIMEDOUT"}

\* The bytes a message needs, by their acknowledge bits: the slave takes its
\* address and what is written, the master takes all that it reads but the
\* last byte, which it refuses to end the message.
Needed(m) ==
  [k \in 1 .. m.len + 1 |-> ~(m.rd /\ k = m.len + 1 /\ m.len > 0)]

Fail(error) ==
  /\ pc' = "stop"
  /\ result' = error
  /\ UNCHANGED <<msgs, i, recovery>>

\* i2c_imx_write or i2c_imx_read returns 0.  If it read nothing, the byte of its
\* dummy read is on the wire, and MTX is not set for the address that is next.
EndMessage ==
  /\ whole' = (whole /\ wire = Needed(Message) /\ shift' = "none")
  /\ excuse' =
       excuse \cup IF ~Message.rd \/ Message.len > 0 THEN {}
                   ELSE {"no_byte"} \cup IF IsLastMsg THEN {}
                                                    ELSE {"no_address"}
  /\ IF IsLastMsg
     THEN pc' = "stop" /\ UNCHANGED <<msgs, wire>>
     ELSE pc' = "restart" /\ msgs' = Tail(msgs) /\ wire' = <<>>
  /\ UNCHANGED <<i, result, recovery>>

-----------------------------------------------------------------------------
(* i2c_imx_xfer, and i2c_imx_start and i2c_imx_stop.                       *)

\* pm_runtime_get_sync resumes the device if it must.
Xfer(request) ==
  /\ clk # "error" /\ usage < MaxUsage
  /\ Goto("idle", "start")
  /\ clk' = "on" /\ usage' = usage + 1
  /\ msgs' = request /\ i' = 0 /\ result' = "ok"
  /\ recovery' \in {"none", "possible"}
  /\ wire' = <<>> /\ whole' = TRUE
  /\ excuse' = IF i2csr THEN {"stale"} ELSE {}
  /\ UNCHANGED <<drv, ctrl>>

\* The resume fails, now and ever after; the count is not taken back.
XferResumeFails ==
  /\ pc = "idle" /\ clk # "on" /\ usage < MaxUsage
  /\ clk' = "error" /\ usage' = usage + 1
  /\ result' = "resume"
  /\ UNCHANGED <<pc, msgs, i, recovery, drv, ctrl, history>>

\* The controller is enabled, as new, and told to become master.
Start ==
  /\ Goto("start", "start_busy")
  /\ i2cr' = {"IEN", "MSTA"}
  /\ i2sr' \in {{}, {"RXAK"}}
  /\ UNCHANGED <<msgs, i, result, recovery, drv, shift, pm, history>>

StartBusy ==
  /\ Goto("start_busy", "address")
  /\ "ok" \in BusBusy(TRUE)
  /\ stopped' = FALSE
  /\ i2cr' = {"IEN", "MSTA", "IIEN", "MTX", "TXAK"}
  /\ UNCHANGED <<msgs, i, result, recovery, i2csr, i2sr, shift, pm, history>>

\* Seeded bug: recovery is tried as long as it fails.
RecoverForEver ==
  /\ Goto("start_busy", "start")
  /\ recovery # "none" /\ "ok" \notin BusBusy(TRUE)
  /\ i2sr' = i2sr \ {"IAL"}
  /\ UNCHANGED <<msgs, i, result, recovery, drv, i2cr, shift, pm, history>>

\* Once, if the device tree has the pins for it, the bus is recovered.
Recover ==
  /\ Goto("start_busy", "start")
  /\ recovery = "possible" /\ "ok" \notin BusBusy(TRUE)
  /\ recovery' = "done"
  /\ i2sr' = i2sr \ {"IAL"}
  /\ UNCHANGED <<msgs, i, result, drv, i2cr, shift, pm, history>>

StartFails ==
  /\ pc = "start_busy" /\ recovery # "possible"
  /\ \E error \in BusBusy(TRUE) \ {"ok"} : Fail(error)
  /\ i2sr' = i2sr \ {"IAL"}
  /\ UNCHANGED <<drv, i2cr, shift, pm, history>>

\* RSTA, before every message but the first.
Restart ==
  /\ Goto("restart", "address")
  /\ "ok" \in BusBusy(TRUE)
  /\ UNCHANGED <<msgs, i, result, recovery, drv, ctrl, pm, history>>

RestartFails ==
  /\ pc = "restart"
  /\ \E error \in BusBusy(TRUE) \ {"ok"} : Fail(error)
  /\ i2sr' = i2sr \ {"IAL"}
  /\ UNCHANGED <<drv, i2cr, shift, pm, history>>

Stop ==
  /\ Goto("stop", IF stopped THEN "disable" ELSE "stop_busy")
  /\ i2cr' = IF stopped THEN i2cr ELSE i2cr \ {"MSTA", "MTX"}
  /\ UNCHANGED <<msgs, i, result, recovery, drv, i2sr, shift, pm, history>>

\* Nobody asks how the wait for the end of the transfer ended.
StopBusy ==
  /\ Goto("stop_busy", "disable")
  /\ stopped' = TRUE
  /\ i2sr' = i2sr \ {"IAL"}
  /\ UNCHANGED <<msgs, i, result, recovery, i2csr, i2cr, shift, pm, history>>

\* Seeded bug: the device is put before the controller is disabled.
DisableLate ==
  /\ Goto("disable", "idle")
  /\ usage' = usage - 1
  /\ UNCHANGED <<msgs, i, result, recovery, drv, ctrl, clk, history>>

\* The controller is disabled, which resets it, and the device is put.
Disable ==
  /\ Goto("disable", "idle")
  /\ i2cr' = {} /\ i2sr' = {} /\ shift' = "none"
  /\ usage' = usage - 1
  /\ UNCHANGED <<msgs, i, result, recovery, drv, clk, history>>

-----------------------------------------------------------------------------
(* i2c_imx_write and i2c_imx_read, with i2c_imx_trx_complete and _acked.   *)

Address ==
  /\ Goto("address", "await_address")
  /\ WriteI2DR("address")
  /\ i' = 0
  /\ UNCHANGED <<msgs, result, recovery, drv, i2cr, i2sr, pm, history>>

\* Seeded bug: the flag is not reset for the next byte.
TrxCompleteOnly ==
  /\ i2csr
  /\ \/ Goto("await_address", "address_done")
     \/ Goto("await_byte", "byte_done")
  /\ UNCHANGED <<msgs, i, result, recovery, drv, ctrl, pm, history>>

TrxComplete ==
  /\ i2csr
  /\ i2csr' = FALSE
  /\ \/ Goto("await_address", "address_done")
     \/ Goto("await_byte", "byte_done")
  /\ UNCHANGED <<msgs, i, result, recovery, stopped, ctrl, pm, history>>

TrxTimeout ==
  /\ pc \in {"await_address", "await_byte"}
  /\ ~i2csr
  /\ Fail("ETIMEDOUT")
  /\ UNCHANGED <<drv, ctrl, pm, history>>

\* A byte that goes out is looked at when it is through.
Refused ==
  /\ pc = "address_done" \/ (pc = "byte_done" /\ ~Message.rd)
  /\ "RXAK" \in i2sr
  /\ Fail("ENXIO")
  /\ UNCHANGED <<drv, ctrl, pm, history>>

\* How many bytes of the message are through when the next is written.
Written == IF pc = "address_done" THEN 0 ELSE i + 1

WriteByte ==
  /\ pc \in {"address_done", "byte_done"} /\ ~Message.rd
  /\ "RXAK" \notin i2sr
  /\ IF Written < Message.len
     THEN /\ pc' = "await_byte" /\ i' = Written
          /\ WriteI2DR("out")
          /\ UNCHANGED <<msgs, result, recovery, history>>
     ELSE UNCHANGED shift /\ EndMessage
  /\ UNCHANGED <<drv, i2cr, i2sr, pm>>

\* Seeded bug: a single byte is acknowledged.
SetUpBusAcking ==
  /\ pc = "address_done" /\ Message.rd
  /\ "RXAK" \notin i2sr
  /\ i2cr' = i2cr \ {"MTX", "TXAK"}
  /\ ReadI2DR(i2cr')
  /\ IF Message.len = 0
     THEN EndMessage
     ELSE pc' = "await_byte" /\ UNCHANGED <<msgs, i, result, recovery, history>>
  /\ UNCHANGED <<drv, i2sr, pm>>

\* The dummy read starts the first byte, and there is one even if none is
\* asked for.
SetUpBus ==
  /\ pc = "address_done" /\ Message.rd
  /\ "RXAK" \notin i2sr
  /\ i2cr' = i2cr \ ({"MTX"} \cup IF Message.len # 1 \/ Message.block
                                  THEN {"TXAK"} ELSE {})
  /\ ReadI2DR(i2cr')
  /\ IF Message.len = 0
     THEN EndMessage
     ELSE pc' = "await_byte" /\ UNCHANGED <<msgs, i, result, recovery, history>>
  /\ UNCHANGED <<drv, i2sr, pm>>

\* The length of a block is read, which starts the byte behind it.
Counting == pc = "byte_done" /\ Message.rd /\ Message.block /\ i = 0

BlockLength(n) ==
  /\ Counting
  /\ n \in 1 .. BlockMax
  /\ ReadI2DR(i2cr)
  /\ pc' = "counted"
  /\ msgs' = [msgs EXCEPT ![1].len = @ + n]
  /\ excuse' = IF Message.len + n = 2 THEN excuse \cup {"block_of_one"}
                                     ELSE excuse
  /\ UNCHANGED <<i, result, recovery, drv, i2cr, i2sr, pm, wire, whole>>

BlockLengthBad(n) ==
  /\ Counting
  /\ n \notin 1 .. BlockMax
  /\ ReadI2DR(i2cr)
  /\ Fail("EPROTO")
  /\ UNCHANGED <<drv, i2cr, i2sr, pm, history>>

\* A byte is there, and what must be set before I2DR is read, which starts the
\* next: STOP or MTX at the last byte, TXAK at the last but one.
Received == (pc = "byte_done" /\ Message.rd /\ ~Counting) \/ pc = "counted"

ReceiveStop ==
  /\ Received
  /\ i = Message.len - 1 /\ IsLastMsg
  /\ pc' = "last_busy"
  /\ i2cr' = i2cr \ {"MSTA", "MTX"}
  /\ UNCHANGED <<msgs, i, result, recovery, drv, i2sr, shift, pm, history>>

\* Whatever the wait says, the last byte is read and the message is done.
LastBusy ==
  /\ pc = "last_busy"
  /\ stopped' = TRUE
  /\ i2sr' = i2sr \ {"IAL"}
  /\ ReadI2DR(i2cr)
  /\ EndMessage
  /\ UNCHANGED <<i2csr, i2cr, pm>>

ReceiveLast ==
  /\ Received
  /\ i = Message.len - 1 /\ ~IsLastMsg
  /\ i2cr' = i2cr \cup {"MTX"}
  /\ ReadI2DR(i2cr')
  /\ EndMessage
  /\ UNCHANGED <<drv, i2sr, pm>>

\* Seeded bug: TXAK is set one byte late.
ReceiveNextLate ==
  /\ Received
  /\ i < Message.len - 1
  /\ IF pc = "counted" THEN UNCHANGED shift ELSE ReadI2DR(i2cr)
  /\ pc' = "await_byte" /\ i' = i + 1
  /\ UNCHANGED <<msgs, result, recovery, drv, i2cr, i2sr, pm, history>>

\* The length of a block was read already.
ReceiveNext ==
  /\ Received
  /\ i < Message.len - 1
  /\ i2cr' = IF i = Message.len - 2 THEN i2cr \cup {"TXAK"} ELSE i2cr
  /\ IF pc = "counted" THEN UNCHANGED shift ELSE ReadI2DR(i2cr')
  /\ pc' = "await_byte" /\ i' = i + 1
  /\ UNCHANGED <<msgs, result, recovery, drv, i2sr, pm, history>>

-----------------------------------------------------------------------------

Driver ==
  \/ Start \/ StartBusy \/ Recover \/ StartFails \/ Restart \/ RestartFails
  \/ Stop \/ StopBusy \/ Disable
  \/ Address \/ TrxComplete \/ TrxTimeout \/ Refused \/ WriteByte \/ SetUpBus
  \/ \E n \in BlockLengths : BlockLength(n) \/ BlockLengthBad(n)
  \/ ReceiveStop \/ LastBusy \/ ReceiveLast \/ ReceiveNext

Controller ==
  Shifted \/ ArbitrationLost \/ BusTaken \/ BusFreed \/ Interrupt

Next ==
  \/ \E request \in Requests : Xfer(request)
  \/ XferResumeFails \/ RuntimeSuspend
  \/ Driver \/ Controller

Spec == Init /\ [][Next]_vars

\* The thread that called i2c_imx_xfer goes on, and its timeouts come.  The
\* controller and the slave need not do anything, and nobody has to call.
FairSpec == Spec /\ WF_vars(Driver)

-----------------------------------------------------------------------------

\* i2c_imx_xfer tells the truth: after success every byte of every message was
\* shifted and acknowledged as it should be, and nothing else was; after ENXIO
\* the slave refused the last byte it was sent.  It does not when the flag of
\* an earlier byte was left in i2csr (446-457), when arbitration is lost during
\* a byte (only bus_busy looks at IAL, 425), when a read asks for no byte (811)
\* or when a block has a single one (831 against 868).
AnswerIsTrue ==
  pc \in {"stop", "stop_busy", "disable"} /\ excuse = {} =>
    /\ result = "ok" => whole
    /\ result = "ENXIO" => wire # <<>> /\ ~wire[Len(wire)]

\* No byte is left in i2csr for the next transfer to trip over, unless this
\* transfer gave up on one: it timed out, a block had no proper length, or its
\* answer was unreliable already (545-574 stop without a look at i2csr).
StaleHasCause ==
  pc = "idle" /\ i2csr =>
    result \in {"ETIMEDOUT", "EPROTO", "resume"} \/ excuse # {}

\* A block is still to be measured, or what the slave sent was no length.
LengthUnread == Message.block /\ i = 0 /\ pc # "counted"

\* How many bytes may be clocked for what is known of a read.
MayClock ==
  IF Message.len = 0 \/ (LengthUnread /\ result # "EPROTO") THEN 1
  ELSE IF LengthUnread THEN 2 ELSE Message.len

\* Of what a slave sends every byte is acknowledged but the last, after which no
\* byte more is clocked (839-870, the comments of 841 and 853): in a read of any
\* length, however far it has come, and also when it fails on the way because
\* arbitration is lost or a wait times out.  There are four exceptions.  A read
\* of no byte clocks one and acknowledges it (808-811).  A block whose length is
\* not valid clocks one byte behind the length, and acknowledges it (831-833).
\* The only byte of a block of one may be acknowledged: it is under way when
\* TXAK is set (831, 868).  And nothing is said where the flag of another byte
\* was taken for the one that is awaited, because an earlier transfer left it in
\* i2csr, or a read of no byte was not the last message.
ReadBytesAcked ==
  pc # "idle" /\ Message.rd /\ excuse \cap {"stale", "no_address"} = {} =>
    /\ Len(wire) <= 1 + MayClock
    /\ \A k \in 1 .. Len(wire) - 1 :
         \/ wire[k + 1] = (LengthUnread \/ k # Message.len)
         \/ Message.block /\ ~LengthUnread /\ Message.len = 2 /\ k = 2

\* The clock runs whenever a register is accessed, by the transfer or by the
\* handler of an interrupt, and the usage count is given back, unless the clock
\* could not be switched on (899-901).
ClockRuns ==
  /\ pc # "idle" \/ i2cr # {} => clk = "on"
  /\ pc = "idle" /\ clk # "error" => usage = 0

\* How far a transfer is from its end, the most significant part first.
\* START, which recovery of the bus may bring back once; the messages; STOP.
Part ==
  CASE pc \in {"start", "start_busy"} -> IF recovery = "possible" THEN 3 ELSE 2
    [] pc \in {"stop", "stop_busy", "disable", "idle"} -> 0
    [] OTHER -> 1

MessagesToGo == IF Part = 1 THEN Len(msgs) ELSE 0

\* The address of a message; the length of a block, which makes the message
\* longer; its bytes.
Stage ==
  CASE Part # 1 -> 0
    [] pc \in {"restart", "address", "await_address", "address_done"} -> 3
    [] pc \in {"await_byte", "byte_done"}
         /\ Message.rd /\ Message.block /\ i = 0 -> 2
    [] OTHER -> 1

BytesToGo == IF Stage = 1 THEN Message.len - i ELSE 0

StepsToGo ==
  CASE pc = "restart" -> 4
    [] pc \in {"address", "stop"} -> 3
    [] pc \in {"start", "await_address", "await_byte", "stop_busy"} -> 2
    [] pc \in {"start_busy", "address_done", "byte_done", "counted",
               "disable"} -> 1
    [] pc \in {"last_busy", "idle"} -> 0

Rank == <<Part, MessagesToGo, Stage, BytesToGo, StepsToGo>>

Lower(a, b) ==
  \E k \in 1 .. 5 : a[k] < b[k] /\ \A j \in 1 .. k - 1 : a[j] = b[j]

\* Whatever the slave, the bus and the interrupt do, each step of i2c_imx_xfer
\* brings it nearer to its end, in an order in which nothing goes down for
\* ever, and nothing else takes it back: one recovery (905-909), and a block
\* whose length the slave decides only once (821-833).
TransferIsBounded ==
  [][pc # "idle" =>
       /\ \A k \in 1 .. 5 : Rank[k] \in Nat
       /\ IF pc' = pc THEN Rank' = Rank ELSE Lower(Rank', Rank)]_vars

\* Every transfer ends, with a slave that is dead, too (421-441, 448).
TransferEnds == pc # "idle" ~> pc = "idle"
=============================================================================
