------------------------------- MODULE Eeprom -------------------------------
(***************************************************************************)
(* The ioctl of my_eeprom, called by several processes at once; the driver *)
(* has no lock of its own.  i2c_transfer holds the lock of the adapter, so *)
(* that the messages of one call go over the bus as one.  After a write    *)
(* the chip is busy for some milliseconds and acknowledges nothing; the    *)
(* writer sends it a byte, which sets its address counter to zero, until   *)
(* it is acknowledged.  The driver is bound and stays bound.               *)
(***************************************************************************)
EXTENDS Integers, Sequences

CONSTANTS
  Processes,
  Size,      \* MY_EEPROM_MAX_SIZE; also the range of a u8
  Word,      \* the range of a uint32_t
  Tries,     \* of wait_eeprom_ready
  Cycle,     \* milliseconds the chip is busy after a write, at most
  Byte,
  Requests,  \* what the processes may ask for
  Faults     \* what may go wrong: "copy", "bus"

ASSUME EepromAssumption ==
  /\ Size \in Nat \ {0}
  /\ Word \in Nat /\ Word > Size /\ Word % Size = 0  \* 2^32 and 256
  /\ Tries \in Nat
  /\ Cycle \in Nat \ {0}
  /\ Faults \subseteq {"copy", "bus"}

Address == 0 .. Size - 1
Offset == 0 .. Word - 1

\* A write of the whole memory is left out: with the byte of its offset it
\* is longer than the buffer it is put together in (see README).
ASSUME RequestsAssumption ==
  \A r \in Requests :
    /\ r \in [cmd : {"READ", "WRITE", "other"}, offset : Offset,
              count : 0 .. Size, data : Seq(Byte)]
    /\ r.cmd = "WRITE" => r.count = Len(r.data) /\ r.count < Size

NoRequest == [cmd |-> "none", offset |-> 0, count |-> 0, data |-> <<>>]

VARIABLES
  mem,       \* the bytes stored in the chip
  cursor,    \* the chip's address counter
  left,      \* milliseconds the chip is still busy
  writer,    \* history: whose write it is busy with, in a set
  pc,        \* where each process is
  req,       \* eeprom_data, while the process is in the driver
  buf,       \* the bytes read, while the process is in the driver
  retries,   \* of wait_eeprom_ready
  rested,    \* msleep(1) has lasted a millisecond
  ret,       \* the answer to the last call, "-1" during a call
  disturbed  \* history: its wait, up to a timeout, met a bus error or the
             \* write of another

chipVars == <<mem, cursor, left, writer>>
procVars == <<pc, req, buf, retries, rested, ret, disturbed>>
vars == <<chipVars, procVars>>

Errors == {"EFAULT", "EINVAL", "EIO", "ETIMEDOUT"}

TypeOK ==
  /\ mem \in [Address -> Byte]
  /\ cursor \in Address
  /\ left \in 0 .. Cycle
  /\ writer \subseteq Processes
  /\ pc \in [Processes -> {"app", "ioctl", "copy", "poll", "msleep"}]
  /\ req \in [Processes -> Requests \cup {NoRequest}]
  /\ buf \in [Processes -> Seq(Byte)]
  /\ retries \in [Processes -> 0 .. Tries]
  /\ rested \in [Processes -> BOOLEAN]
  /\ ret \in [Processes -> Errors \cup {"0", "-1"}]
  /\ disturbed \in [Processes -> BOOLEAN]

Init ==
  /\ mem \in [Address -> Byte]
  /\ cursor = 0
  /\ left = 0
  /\ writer = {}
  /\ pc = [p \in Processes |-> "app"]
  /\ req = [p \in Processes |-> NoRequest]
  /\ buf = [p \in Processes |-> <<>>]
  /\ retries = [p \in Processes |-> 0]
  /\ rested = [p \in Processes |-> FALSE]
  /\ ret = [p \in Processes |-> "-1"]
  /\ disturbed = [p \in Processes |-> FALSE]

-----------------------------------------------------------------------------
(* The chip.                                                               *)

Busy == left > 0

\* The address counter goes round at the end of the memory.
Cell(from, i) == (from + i - 1) % Size

\* The message of a write: the offset and then the bytes, which may be cut
\* short.  The chip is busy afterwards if it got any byte to store.
Receive(p, offset, bytes) ==
  /\ ~Busy
  /\ mem' = [a \in Address |->
               LET i == ((a - offset) % Size) + 1
               IN IF i <= Len(bytes) THEN bytes[i] ELSE mem[a]]
  /\ cursor' = Cell(offset, Len(bytes) + 1)
  /\ IF bytes = <<>> THEN UNCHANGED <<left, writer>>
                     ELSE left' \in 1 .. Cycle /\ writer' = {p}

\* A millisecond goes by.
Tick ==
  /\ Busy \/ \E p \in Processes : pc[p] = "msleep" /\ ~rested[p]
  /\ left' = IF Busy THEN left - 1 ELSE 0
  /\ writer' = IF left > 1 THEN writer ELSE {}
  /\ rested' = [p \in Processes |-> pc[p] = "msleep"]
  /\ UNCHANGED <<mem, cursor, pc, req, buf, retries, ret, disturbed>>

-----------------------------------------------------------------------------
(* my_eeprom_ioctl.                                                        *)

Goto(p, from, to) ==
  /\ pc[p] = from
  /\ pc' = [pc EXCEPT ![p] = to]

Return(p, from, answer) ==
  /\ Goto(p, from, "app")
  /\ ret' = [ret EXCEPT ![p] = answer]
  /\ req' = [req EXCEPT ![p] = NoRequest]
  /\ buf' = [buf EXCEPT ![p] = <<>>]
  /\ retries' = [retries EXCEPT ![p] = 0]
  /\ disturbed' = [disturbed EXCEPT ![p] = answer = "ETIMEDOUT" /\ @]
  /\ UNCHANGED rested

Ioctl(p, r) ==
  /\ Goto(p, "app", "ioctl")
  /\ req' = [req EXCEPT ![p] = r]
  /\ ret' = [ret EXCEPT ![p] = "-1"]
  /\ disturbed' = [disturbed EXCEPT ![p] = FALSE]
  /\ UNCHANGED <<chipVars, buf, retries, rested>>

\* The request, or the bytes to write, cannot be copied.
CopyFromUserFails(p) ==
  /\ "copy" \in Faults
  /\ Return(p, "ioctl", "EFAULT")
  /\ UNCHANGED chipVars

U32(x) == x % Word
U8(x) == x % Size

\* The checks of a write, in the arithmetic of uint32_t.
Exceeds(offset, count) ==
  \/ U32(offset + count - 1) >= Size
  \/ count > U32(Size - offset)

InvalidArgument(p) ==
  /\ \/ req[p].cmd = "other"
     \/ req[p].cmd = "WRITE" /\ Exceeds(req[p].offset, req[p].count)
  /\ Return(p, "ioctl", "EINVAL")
  /\ UNCHANGED chipVars

\* Seeded bug: the two messages are not one transfer, so that the address
\* counter may have been moved in between.
ReadFromCursor(p) ==
  /\ Goto(p, "ioctl", "copy")
  /\ req[p].cmd = "READ"
  /\ ~Busy
  /\ buf' = [buf EXCEPT ![p] = [i \in 1 .. req[p].count |->
                                  mem[Cell(cursor, i)]]]
  /\ cursor' = Cell(cursor, req[p].count + 1)
  /\ UNCHANGED <<mem, left, writer, req, retries, rested, ret, disturbed>>

\* Both messages of a read: the offset, in a u8, and the bytes.
ReadTransfer(p) ==
  /\ Goto(p, "ioctl", "copy")
  /\ req[p].cmd = "READ"
  /\ ~Busy
  /\ LET offset == U8(req[p].offset)
     IN /\ buf' = [buf EXCEPT ![p] = [i \in 1 .. req[p].count |->
                                        mem[Cell(offset, i)]]]
        /\ cursor' = Cell(offset, req[p].count + 1)
  /\ UNCHANGED <<mem, left, writer, req, retries, rested, ret, disturbed>>

ReadFails(p) ==
  /\ Busy \/ "bus" \in Faults
  /\ req[p].cmd = "READ"
  /\ Return(p, "ioctl", "EIO")
  /\ UNCHANGED chipVars

CopyToUser(p) ==
  /\ \E answer \in {"0"} \cup (IF "copy" \in Faults THEN {"EFAULT"} ELSE {}) :
       Return(p, "copy", answer)
  /\ UNCHANGED chipVars

MayWrite(p) ==
  req[p].cmd = "WRITE" /\ ~Exceeds(req[p].offset, req[p].count)

\* Whoever waits now for the end of its own write has met another one.
Disturb(p) ==
  disturbed' = [q \in Processes |->
                  disturbed[q] \/ (q # p /\ pc[q] \in {"poll", "msleep"})]

\* Seeded bug: `while (--retries)', one try less.
WriteAndTryLess(p) ==
  /\ Goto(p, "ioctl", "poll")
  /\ MayWrite(p)
  /\ Receive(p, U8(req[p].offset), req[p].data)
  /\ retries' = [retries EXCEPT ![p] = Tries - 1]
  /\ Disturb(p)
  /\ UNCHANGED <<req, buf, rested, ret>>

WriteTransfer(p) ==
  /\ Goto(p, "ioctl", "poll")
  /\ MayWrite(p)
  /\ Receive(p, U8(req[p].offset), req[p].data)
  /\ retries' = [retries EXCEPT ![p] = Tries]
  /\ Disturb(p)
  /\ UNCHANGED <<req, buf, rested, ret>>

WriteFails(p) ==
  /\ MayWrite(p)
  /\ Busy \/ "bus" \in Faults
  /\ Return(p, "ioctl", "EIO")
  /\ UNCHANGED chipVars

\* The bus fails in the middle of a write.
WriteBreaksOff(p) ==
  /\ MayWrite(p)
  /\ "bus" \in Faults
  /\ \E n \in 0 .. req[p].count - 1 :
       Receive(p, U8(req[p].offset), SubSeq(req[p].data, 1, n))
  /\ Goto(p, "ioctl", "app")
  /\ ret' = [ret EXCEPT ![p] = "EIO"]
  /\ req' = [req EXCEPT ![p] = NoRequest]
  /\ buf' = [buf EXCEPT ![p] = <<>>]
  /\ Disturb(p)
  /\ UNCHANGED <<retries, rested>>

-----------------------------------------------------------------------------
(* wait_eeprom_ready: up to Tries bytes, each followed by msleep(1).       *)

\* Seeded bug: any result of the transfer is taken for success.
AnyResultIsReady(p) ==
  /\ retries[p] > 0
  /\ cursor' = 0
  /\ Return(p, "poll", "0")
  /\ UNCHANGED <<mem, left, writer>>

Ready(p) ==
  /\ retries[p] > 0
  /\ ~Busy
  /\ cursor' = 0
  /\ Return(p, "poll", "0")
  /\ UNCHANGED <<mem, left, writer>>

\* Seeded bug: it is tried until the chip answers.
TryForEver(p) ==
  /\ Goto(p, "poll", "msleep")
  /\ Busy \/ "bus" \in Faults
  /\ disturbed' = [disturbed EXCEPT ![p] = @ \/ ~Busy]
  /\ rested' = [rested EXCEPT ![p] = FALSE]
  /\ UNCHANGED <<chipVars, req, buf, retries, ret>>

NotReady(p) ==
  /\ retries[p] > 0
  /\ Goto(p, "poll", "msleep")
  /\ Busy \/ "bus" \in Faults
  /\ disturbed' = [disturbed EXCEPT ![p] = @ \/ ~Busy]
  /\ retries' = [retries EXCEPT ![p] = @ - 1]
  /\ rested' = [rested EXCEPT ![p] = FALSE]
  /\ UNCHANGED <<chipVars, req, buf, ret>>

Msleep(p) ==
  /\ rested[p]
  /\ Goto(p, "msleep", "poll")
  /\ rested' = [rested EXCEPT ![p] = FALSE]
  /\ UNCHANGED <<chipVars, req, buf, retries, ret, disturbed>>

TimedOut(p) ==
  /\ retries[p] = 0
  /\ Return(p, "poll", "ETIMEDOUT")
  /\ UNCHANGED chipVars

-----------------------------------------------------------------------------
Driver(p) ==
  \/ CopyFromUserFails(p) \/ InvalidArgument(p)
  \/ ReadTransfer(p) \/ ReadFails(p) \/ CopyToUser(p)
  \/ WriteTransfer(p) \/ WriteFails(p) \/ WriteBreaksOff(p)
  \/ Ready(p) \/ NotReady(p) \/ Msleep(p) \/ TimedOut(p)

Next ==
  \/ \E p \in Processes : (\E r \in Requests : Ioctl(p, r)) \/ Driver(p)
  \/ Tick

Spec == Init /\ [][Next]_vars

\* The scheduler runs every process that can run, and time goes on.
FairSpec == Spec /\ WF_vars(Tick) /\ \A p \in Processes : WF_vars(Driver(p))

-----------------------------------------------------------------------------
(* What is checked.                                                        *)

\* A write is answered with success only when the chip is through with it:
\* the acknowledgement that ends wait_eeprom_ready cannot come earlier,
\* whichever process's bytes keep the chip busy meanwhile.
SuccessIsDone ==
  \A p \in Processes : pc[p] = "app" /\ ret[p] = "0" => p \notin writer

\* As long as the chip is busy for less than the tries of wait_eeprom_ready
\* last, a write is answered with ETIMEDOUT only if it met a bus error, or
\* another process's write kept the chip busy again.
TimeoutNeedsCompany ==
  \A p \in Processes :
    pc[p] = "app" /\ ret[p] = "ETIMEDOUT" => disturbed[p]

\* Every call comes back, although other processes may keep the chip busy.
CallEnds == \A p \in Processes : pc[p] # "app" ~> pc[p] = "app"

\* How many steps a call takes at most from here on: transfers and sleeps.
StepsLeft(p) ==
  CASE pc[p] = "app"    -> 0
    [] pc[p] = "copy"   -> 1
    [] pc[p] = "poll"   -> 2 * retries[p] + 1
    [] pc[p] = "msleep" -> 2 * retries[p] + 2
    [] pc[p] = "ioctl"  -> 2 * Tries + 2

\* A call takes at most 2 * Tries + 2 steps of its own, whatever the chip, the
\* bus and the other processes do meanwhile (the loop of lines 36-44): each
\* step leaves fewer to do, and nobody adds any.
CallIsBounded ==
  [][\A p \in Processes :
       pc[p] # "app" =>
         IF pc'[p] = pc[p] THEN StepsLeft(p)' = StepsLeft(p)
                           ELSE StepsLeft(p)' < StepsLeft(p)]_vars

\* No data is sent that "exceeds max size" (line 101): a write that passes
\* the checks of lines 99-100 lies inside the memory.  (One at the last offset
\* of a uint32_t passes them and changes the last and the first byte.)
AcceptedWriteFits ==
  \A p \in Processes :
    pc[p] = "poll" => req[p].offset + req[p].count <= Size

Phase ==
  [p \in Processes |-> CASE pc[p] = "app"   -> "out"
                         [] pc[p] = "ioctl" -> "asked"
                         [] OTHER           -> "done"]

\* To its callers the driver is a memory (EepromMemory): writes and reads of
\* several bytes take effect at once, at the address that was asked for.
Memory == INSTANCE EepromMemory WITH phase <- Phase

ImplementsMemory == Memory!Spec
=============================================================================
