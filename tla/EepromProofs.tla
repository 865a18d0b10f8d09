---------------------------- MODULE EepromProofs ----------------------------
(***************************************************************************)
(* Theorems about Eeprom, for any number of processes and any sizes.       *)
(***************************************************************************)
EXTENDS Eeprom, TLAPS

\* Numbers inside the modulus are left alone, those just below zero wrap.
LEMMA ModSmall ==
  ASSUME NEW n \in Nat \ {0}, NEW x \in 0 .. n - 1
  PROVE  x % n = x
  BY SMT

LEMMA ModBelow ==
  ASSUME NEW n \in Nat \ {0}, NEW x \in -n .. -1
  PROVE  x % n = x + n
  BY SMT

LEMMA ModRange ==
  ASSUME NEW n \in Nat \ {0}, NEW x \in Int
  PROVE  x % n \in 0 .. n - 1
  BY SMT

\* Every request has the fields its command needs.
LEMMA RequestTyped ==
  ASSUME NEW r \in Requests
  PROVE  /\ r.cmd \in {"READ", "WRITE", "other"}
         /\ r.offset \in Nat /\ r.count \in Nat
         /\ r.data \in Seq(Byte)
         /\ r.cmd = "WRITE" => r.count = Len(r.data) /\ r.count < Size
         /\ r # NoRequest
  BY RequestsAssumption, EepromAssumption DEF Offset, NoRequest

\* What a u8 holds is an address, and so is what the chip counts to.
LEMMA OffsetInMemory ==
  ASSUME NEW r \in Requests
  PROVE  U8(r.offset) \in Address
  <1>1. r.offset \in Int
    BY RequestTyped
  <1> QED
    BY <1>1, ModRange, EepromAssumption DEF U8, Address

LEMMA CellInMemory ==
  ASSUME NEW first \in Address, NEW i \in Int
  PROVE  Cell(first, i) \in Address
  <1>1. first + i - 1 \in Int
    BY EepromAssumption DEF Address
  <1> QED
    BY <1>1, ModRange, EepromAssumption DEF Cell, Address

LEMMA BytesRead ==
  ASSUME NEW first \in Address, NEW n \in Nat, TypeOK
  PROVE  [i \in 1 .. n |-> mem[Cell(first, i)]] \in Seq(Byte)
  <1>1. \A i \in 1 .. n : mem[Cell(first, i)] \in Byte
    BY CellInMemory DEF TypeOK
  <1> QED
    BY <1>1

-----------------------------------------------------------------------------
(* Types.  A process that is in the ioctl has a request.                   *)

Asked == \A p \in Processes : pc[p] = "ioctl" => req[p] \in Requests

TypeInv == TypeOK /\ Asked

LEMMA ReturnTyped ==
  ASSUME TypeInv, NEW p \in Processes, NEW from,
         NEW answer \in Errors \cup {"0"}, Return(p, from, answer)
  PROVE  /\ pc' \in [Processes -> {"app", "ioctl", "copy", "poll", "msleep"}]
         /\ req' \in [Processes -> Requests \cup {NoRequest}]
         /\ buf' \in [Processes -> Seq(Byte)]
         /\ retries' \in [Processes -> 0 .. Tries]
         /\ rested' \in [Processes -> BOOLEAN]
         /\ ret' \in [Processes -> Errors \cup {"0", "-1"}]
         /\ disturbed' \in [Processes -> BOOLEAN]
         /\ Asked'
  <1>1. <<>> \in Seq(Byte)
    OBVIOUS
  <1>2. 0 \in 0 .. Tries
    BY EepromAssumption
  <1> QED
    BY <1>1, <1>2 DEF TypeInv, TypeOK, Asked, Return, Goto

\* A message finds the chip idle and may leave it busy.
LEMMA ReceiveEffect ==
  ASSUME NEW p, NEW offset, NEW bytes, Receive(p, offset, bytes)
  PROVE  /\ ~Busy
         /\ \/ left' = left /\ writer' = writer
            \/ left' \in 1 .. Cycle /\ writer' = {p}
  BY DEF Receive

LEMMA ReceiveTyped ==
  ASSUME TypeInv, NEW p \in Processes, NEW offset \in Address,
         NEW bytes \in Seq(Byte), Receive(p, offset, bytes)
  PROVE  /\ mem' \in [Address -> Byte]
         /\ cursor' \in Address
         /\ left' \in 0 .. Cycle
         /\ writer' \subseteq Processes
  <1>1. mem' \in [Address -> Byte]
    <2>1. ASSUME NEW a \in Address
          PROVE  (a - offset) % Size \in 0 .. Size - 1
      BY EepromAssumption, ModRange DEF Address
    <2> QED
      BY <2>1, EepromAssumption DEF Receive, TypeInv, TypeOK
  <1>2. cursor' \in Address
    <2>1. Len(bytes) + 1 \in Int
      OBVIOUS
    <2> QED
      BY <2>1, CellInMemory DEF Receive
  <1>3. left' \in 0 .. Cycle /\ writer' \subseteq Processes
    BY EepromAssumption DEF Receive, TypeInv, TypeOK
  <1> QED
    BY <1>1, <1>2, <1>3

LEMMA TypeStep == TypeInv /\ [Next]_vars => TypeInv'
  <1> SUFFICES ASSUME TypeInv, [Next]_vars
               PROVE  TypeInv'
    OBVIOUS
  <1> USE EepromAssumption
  <1>1. CASE UNCHANGED vars
    BY <1>1 DEF vars, chipVars, procVars, TypeInv, TypeOK, Asked
  <1>2. CASE Tick
    BY <1>2 DEF Tick, Busy, TypeInv, TypeOK, Asked
  <1>3. ASSUME NEW p \in Processes, NEW r \in Requests, Ioctl(p, r)
        PROVE  TypeInv'
    BY <1>3 DEF Ioctl, Goto, chipVars, TypeInv, TypeOK, Asked
  <1>4. ASSUME NEW p \in Processes, NEW from,
               NEW answer \in Errors \cup {"0"}, Return(p, from, answer),
               UNCHANGED <<mem, left, writer>>, cursor' \in Address
        PROVE  TypeInv'
    BY <1>4, ReturnTyped DEF TypeInv, TypeOK
  <1>5. ASSUME NEW p \in Processes, Driver(p)
        PROVE  TypeInv'
    <2>1. CASE CopyFromUserFails(p) \/ InvalidArgument(p) \/ ReadFails(p)
               \/ CopyToUser(p) \/ WriteFails(p) \/ TimedOut(p)
      BY <2>1, <1>4 DEF CopyFromUserFails, InvalidArgument, ReadFails,
           CopyToUser, WriteFails, TimedOut, Errors, chipVars, TypeInv, TypeOK
    <2>2. CASE Ready(p)
      BY <2>2, <1>4 DEF Ready, Address
    <2>3. CASE ReadTransfer(p)
      <3>1. req[p] \in Requests
        BY <2>3 DEF ReadTransfer, Goto, TypeInv, Asked
      <3>2. PICK first \in Address :
              /\ buf' = [buf EXCEPT ![p] = [i \in 1 .. req[p].count |->
                                             mem[Cell(first, i)]]]
              /\ cursor' = Cell(first, req[p].count + 1)
        BY <2>3, <3>1, OffsetInMemory DEF ReadTransfer
      <3>3. req[p].count \in Nat
        BY <3>1, RequestTyped
      <3>4. [i \in 1 .. req[p].count |-> mem[Cell(first, i)]] \in Seq(Byte)
        BY <3>3, BytesRead DEF TypeInv
      <3>5. Cell(first, req[p].count + 1) \in Address
        BY <3>3, CellInMemory
      <3>6. buf' \in [Processes -> Seq(Byte)] /\ cursor' \in Address
        BY <3>2, <3>4, <3>5 DEF TypeInv, TypeOK
      <3> QED
        BY <2>3, <3>6 DEF ReadTransfer, Goto, TypeInv, TypeOK, Asked
    <2>4. ASSUME MayWrite(p), pc[p] = "ioctl"
          PROVE  /\ U8(req[p].offset) \in Address
                 /\ req[p].data \in Seq(Byte)
                 /\ \A n \in 0 .. req[p].count - 1 :
                      SubSeq(req[p].data, 1, n) \in Seq(Byte)
      <3>1. req[p] \in Requests /\ req[p].cmd = "WRITE"
        BY <2>4 DEF MayWrite, TypeInv, Asked
      <3>2. req[p].data \in Seq(Byte) /\ req[p].count = Len(req[p].data)
        BY <3>1, RequestTyped
      <3>3. \A n \in 0 .. req[p].count - 1 :
              SubSeq(req[p].data, 1, n) \in Seq(Byte)
        BY <3>2
      <3> QED
        BY <3>1, <3>2, <3>3, OffsetInMemory
    <2>5. CASE WriteTransfer(p)
      BY <2>4, <2>5, ReceiveTyped
         DEF WriteTransfer, Goto, Disturb, TypeInv, TypeOK, Asked
    <2>6. CASE WriteBreaksOff(p)
      <3>1. /\ mem' \in [Address -> Byte] /\ cursor' \in Address
            /\ left' \in 0 .. Cycle /\ writer' \subseteq Processes
        BY <2>4, <2>6, ReceiveTyped DEF WriteBreaksOff, Goto
      <3> QED
        BY <2>6, <3>1 DEF WriteBreaksOff, Goto, Disturb, Errors, TypeInv,
             TypeOK, Asked
    <2>7. CASE NotReady(p)
      BY <2>7 DEF NotReady, Goto, chipVars, TypeInv, TypeOK, Asked
    <2>8. CASE Msleep(p)
      BY <2>8 DEF Msleep, Goto, chipVars, TypeInv, TypeOK, Asked
    <2> QED
      BY <1>5, <2>1, <2>2, <2>3, <2>5, <2>6, <2>7, <2>8 DEF Driver
  <1> QED
    BY <1>1, <1>2, <1>3, <1>5 DEF Next

LEMMA TypeInvariance == Spec => []TypeInv
  <1>1. Init => TypeInv
    <2>1. <<>> \in Seq(Byte)
      OBVIOUS
    <2> QED
      BY <2>1, EepromAssumption DEF Init, TypeInv, TypeOK, Asked, Address
  <1> QED
    BY <1>1, TypeStep, PTL DEF Spec

\* Every variable keeps its type; the retries of wait_eeprom_ready never
\* pass below zero, and a transfer stays inside the memory.
THEOREM TypeCorrect == Spec => []TypeOK
  <1>1. TypeInv => TypeOK
    BY DEF TypeInv
  <1> QED
    BY <1>1, TypeInvariance, PTL

-----------------------------------------------------------------------------
(* Success.  The chip only has a writer while it is busy, and it is busy   *)
(* for no process that reads.                                              *)

WriterInv ==
  /\ ~Busy => writer = {}
  /\ \A p \in Processes : pc[p] = "copy" => p \notin writer

SuccessInv == WriterInv /\ SuccessIsDone

LEMMA SuccessStep == TypeInv /\ SuccessInv /\ [Next]_vars => SuccessInv'
  <1> SUFFICES ASSUME TypeInv, SuccessInv, [Next]_vars
               PROVE  SuccessInv'
    OBVIOUS
  <1> USE EepromAssumption DEF SuccessInv, WriterInv, SuccessIsDone, Busy
  <1>1. CASE UNCHANGED vars
    BY <1>1 DEF vars, chipVars, procVars
  <1>2. CASE Tick
    BY <1>2 DEF Tick, TypeInv, TypeOK
  <1>3. ASSUME NEW p \in Processes, NEW r \in Requests, Ioctl(p, r)
        PROVE  SuccessInv'
    BY <1>3 DEF Ioctl, Goto, chipVars, TypeInv, TypeOK
  <1>4. ASSUME NEW p \in Processes, NEW from, NEW answer \in Errors \cup {"0"},
               Return(p, from, answer), UNCHANGED <<left, writer>>,
               answer = "0" => p \notin writer
        PROVE  SuccessInv'
    BY <1>4 DEF Return, Goto, TypeInv, TypeOK
  <1>5. ASSUME NEW p \in Processes, Driver(p)
        PROVE  SuccessInv'
    <2>1. CASE CopyFromUserFails(p) \/ InvalidArgument(p) \/ ReadFails(p)
               \/ WriteFails(p) \/ TimedOut(p)
      BY <2>1, <1>4 DEF CopyFromUserFails, InvalidArgument, ReadFails,
           WriteFails, TimedOut, Errors, chipVars
    <2>2. CASE CopyToUser(p)
      <3>1. pc[p] = "copy"
        BY <2>2 DEF CopyToUser, Return, Goto
      <3> QED
        BY <2>2, <3>1, <1>4 DEF CopyToUser, Errors, chipVars
    <2>3. CASE Ready(p)
      BY <2>3, <1>4 DEF Ready
    <2>4. CASE ReadTransfer(p)
      BY <2>4 DEF ReadTransfer, Goto, TypeInv, TypeOK
    <2>5. CASE WriteTransfer(p)
      BY <2>5 DEF WriteTransfer, Goto, Receive, TypeInv, TypeOK
    <2>6. CASE WriteBreaksOff(p)
      <3>1. /\ ~Busy
            /\ \/ left' = left /\ writer' = writer
               \/ left' \in 1 .. Cycle /\ writer' = {p}
        BY <2>6, ReceiveEffect DEF WriteBreaksOff
      <3>2. CASE left' = left /\ writer' = writer
        BY <2>6, <3>2 DEF WriteBreaksOff, Goto, TypeInv, TypeOK
      <3>3. CASE left' \in 1 .. Cycle /\ writer' = {p}
        BY <2>6, <3>3 DEF WriteBreaksOff, Goto, TypeInv, TypeOK
      <3> QED
        BY <3>1, <3>2, <3>3
    <2>7. CASE NotReady(p)
      BY <2>7 DEF NotReady, Goto, chipVars, TypeInv, TypeOK
    <2>8. CASE Msleep(p)
      BY <2>8 DEF Msleep, Goto, chipVars, TypeInv, TypeOK
    <2> QED
      BY <1>5, <2>1, <2>2, <2>3, <2>4, <2>5, <2>6, <2>7, <2>8 DEF Driver
  <1> QED
    BY <1>1, <1>2, <1>3, <1>5 DEF Next

\* A write is answered with success only when the chip is through with it,
\* for any number of processes that compete for the chip, and any faults.
THEOREM SuccessMeansDone == Spec => []SuccessIsDone
  <1>1. Init => SuccessInv
    BY DEF Init, SuccessInv, WriterInv, SuccessIsDone, Busy
  <1>2. SuccessInv => SuccessIsDone
    BY DEF SuccessInv
  <1> QED
    BY <1>1, <1>2, SuccessStep, TypeInvariance, PTL DEF Spec

-----------------------------------------------------------------------------
(* The timeout.  In an undisturbed wait every try that failed met the chip *)
(* at work for this very write, and was followed by a millisecond: the     *)
(* failed tries and the time that is left fit together into one cycle.     *)

Failed(p) == Tries - retries[p]
Slept(p) == IF pc[p] = "msleep" /\ ~rested[p] THEN Failed(p) - 1 ELSE Failed(p)

WaitInv ==
  \A p \in Processes :
    pc[p] \in {"poll", "msleep"} /\ ~disturbed[p] =>
      /\ Failed(p) <= Cycle
      /\ Busy => left + Slept(p) <= Cycle

TimeoutInv == WaitInv /\ TimeoutNeedsCompany

LEMMA TimeoutStep ==
  ASSUME Cycle < Tries
  PROVE  TypeInv /\ TimeoutInv /\ [Next]_vars => TimeoutInv'
  <1> SUFFICES ASSUME TypeInv, TimeoutInv, [Next]_vars
               PROVE  TimeoutInv'
    OBVIOUS
  <1> USE EepromAssumption
      DEF TimeoutInv, WaitInv, TimeoutNeedsCompany, Failed, Slept, Busy
  <1>1. CASE UNCHANGED vars
    BY <1>1 DEF vars, chipVars, procVars
  <1>2. CASE Tick
    BY <1>2 DEF Tick, TypeInv, TypeOK
  <1>3. ASSUME NEW p \in Processes, NEW r \in Requests, Ioctl(p, r)
        PROVE  TimeoutInv'
    BY <1>3 DEF Ioctl, Goto, chipVars, TypeInv, TypeOK
  <1>4. ASSUME NEW p \in Processes, NEW from, NEW answer \in Errors \cup {"0"},
               Return(p, from, answer), UNCHANGED left,
               answer = "ETIMEDOUT" => disturbed[p]
        PROVE  TimeoutInv'
    BY <1>4 DEF Return, Goto, TypeInv, TypeOK
  <1>5. ASSUME NEW p \in Processes, Driver(p)
        PROVE  TimeoutInv'
    <2>1. CASE CopyFromUserFails(p) \/ InvalidArgument(p) \/ ReadFails(p)
               \/ CopyToUser(p) \/ WriteFails(p) \/ Ready(p)
      BY <2>1, <1>4 DEF CopyFromUserFails, InvalidArgument, ReadFails,
           CopyToUser, WriteFails, Ready, Errors, chipVars
    <2>2. CASE TimedOut(p)
      <3>1. disturbed[p]
        BY <2>2 DEF TimedOut, Return, Goto, TypeInv, TypeOK
      <3> QED
        BY <2>2, <3>1, <1>4 DEF TimedOut, Errors, chipVars
    <2>3. CASE ReadTransfer(p)
      BY <2>3 DEF ReadTransfer, Goto, TypeInv, TypeOK
    <2>4. ASSUME ~Busy, left' \in 0 .. Cycle, Disturb(p), UNCHANGED rested,
                 \A q \in Processes \ {p} :
                   /\ pc'[q] = pc[q] /\ ret'[q] = ret[q]
                   /\ retries'[q] = retries[q],
                 pc'[p] = "poll" => retries'[p] = Tries,
                 pc'[p] \in {"poll", "app"},
                 pc'[p] = "app" => ret'[p] # "ETIMEDOUT"
          PROVE  TimeoutInv'
      <3>1. \A q \in Processes \ {p} :
              pc[q] \in {"poll", "msleep"} => disturbed'[q]
        BY <2>4, Zenon DEF Disturb, TypeInv, TypeOK
      <3>2. \A q \in Processes : disturbed[q] => disturbed'[q]
        BY <2>4, Zenon DEF Disturb, TypeInv, TypeOK
      <3>3. pc'[p] # "app" => /\ Failed(p)' <= Cycle
                              /\ Busy' => left' + Slept(p)' <= Cycle
        BY <2>4
      <3>4. WaitInv'
        BY <2>4, <3>1, <3>3
      <3>5. TimeoutNeedsCompany'
        BY <2>4, <3>2
      <3> QED
        BY <3>4, <3>5
    <2>5. CASE WriteTransfer(p)
      <3>1. ~Busy /\ left' \in 0 .. Cycle
        BY <2>5, ReceiveEffect DEF WriteTransfer, TypeInv, TypeOK
      <3> QED
        BY <2>5, <2>4, <3>1 DEF WriteTransfer, Goto, TypeInv, TypeOK
    <2>6. CASE WriteBreaksOff(p)
      <3>1. ~Busy /\ left' \in 0 .. Cycle
        BY <2>6, ReceiveEffect DEF WriteBreaksOff, TypeInv, TypeOK
      <3> QED
        BY <2>6, <2>4, <3>1 DEF WriteBreaksOff, Goto, TypeInv, TypeOK
    <2>7. CASE NotReady(p)
      <3>1. /\ ~disturbed'[p] => ~disturbed[p] /\ Busy
            /\ \A q \in Processes \ {p} : disturbed'[q] = disturbed[q]
        BY <2>7, Zenon DEF NotReady, TypeInv, TypeOK
      <3>2. ~disturbed'[p] => /\ Failed(p)' <= Cycle
                              /\ Busy' => left' + Slept(p)' <= Cycle
        BY <2>7, <3>1 DEF NotReady, Goto, chipVars, TypeInv, TypeOK
      <3> QED
        BY <2>7, <3>1, <3>2 DEF NotReady, Goto, chipVars, TypeInv, TypeOK
    <2>8. CASE Msleep(p)
      BY <2>8 DEF Msleep, Goto, chipVars, TypeInv, TypeOK
    <2> QED
      BY <1>5, <2>1, <2>2, <2>3, <2>5, <2>6, <2>7, <2>8 DEF Driver
  <1> QED
    BY <1>1, <1>2, <1>3, <1>5 DEF Next

\* If the chip is busy for less than Tries milliseconds, no write times out
\* but by a bus error or by the write of another process.
THEOREM TimeoutsNeedCompany ==
  ASSUME Cycle < Tries
  PROVE  Spec => []TimeoutNeedsCompany
  <1>1. Init => TimeoutInv
    BY DEF Init, TimeoutInv, WaitInv, TimeoutNeedsCompany
  <1>2. TimeoutInv => TimeoutNeedsCompany
    BY DEF TimeoutInv
  <1> QED
    BY <1>1, <1>2, TimeoutStep, TypeInvariance, PTL DEF Spec

-----------------------------------------------------------------------------
(* The steps of a call.                                                    *)

\* Every call of the ioctl is over after at most 2 * Tries + 2 steps (lines
\* 36-45), with any number of processes, a chip that never answers, and
\* whatever fails: this is the part of CallEnds that needs no fairness.
THEOREM CallsAreBounded == Spec => CallIsBounded
  <1>1. TypeOK /\ [Next]_vars
          => [\A p \in Processes :
                pc[p] # "app" =>
                  IF pc'[p] = pc[p] THEN StepsLeft(p)' = StepsLeft(p)
                                    ELSE StepsLeft(p)' < StepsLeft(p)]_vars
    <2> SUFFICES ASSUME TypeOK, Next, NEW p \in Processes, pc[p] # "app"
                 PROVE  IF pc'[p] = pc[p] THEN StepsLeft(p)' = StepsLeft(p)
                                          ELSE StepsLeft(p)' < StepsLeft(p)
      OBVIOUS
    <2> USE EepromAssumption DEF TypeOK
    <2>1. CASE Tick
      BY <2>1 DEF Tick, StepsLeft
    <2>2. ASSUME NEW q \in Processes, NEW r \in Requests, Ioctl(q, r)
          PROVE  UNCHANGED <<pc[p], retries[p]>>
      BY <2>2 DEF Ioctl, Goto
    <2>3. ASSUME NEW q \in Processes, q # p, Driver(q)
          PROVE  UNCHANGED <<pc[p], retries[p]>>
      BY <2>3 DEF Driver, CopyFromUserFails, InvalidArgument, ReadTransfer,
           ReadFails, CopyToUser, WriteTransfer, WriteFails, WriteBreaksOff,
           Ready, NotReady, Msleep, TimedOut, Return, Goto
    <2>4. CASE Driver(p)
      <3>1. CASE pc'[p] = "app"
        BY <3>1 DEF StepsLeft
      <3>2. CASE ReadTransfer(p) \/ WriteTransfer(p)
        BY <3>2 DEF ReadTransfer, WriteTransfer, Goto, StepsLeft
      <3>3. CASE NotReady(p) \/ Msleep(p)
        BY <3>3 DEF NotReady, Msleep, Goto, StepsLeft
      <3> QED
        BY <2>4, <3>1, <3>2, <3>3 DEF Driver, CopyFromUserFails,
             InvalidArgument, ReadFails, CopyToUser, WriteFails,
             WriteBreaksOff, Ready, TimedOut, Return, Goto
    <2> QED
      BY <2>1, <2>2, <2>3, <2>4 DEF Next, StepsLeft
  <1> QED
    BY <1>1, TypeCorrect, PTL DEF Spec, CallIsBounded

-----------------------------------------------------------------------------
(* The memory.  A write of requests whose end does not wrap around the     *)
(* range of uint32_t is checked as plain arithmetic would check it.        *)

EndsInWord ==
  \A r \in Requests : r.cmd = "WRITE" => r.offset + r.count <= Word

LEMMA ExceedsIsPlain ==
  ASSUME EndsInWord, NEW r \in Requests, r.cmd = "WRITE"
  PROVE  /\ Exceeds(r.offset, r.count) => r.count = 0 \/ ~Memory!Fits(r)
         /\ ~Exceeds(r.offset, r.count) => Memory!Fits(r)
  <1> USE EepromAssumption, RequestTyped
  <1>1. r.offset \in 0 .. Word - 1 /\ r.count \in Nat
    BY RequestsAssumption DEF Offset
  <1>2. r.offset + r.count <= Word
    BY DEF EndsInWord
  <1>3. CASE r.offset + r.count = 0
    <2>1. U32(r.offset + r.count - 1) = Word - 1
      BY <1>1, <1>3, ModBelow DEF U32
    <2> QED
      BY <1>1, <1>3, <2>1 DEF Exceeds
  <1>4. CASE r.offset + r.count # 0
    <2>1. U32(r.offset + r.count - 1) = r.offset + r.count - 1
      <3>1. r.offset + r.count - 1 \in 0 .. Word - 1
        BY <1>1, <1>2, <1>4
      <3>2. Word \in Nat \ {0}
        OBVIOUS
      <3> QED
        BY <3>1, <3>2, ModSmall DEF U32
    <2>2. CASE r.offset <= Size
      <3>1. U32(Size - r.offset) = Size - r.offset
        BY <1>1, <2>2, ModSmall DEF U32
      <3> QED
        BY <1>1, <2>1, <3>1 DEF Exceeds, Memory!Fits
    <2>3. CASE r.offset > Size
      BY <1>1, <2>1, <2>3 DEF Exceeds, Memory!Fits
    <2> QED
      BY <1>1, <2>2, <2>3
  <1> QED
    BY <1>3, <1>4

\* What the chip stores in a circle from a u8 on is what was asked for, if it
\* fits.
LEMMA StoredInPlace ==
  ASSUME TypeOK, NEW offset \in Nat, NEW bytes \in Seq(Byte),
         offset + Len(bytes) <= Size, NEW p,
         Receive(p, U8(offset), bytes)
  PROVE  mem' = Memory!With(bytes, offset)
  <1> USE EepromAssumption
  <1> DEFINE place(a) == ((a - U8(offset)) % Size) + 1
  <1>1. mem' = [a \in Address |-> IF place(a) <= Len(bytes)
                                  THEN bytes[place(a)] ELSE mem[a]]
    BY DEF Receive
  <1>2. ASSUME NEW a \in Address
        PROVE  (IF place(a) <= Len(bytes) THEN bytes[place(a)] ELSE mem[a])
                 = (IF a - offset + 1 \in DOMAIN bytes
                    THEN bytes[a - offset + 1] ELSE mem[a])
    <2>1. place(a) >= 1 /\ place(a) \in Int /\ U8(offset) \in Int
      BY ModRange DEF U8, Address
    <2>2. CASE Len(bytes) = 0
      BY <2>1, <2>2 DEF Address
    <2>3. CASE offset < Size /\ offset <= a
      <3>1. U8(offset) = offset
        BY <2>3, ModSmall DEF U8
      <3>2. place(a) = a - offset + 1
        <4>1. a - offset \in 0 .. Size - 1
          BY <2>3 DEF Address
        <4> QED
          BY <3>1, <4>1, ModSmall DEF Address
      <3> QED
        BY <2>1, <2>3, <3>2 DEF Address
    <2>4. CASE offset < Size /\ offset > a
      <3>1. U8(offset) = offset
        BY <2>4, ModSmall DEF U8
      <3>2. place(a) = a - offset + Size + 1
        <4>1. a - offset \in -Size .. -1
          BY <2>4 DEF Address
        <4> QED
          BY <3>1, <4>1, ModBelow DEF Address
      <3> QED
        BY <2>1, <2>4, <3>2 DEF Address
    <2> QED
      BY <2>2, <2>3, <2>4 DEF Address
  <1>3. Memory!With(bytes, offset)
          = [a \in Address |-> IF a - offset + 1 \in DOMAIN bytes
                               THEN bytes[a - offset + 1] ELSE mem[a]]
    BY DEF Memory!With, Memory!Address, Address
  <1> HIDE DEF place
  <1> QED
    BY <1>1, <1>2, <1>3

LEMMA PhaseMoves ==
  ASSUME TypeOK, NEW p \in Processes, NEW from, NEW to, Goto(p, from, to)
  PROVE  /\ Phase[p] = CASE from = "app" -> "out" [] from = "ioctl" -> "asked"
                         [] OTHER -> "done"
         /\ Phase' = [Phase EXCEPT ![p] =
              CASE to = "app" -> "out" [] to = "ioctl" -> "asked"
                [] OTHER -> "done"]
  BY DEF Phase, Goto, TypeOK

\* Which command a process carries out shows from where it is.
CommandInv ==
  \A p \in Processes :
    /\ pc[p] = "copy" => req[p].cmd = "READ"
    /\ pc[p] \in {"poll", "msleep"} => req[p].cmd = "WRITE"

LEMMA CommandStep == TypeOK /\ CommandInv /\ [Next]_vars => CommandInv'
  <1> SUFFICES ASSUME TypeOK, CommandInv, [Next]_vars
               PROVE  CommandInv'
    OBVIOUS
  <1> USE DEF TypeOK, CommandInv, Goto
  <1>1. CASE UNCHANGED vars \/ Tick
    BY <1>1 DEF vars, chipVars, procVars, Tick
  <1>2. ASSUME NEW p \in Processes, NEW r \in Requests, Ioctl(p, r)
        PROVE  CommandInv'
    BY <1>2 DEF Ioctl
  <1>3. ASSUME NEW p \in Processes, NEW from, NEW answer,
               Return(p, from, answer)
        PROVE  CommandInv'
    BY <1>3 DEF Return
  <1>4. ASSUME NEW p \in Processes, Driver(p)
        PROVE  CommandInv'
    <2>1. CASE CopyFromUserFails(p) \/ InvalidArgument(p) \/ ReadFails(p)
               \/ CopyToUser(p) \/ WriteFails(p) \/ Ready(p) \/ TimedOut(p)
      BY <2>1, <1>3 DEF CopyFromUserFails, InvalidArgument, ReadFails,
           CopyToUser, WriteFails, Ready, TimedOut
    <2>2. CASE ReadTransfer(p) \/ WriteTransfer(p) \/ WriteBreaksOff(p)
      BY <2>2 DEF ReadTransfer, WriteTransfer, WriteBreaksOff, MayWrite
    <2>3. CASE NotReady(p) \/ Msleep(p)
      BY <2>3 DEF NotReady, Msleep
    <2> QED
      BY <1>4, <2>1, <2>2, <2>3 DEF Driver
  <1> QED
    BY <1>1, <1>2, <1>4 DEF Next

\* One step of the driver is one step of the memory, or none.
LEMMA MemoryStep ==
  ASSUME EndsInWord, TypeInv, CommandInv, [Next]_vars
  PROVE  [Memory!Next]_(Memory!vars)
  <1> USE DEF TypeInv, Asked
  <1>1. CASE UNCHANGED vars
    BY <1>1 DEF vars, chipVars, procVars, Memory!vars, Phase
  <1>2. CASE Tick
    BY <1>2 DEF Tick, Memory!vars, Phase
  <1>3. ASSUME NEW p \in Processes, NEW r \in Requests, Ioctl(p, r)
        PROVE  Memory!Next
    <2>1. Memory!Ask(p, r)
      BY <1>3, PhaseMoves DEF Ioctl, chipVars, Memory!Ask, Memory!Goto
    <2> QED
      BY <2>1 DEF Memory!Next
  <1>4. ASSUME NEW p \in Processes, NEW from, NEW answer, NEW answers,
               Return(p, from, answer), answer \in answers
        PROVE  Memory!Leave(p, CASE from = "app" -> "out"
                                 [] from = "ioctl" -> "asked"
                                 [] OTHER -> "done", answers)
    BY <1>4, PhaseMoves
       DEF Return, Memory!Leave, Memory!Goto, Memory!NoRequest, NoRequest
  <1>5. ASSUME NEW p \in Processes, Driver(p)
        PROVE  Memory!Next \/ UNCHANGED Memory!vars
    <2>1. CASE CopyFromUserFails(p)
      <3>1. Memory!Leave(p, "asked", {"EINVAL", "EFAULT"})
        BY <2>1, <1>4 DEF CopyFromUserFails
      <3>2. ret'[p] = "EFAULT" /\ mem' = mem
        BY <2>1 DEF CopyFromUserFails, Return, chipVars, TypeOK
      <3>3. Memory!Refuse(p)
        BY <3>1, <3>2 DEF Memory!Refuse
      <3> QED
        BY <3>3 DEF Memory!Next
    <2>2. CASE InvalidArgument(p)
      <3>1. Memory!Leave(p, "asked", {"EINVAL", "EFAULT"})
        BY <2>2, <1>4 DEF InvalidArgument
      <3>2. req[p] \in Requests
        BY <2>2 DEF InvalidArgument, Return, Goto
      <3>3. \/ req[p].cmd \notin {"READ", "WRITE"}
            \/ /\ req[p].cmd = "WRITE"
               /\ req[p].count = 0 \/ ~Memory!Fits(req[p])
        BY <2>2, <3>2, ExceedsIsPlain DEF InvalidArgument
      <3>4. Memory!Refuse(p)
        BY <2>2, <3>1, <3>3 DEF InvalidArgument, chipVars, Memory!Refuse
      <3> QED
        BY <3>4 DEF Memory!Next
    <2>3. CASE ReadTransfer(p)
      <3>1. Memory!Goto(p, "asked", "done")
        BY <2>3, PhaseMoves DEF ReadTransfer, Memory!Goto
      <3>2. Memory!Fetch(p)
        BY <2>3, <3>1 DEF ReadTransfer, Cell, U8, Memory!Fetch
      <3> QED
        BY <3>2 DEF Memory!Next
    <2>4. CASE ReadFails(p) \/ WriteFails(p)
      <3>1. Memory!Leave(p, "asked", {"EIO"})
        BY <2>4, <1>4 DEF ReadFails, WriteFails
      <3>2. Memory!FailOnBus(p)
        BY <2>4, <3>1 DEF ReadFails, WriteFails, chipVars, Memory!FailOnBus
      <3> QED
        BY <3>2 DEF Memory!Next
    <2>5. ASSUME MayWrite(p), pc[p] = "ioctl"
          PROVE  /\ req[p] \in Requests /\ req[p].cmd = "WRITE"
                 /\ Memory!Fits(req[p])
                 /\ req[p].offset \in Nat /\ req[p].data \in Seq(Byte)
                 /\ req[p].offset + Len(req[p].data) <= Size
                 /\ req[p].count = Len(req[p].data)
      <3>1. req[p] \in Requests /\ req[p].cmd = "WRITE"
        BY <2>5 DEF MayWrite
      <3> QED
        BY <2>5, <3>1, ExceedsIsPlain, RequestTyped DEF MayWrite, Memory!Fits
    <2>6. CASE WriteTransfer(p)
      <3>1. Memory!Goto(p, "asked", "done")
        BY <2>6, PhaseMoves DEF WriteTransfer, Memory!Goto
      <3>2. mem' = Memory!With(req[p].data, req[p].offset)
        BY <2>5, <2>6, StoredInPlace DEF WriteTransfer, Goto
      <3>3. Memory!Store(p)
        BY <2>5, <2>6, <3>1, <3>2 DEF WriteTransfer, Goto, Memory!Store
      <3> QED
        BY <3>3 DEF Memory!Next
    <2>7. CASE WriteBreaksOff(p)
      <3>1. PICK n \in 0 .. req[p].count - 1 :
              Receive(p, U8(req[p].offset), SubSeq(req[p].data, 1, n))
        BY <2>7 DEF WriteBreaksOff
      <3>2. /\ SubSeq(req[p].data, 1, n) \in Seq(Byte)
            /\ Len(SubSeq(req[p].data, 1, n)) = n
        BY <2>5, <2>7, <3>1 DEF WriteBreaksOff, Goto
      <3>3. req[p].offset + n <= Size
        BY <2>5, <2>7, <3>1, EepromAssumption DEF WriteBreaksOff, Goto
      <3>4. mem' = Memory!With(SubSeq(req[p].data, 1, n), req[p].offset)
        BY <2>5, <2>7, <3>1, <3>2, <3>3, StoredInPlace
           DEF WriteBreaksOff, Goto
      <3>5. n = 0 => mem' = mem
        <4>1. ASSUME n = 0
              PROVE  DOMAIN SubSeq(req[p].data, 1, n) = {}
          BY <3>2, <4>1
        <4> QED
          BY <3>4, <4>1
             DEF Memory!With, Memory!Address, Address, TypeOK
      <3>6. Memory!Leave(p, "asked", {"EIO"})
        BY <2>7, PhaseMoves DEF WriteBreaksOff, Memory!Leave, Memory!Goto,
             Memory!NoRequest, NoRequest
      <3>7. Memory!FailOnBus(p)
        BY <2>5, <2>7, <3>1, <3>4, <3>5, <3>6
           DEF WriteBreaksOff, Goto, Memory!FailOnBus
      <3> QED
        BY <3>7 DEF Memory!Next
    <2>8. CASE CopyToUser(p) \/ Ready(p) \/ TimedOut(p)
      <3> DEFINE answers ==
             {"0", IF req[p].cmd = "READ" THEN "EFAULT" ELSE "ETIMEDOUT"}
      <3>1. Memory!Leave(p, "done", answers)
        <4>1. CASE CopyToUser(p)
          <5>1. req[p].cmd = "READ"
            BY <4>1 DEF CopyToUser, Return, Goto, CommandInv
          <5>2. PICK answer \in {"0", "EFAULT"} : Return(p, "copy", answer)
            BY <4>1 DEF CopyToUser
          <5> QED
            BY <5>1, <5>2, <1>4
        <4>2. CASE Ready(p)
          BY <4>2, <1>4 DEF Ready
        <4>3. CASE TimedOut(p)
          <5>1. req[p].cmd = "WRITE"
            BY <4>3 DEF TimedOut, Return, Goto, CommandInv
          <5> QED
            BY <4>3, <5>1, <1>4 DEF TimedOut
        <4> QED
          BY <2>8, <4>1, <4>2, <4>3
      <3>2. Memory!Answer(p)
        BY <2>8, <3>1
           DEF CopyToUser, Ready, TimedOut, chipVars, Memory!Answer
      <3> QED
        BY <3>2 DEF Memory!Next
    <2>9. CASE NotReady(p) \/ Msleep(p)
      <3>1. Phase' = Phase
        BY <2>9 DEF NotReady, Msleep, Goto, Phase, TypeOK
      <3> QED
        BY <2>9, <3>1 DEF NotReady, Msleep, chipVars, Memory!vars
    <2> QED
      BY <1>5, <2>1, <2>2, <2>3, <2>4, <2>6, <2>7, <2>8, <2>9 DEF Driver
  <1> QED
    BY <1>1, <1>2, <1>3, <1>5 DEF Next

\* If no write is asked for whose end is past the range of uint32_t, the
\* driver is a memory: its calls take effect at once, at the right address.
THEOREM DriverIsMemory ==
  ASSUME EndsInWord
  PROVE  Spec => ImplementsMemory
  <1>1. Init => Memory!Init /\ CommandInv
    BY DEF Init, Memory!Init, Memory!NoRequest, NoRequest, Phase, CommandInv
  <1>2. TypeInv /\ CommandInv /\ [Next]_vars
          => CommandInv' /\ [Memory!Next]_(Memory!vars)
    BY MemoryStep, CommandStep DEF TypeInv
  <1> QED
    BY <1>1, <1>2, TypeInvariance, PTL
       DEF Spec, ImplementsMemory, Memory!Spec

-----------------------------------------------------------------------------
(* AcceptedWriteFits does not hold of the code.  It does without requests  *)
(* whose end wraps around.                                                 *)

WaitingFits ==
  \A p \in Processes :
    pc[p] \in {"poll", "msleep"} => req[p].offset + req[p].count <= Size

\* What passes the checks of lines 99-100 lies inside the memory as long as no
\* write ends past the range of uint32_t.
THEOREM AcceptedWritesFit ==
  ASSUME EndsInWord
  PROVE  Spec => []AcceptedWriteFits
  <1>1. Init => WaitingFits
    BY DEF Init, WaitingFits
  <1>2. TypeInv /\ WaitingFits /\ [Next]_vars => WaitingFits'
    <2> SUFFICES ASSUME TypeInv, WaitingFits, [Next]_vars
                 PROVE  WaitingFits'
      OBVIOUS
    <2> USE DEF TypeInv, TypeOK, WaitingFits, Goto
    <2>1. CASE UNCHANGED vars \/ Tick
      BY <2>1 DEF vars, procVars, Tick
    <2>2. ASSUME NEW p \in Processes, NEW r \in Requests, Ioctl(p, r)
          PROVE  WaitingFits'
      BY <2>2 DEF Ioctl
    <2>3. ASSUME NEW p \in Processes, Driver(p)
          PROVE  WaitingFits'
      <3>1. CASE WriteTransfer(p)
        <4>1. req[p] \in Requests
          BY <3>1 DEF WriteTransfer, Asked
        <4>2. Memory!Fits(req[p])
          BY <3>1, <4>1, ExceedsIsPlain DEF WriteTransfer, MayWrite
        <4> QED
          BY <3>1, <4>2 DEF WriteTransfer, Memory!Fits
      <3>2. CASE NotReady(p) \/ Msleep(p)
        BY <3>2 DEF NotReady, Msleep
      <3>3. CASE ReadTransfer(p) \/ WriteBreaksOff(p)
        BY <3>3 DEF ReadTransfer, WriteBreaksOff
      <3> QED
        BY <2>3, <3>1, <3>2, <3>3 DEF Driver, CopyFromUserFails,
             InvalidArgument, ReadFails, CopyToUser, WriteFails, Ready,
             TimedOut, Return
    <2> QED
      BY <2>1, <2>2, <2>3 DEF Next
  <1>3. WaitingFits => AcceptedWriteFits
    BY DEF WaitingFits, AcceptedWriteFits
  <1> QED
    BY <1>1, <1>2, <1>3, TypeInvariance, PTL DEF Spec
=============================================================================
