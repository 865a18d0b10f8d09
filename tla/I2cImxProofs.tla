---------------------------- MODULE I2cImxProofs ----------------------------
(***************************************************************************)
(* The safety properties of I2cImx, for any requests, any length of block  *)
(* and any slave.  They rest on one another: a call has its clock and its  *)
(* messages; nothing is in flight but the byte that is awaited, as long as *)
(* nothing has cast doubt on the answer; and then the bytes that went over *)
(* the wire can be told from where the driver is.  For a read less is      *)
(* enough: what was clocked is bounded where bytes were lost, too.  That   *)
(* each step lowers the rank of the call bounds it.  At the end those of   *)
(* I2cImxDevice, I2cImxDma and I2cImxClock, each from one inductive        *)
(* invariant, for any faults, any number of transfers, any bound of the    *)
(* usage count, and any table of divisors.                                 *)
(***************************************************************************)
EXTENDS I2cImx, I2cImxDevice, I2cImxDma, I2cImxClock, TLAPS

USE DEF call, drv, ctrl, pm, history, Goto

-----------------------------------------------------------------------------
(* Types, and what a call has.                                             *)

\* While a call is under way it has messages and uses the device, which keeps
\* the clock on; between calls the controller is disabled.
CallInv ==
  /\ pc # "idle" => msgs # <<>> /\ usage = 1 /\ clk = "on"
  /\ pc = "idle" => i2cr = {} /\ i2sr = {} /\ shift = "none"
  /\ pc = "idle" /\ clk # "error" => usage = 0

TypeInv == TypeOK /\ CallInv

\* What is left of a request, and one whose first message has grown.
LEMMA MessagesLeft ==
  ASSUME msgs \in Seq(Messages), msgs # <<>>
  PROVE  /\ Message \in Messages /\ Message = msgs[1] /\ Len(msgs) >= 1
         /\ Message.len \in Nat
         /\ Message.rd \in BOOLEAN /\ Message.block \in BOOLEAN
         /\ Tail(msgs) \in Seq(Messages)
         /\ ~IsLastMsg => Tail(msgs) # <<>>
         /\ \A n \in Nat :
              LET grown == [msgs EXCEPT ![1].len = @ + n]
              IN  /\ grown \in Seq(Messages) /\ grown # <<>>
                  /\ Head(grown) = [Message EXCEPT !.len = @ + n]
                  /\ Head(grown) \in Messages
                  /\ Head(grown).len = Message.len + n
                  /\ Head(grown).rd = Message.rd
                  /\ Head(grown).block = Message.block
<1>1. Message \in Messages /\ Message = msgs[1] /\ Len(msgs) >= 1
  BY DEF Message
<1>2. Tail(msgs) \in Seq(Messages) /\ (~IsLastMsg => Tail(msgs) # <<>>)
  <2>1. Tail(msgs) \in Seq(Messages)
    OBVIOUS
  <2>2. Len(Tail(msgs)) = Len(msgs) - 1
    OBVIOUS
  <2>3. ~IsLastMsg => Len(Tail(msgs)) >= 1
    BY <1>1, <2>2 DEF IsLastMsg
  <2> QED
    BY <2>1, <2>3
<1>3. ASSUME NEW n \in Nat
      PROVE  LET grown == [msgs EXCEPT ![1].len = @ + n]
             IN  /\ grown \in Seq(Messages) /\ grown # <<>>
                 /\ Head(grown) = [Message EXCEPT !.len = @ + n]
                 /\ Head(grown) \in Messages
                 /\ Head(grown).len = Message.len + n
                 /\ Head(grown).rd = Message.rd
                 /\ Head(grown).block = Message.block
  <2> DEFINE longer == [Message EXCEPT !.len = @ + n]
             grown == [msgs EXCEPT ![1] = longer]
  <2>1. /\ longer \in Messages /\ longer.len = Message.len + n
        /\ longer.rd = Message.rd /\ longer.block = Message.block
    BY <1>1 DEF Messages
  <2>2. [msgs EXCEPT ![1].len = @ + n] = grown
    BY <1>1
  <2> HIDE DEF longer
  <2>3. grown \in Seq(Messages) /\ Len(grown) = Len(msgs) /\ grown[1] = longer
    BY <1>1, <2>1
  <2>4. Head(grown) = longer /\ grown # <<>>
    BY <1>1, <2>3
  <2> HIDE DEF grown
  <2> QED
    BY <2>1, <2>2, <2>3, <2>4 DEF longer
<1>4. /\ Message.len \in Nat
      /\ Message.rd \in BOOLEAN /\ Message.block \in BOOLEAN
  BY <1>1 DEF Messages
<1> QED
  BY <1>1, <1>2, <1>3, <1>4

LEMMA Bounds ==
  /\ MaxUsage \in Nat \ {0} /\ BlockMax \in Nat
  /\ \A n \in BlockLengths : n \in Nat
BY I2cImxAssumption

LEMMA AppendSeq ==
  ASSUME NEW S, NEW s \in Seq(S), NEW e \in S
  PROVE  Append(s, e) \in Seq(S)
OBVIOUS

LEMMA EmptySeq == <<>> \in Seq(BOOLEAN)
OBVIOUS

LEMMA TypeInvariant == Spec => []TypeInv
<1>1. Init => TypeInv
  <2>1. Init => CallTypes /\ CallInv
    BY I2cImxAssumption DEF Init, CallTypes, CallInv, Results
  <2>2. Init => ControllerTypes
    BY DEF Init, ControllerTypes
  <2>3. Init => HistoryTypes
    BY EmptySeq DEF Init, HistoryTypes
  <2> QED
    BY <2>1, <2>2, <2>3 DEF TypeInv, TypeOK
<1>2. TypeInv /\ [Next]_vars => (CallTypes /\ CallInv)'
  <2> SUFFICES ASSUME CallTypes, CallInv, [Next]_vars
               PROVE  (CallTypes /\ CallInv)'
    BY DEF TypeInv, TypeOK
  <2> USE DEF CallTypes, CallInv, Waiting, Working, Results
  <2>1. CASE \E request \in Requests : Xfer(request)
    BY <2>1, I2cImxAssumption
    DEF Xfer
  <2>2. CASE XferResumeFails \/ RuntimeSuspend
    BY <2>2, I2cImxAssumption
    DEF XferResumeFails, RuntimeSuspend
  <2>3. CASE Start \/ StartBusy \/ Recover
    BY <2>3
    DEF Start, StartBusy, Recover
  <2>4. CASE StartFails \/ Restart \/ RestartFails
    BY <2>4
    DEF StartFails, Restart, RestartFails, Fail, BusBusy
  <2>5. CASE Stop \/ StopBusy \/ Disable
    BY <2>5, I2cImxAssumption
    DEF Stop, StopBusy, Disable
  <2>6. CASE Address \/ TrxComplete \/ TrxTimeout \/ Refused
    BY <2>6
    DEF Address, TrxComplete, TrxTimeout, Refused, Fail, WriteI2DR
  <2>7. CASE WriteByte
    <3>1. Written \in Nat
      BY DEF Written
    <3> QED
      BY <2>7, <3>1, MessagesLeft DEF WriteByte, EndMessage
  <2>8. CASE SetUpBus
    BY <2>8, MessagesLeft
    DEF SetUpBus, EndMessage, ReadI2DR
  <2>9. ASSUME NEW n \in BlockLengths, BlockLength(n) \/ BlockLengthBad(n)
        PROVE  (CallTypes /\ CallInv)'
    BY <2>9, MessagesLeft, I2cImxAssumption
    DEF BlockLength, BlockLengthBad, Counting, Fail, ReadI2DR
  <2>10. CASE ReceiveStop \/ ReceiveNext
    BY <2>10
    DEF ReceiveStop, ReceiveNext, Received, Counting, ReadI2DR
  <2>11. CASE LastBusy
    BY <2>11, MessagesLeft
    DEF LastBusy, EndMessage, ReadI2DR
  <2>12. CASE ReceiveLast
    BY <2>12, MessagesLeft
    DEF ReceiveLast, Received, Counting, EndMessage, ReadI2DR
  <2>13. CASE Shifted
    BY <2>13
    DEF Shifted
  <2>14. CASE ArbitrationLost \/ BusTaken \/ BusFreed \/ Interrupt
    BY <2>14
    DEF ArbitrationLost, BusTaken, BusFreed, Interrupt
  <2>15. CASE UNCHANGED vars
    BY <2>15
    DEF vars
  <2> QED
    BY <2>1, <2>2, <2>3, <2>4, <2>5, <2>6, <2>7, <2>8, <2>9, <2>10, <2>11,
        <2>12, <2>13, <2>14, <2>15
    DEF Next, Driver, Controller
<1>3. TypeInv /\ [Next]_vars => ControllerTypes'
  <2> SUFFICES ASSUME ControllerTypes, [Next]_vars
               PROVE  ControllerTypes'
    BY DEF TypeInv, TypeOK
  <2> USE DEF ControllerTypes
  <2>1. CASE \E request \in Requests : Xfer(request)
    BY <2>1, I2cImxAssumption
    DEF Xfer
  <2>2. CASE XferResumeFails \/ RuntimeSuspend
    BY <2>2
    DEF XferResumeFails, RuntimeSuspend
  <2>3. CASE Start \/ StartBusy \/ Recover
    BY <2>3
    DEF Start, StartBusy, Recover
  <2>4. CASE StartFails \/ Restart \/ RestartFails
    BY <2>4
    DEF StartFails, Restart, RestartFails, Fail, BusBusy
  <2>5. CASE Stop \/ StopBusy \/ Disable
    BY <2>5
    DEF Stop, StopBusy, Disable
  <2>6. CASE Address \/ TrxComplete \/ TrxTimeout \/ Refused
    BY <2>6
    DEF Address, TrxComplete, TrxTimeout, Refused, Fail, WriteI2DR
  <2>7. CASE WriteByte
    BY <2>7, MessagesLeft
    DEF WriteByte, EndMessage, WriteI2DR, Written
  <2>8. CASE SetUpBus
    BY <2>8, MessagesLeft
    DEF SetUpBus, EndMessage, ReadI2DR
  <2>9. ASSUME NEW n \in BlockLengths, BlockLength(n) \/ BlockLengthBad(n)
        PROVE  ControllerTypes'
    BY <2>9, MessagesLeft, I2cImxAssumption
    DEF BlockLength, BlockLengthBad, Counting, Fail, ReadI2DR
  <2>10. CASE ReceiveStop \/ ReceiveNext
    BY <2>10
    DEF ReceiveStop, ReceiveNext, Received, Counting, ReadI2DR
  <2>11. CASE LastBusy
    BY <2>11, MessagesLeft
    DEF LastBusy, EndMessage, ReadI2DR
  <2>12. CASE ReceiveLast
    BY <2>12, MessagesLeft
    DEF ReceiveLast, Received, Counting, EndMessage, ReadI2DR
  <2>13. CASE Shifted
    BY <2>13
    DEF Shifted
  <2>14. CASE ArbitrationLost \/ BusTaken \/ BusFreed \/ Interrupt
    BY <2>14
    DEF ArbitrationLost, BusTaken, BusFreed, Interrupt
  <2>15. CASE UNCHANGED vars
    BY <2>15
    DEF vars
  <2> QED
    BY <2>1, <2>2, <2>3, <2>4, <2>5, <2>6, <2>7, <2>8, <2>9, <2>10, <2>11,
        <2>12, <2>13, <2>14, <2>15
    DEF Next, Driver, Controller
<1>4. TypeInv /\ [Next]_vars => HistoryTypes'
  <2> SUFFICES ASSUME HistoryTypes, [Next]_vars
               PROVE  HistoryTypes'
    BY DEF TypeInv, TypeOK
  <2> USE DEF HistoryTypes
  <2>1. CASE \E request \in Requests : Xfer(request)
    BY <2>1, EmptySeq
    DEF Xfer
  <2>2. CASE XferResumeFails \/ RuntimeSuspend
    BY <2>2
    DEF XferResumeFails, RuntimeSuspend
  <2>3. CASE Start \/ StartBusy \/ Recover
    BY <2>3
    DEF Start, StartBusy, Recover
  <2>4. CASE StartFails \/ Restart \/ RestartFails
    BY <2>4
    DEF StartFails, Restart, RestartFails, Fail, BusBusy
  <2>5. CASE Stop \/ StopBusy \/ Disable
    BY <2>5
    DEF Stop, StopBusy, Disable
  <2>6. CASE Address \/ TrxComplete \/ TrxTimeout \/ Refused
    BY <2>6, EmptySeq
    DEF Address, TrxComplete, TrxTimeout, Refused, Fail, WriteI2DR
  <2>7. CASE WriteByte
    BY <2>7, MessagesLeft, EmptySeq
    DEF WriteByte, EndMessage, WriteI2DR, Written
  <2>8. CASE SetUpBus
    BY <2>8, MessagesLeft, EmptySeq
    DEF SetUpBus, EndMessage, ReadI2DR
  <2>9. ASSUME NEW n \in BlockLengths, BlockLength(n) \/ BlockLengthBad(n)
        PROVE  HistoryTypes'
    BY <2>9, MessagesLeft, I2cImxAssumption
    DEF BlockLength, BlockLengthBad, Counting, Fail, ReadI2DR
  <2>10. CASE ReceiveStop \/ ReceiveNext
    BY <2>10
    DEF ReceiveStop, ReceiveNext, Received, Counting, ReadI2DR
  <2>11. CASE LastBusy
    BY <2>11, MessagesLeft, EmptySeq
    DEF LastBusy, EndMessage, ReadI2DR
  <2>12. CASE ReceiveLast
    BY <2>12, MessagesLeft, EmptySeq
    DEF ReceiveLast, Received, Counting, EndMessage, ReadI2DR
  <2>13. CASE Shifted
    <3>1. PICK ack \in BOOLEAN : wire' = Append(wire, ack)
      BY <2>13 DEF Shifted
    <3>2. Append(wire, ack) \in Seq(BOOLEAN)
      BY AppendSeq, Zenon
    <3> QED
      BY <2>13, <3>1, <3>2 DEF Shifted
  <2>14. CASE ArbitrationLost \/ BusTaken \/ BusFreed \/ Interrupt
    BY <2>14
    DEF ArbitrationLost, BusTaken, BusFreed, Interrupt
  <2>15. CASE UNCHANGED vars
    BY <2>15
    DEF vars
  <2> QED
    BY <2>1, <2>2, <2>3, <2>4, <2>5, <2>6, <2>7, <2>8, <2>9, <2>10, <2>11,
        <2>12, <2>13, <2>14, <2>15
    DEF Next, Driver, Controller
<1>5. TypeInv /\ [Next]_vars => TypeInv'
  BY <1>2, <1>3, <1>4 DEF TypeInv, TypeOK
<1> QED
  BY <1>1, <1>5, PTL DEF Spec

\* Every variable keeps its type.
THEOREM TypeCorrect == Spec => []TypeOK
BY TypeInvariant, PTL DEF TypeInv

\* The clock runs whenever the controller is used, and usage is balanced.
THEOREM ClockWhileUsed == Spec => []ClockRuns
<1>1. TypeInv => ClockRuns
  BY DEF TypeInv, CallInv, ClockRuns
<1> QED
  BY <1>1, TypeInvariant, PTL

-----------------------------------------------------------------------------
(* What is in flight.                                                      *)

\* The message of a call has a length.
LEMMA LengthOfMessage == TypeInv /\ pc # "idle" => Message.len \in Nat
BY MessagesLeft DEF TypeInv, TypeOK, CallTypes, CallInv

\* The length of a block is read, and the message grows.
LEMMA BlockGrows ==
  ASSUME TypeInv, NEW n \in BlockLengths, BlockLength(n)
  PROVE  /\ pc = "byte_done" /\ Message.rd /\ Message.block /\ i = 0
         /\ pc' = "counted"
         /\ n \in Nat /\ n >= 1
         /\ Message'.len = Message.len + n /\ Message.len \in Nat
         /\ Message'.rd = Message.rd /\ Message'.block = Message.block
         /\ excuse' = IF Message.len + n = 2
                      THEN excuse \cup {"block_of_one"} ELSE excuse
         /\ ReadI2DR(i2cr)
         /\ UNCHANGED <<i, result, recovery, drv, i2cr, i2sr, pm, wire, whole>>
<1>1. /\ pc = "byte_done" /\ Message.rd /\ Message.block /\ i = 0
      /\ pc' = "counted"
      /\ excuse' = IF Message.len + n = 2
                   THEN excuse \cup {"block_of_one"} ELSE excuse
      /\ ReadI2DR(i2cr)
      /\ UNCHANGED <<i, result, recovery, drv, i2cr, i2sr, pm, wire, whole>>
  BY Zenon DEF BlockLength, Counting
<1>2. n \in 1 .. BlockMax
  BY Zenon DEF BlockLength
<1>3. n \in Nat /\ n >= 1
  BY <1>2, Bounds
<1>4. msgs' = [msgs EXCEPT ![1].len = @ + n]
  BY Zenon DEF BlockLength
<1>5. msgs \in Seq(Messages) /\ msgs # <<>>
  BY <1>1 DEF TypeInv, TypeOK, CallTypes, CallInv
<1>6. Message' = Head([msgs EXCEPT ![1].len = @ + n])
  BY <1>4, Zenon DEF Message
<1>7. /\ Message'.len = Message.len + n /\ Message.len \in Nat
      /\ Message'.rd = Message.rd /\ Message'.block = Message.block
  BY <1>3, <1>5, <1>6, MessagesLeft
<1> QED
  BY <1>1, <1>3, <1>7, Zenon

Ending == {"idle", "stop", "stop_busy", "disable"}
Awaiting == {"await_address", "await_byte", "counted"}

\* Where the driver is tells something about its variables.
PlaceInv ==
  /\ pc \notin Ending => result = "ok"
  /\ pc \in {"start", "start_busy"} => shift = "none" /\ wire = <<>>
  /\ pc \in {"await_address", "address_done"} => i = 0
  /\ pc \in {"await_byte", "byte_done"} => i < Message.len
  /\ pc = "counted" => i = 0 /\ Message.rd /\ Message.block /\ Message.len >= 2
  /\ pc = "last_busy" => /\ "MSTA" \notin i2cr
                         /\ Message.rd /\ i = Message.len - 1

LEMMA PlaceInvariant == Spec => []PlaceInv
<1>1. Init => PlaceInv
  BY DEF Init, PlaceInv, Ending
<1>2. TypeInv /\ PlaceInv /\ [Next]_vars => PlaceInv'
  <2> SUFFICES ASSUME TypeInv, CallTypes, CallInv, PlaceInv, [Next]_vars
               PROVE  PlaceInv'
    BY DEF TypeInv, TypeOK
  <2> USE DEF CallTypes, CallInv, PlaceInv, Ending, Message
  <2>1. CASE \E request \in Requests : Xfer(request)
    BY <2>1, I2cImxAssumption DEF Xfer
  <2>2. CASE XferResumeFails \/ RuntimeSuspend
    BY <2>2 DEF XferResumeFails, RuntimeSuspend
  <2>3. CASE Start \/ StartBusy \/ Recover
    BY <2>3 DEF Start, StartBusy, Recover
  <2>4. CASE StartFails \/ Restart \/ RestartFails
    BY <2>4 DEF StartFails, Restart, RestartFails, Fail, BusBusy
  <2>5. CASE Stop \/ StopBusy \/ Disable
    BY <2>5 DEF Stop, StopBusy, Disable
  <2>6. CASE Address
    BY <2>6 DEF Address, WriteI2DR
  <2>7. CASE TrxComplete \/ TrxTimeout \/ Refused
    BY <2>7 DEF TrxComplete, TrxTimeout, Refused, Fail
  <2>8. CASE WriteByte
    BY <2>8, MessagesLeft DEF WriteByte, EndMessage, WriteI2DR, Written
  <2>9. CASE SetUpBus
    <3>1. Message.len \in Nat
      BY <2>9, MessagesLeft DEF SetUpBus
    <3>2. CASE Message.len = 0
      BY <2>9, <3>2 DEF SetUpBus, EndMessage
    <3>3. CASE Message.len # 0
      BY <2>9, <3>1, <3>3 DEF SetUpBus
    <3> QED
      BY <3>2, <3>3
  <2>10. ASSUME NEW n \in BlockLengths, BlockLength(n)
         PROVE  PlaceInv'
    <3>1. /\ pc = "byte_done" /\ pc' = "counted" /\ n \in Nat /\ n >= 1
          /\ i = 0 /\ i' = i /\ result' = result /\ Message.len \in Nat
          /\ Message'.rd /\ Message'.block /\ Message'.len = Message.len + n
      BY <2>10, BlockGrows
    <3>2. Message'.len >= 2
      BY <3>1
    <3> QED
      BY <3>1, <3>2
  <2>11. ASSUME NEW n \in BlockLengths, BlockLengthBad(n)
         PROVE  PlaceInv'
    BY <2>11 DEF BlockLengthBad, Counting, Fail, ReadI2DR
  <2>12. CASE ReceiveStop \/ ReceiveNext
    BY <2>12, MessagesLeft
    DEF ReceiveStop, ReceiveNext, Received, Counting, ReadI2DR
  <2>13. CASE LastBusy
    BY <2>13, MessagesLeft DEF LastBusy, EndMessage, ReadI2DR
  <2>14. CASE ReceiveLast
    BY <2>14, MessagesLeft
    DEF ReceiveLast, Received, Counting, EndMessage, ReadI2DR
  <2>15. CASE Shifted
    BY <2>15 DEF Shifted
  <2>16. CASE ArbitrationLost \/ BusTaken \/ BusFreed \/ Interrupt
    BY <2>16 DEF ArbitrationLost, BusTaken, BusFreed, Interrupt
  <2>17. CASE UNCHANGED vars
    BY <2>17 DEF vars, Message
  <2> QED
    BY <2>1, <2>2, <2>3, <2>4, <2>5, <2>6, <2>7, <2>8, <2>9, <2>10, <2>11,
        <2>12, <2>13, <2>14, <2>15, <2>16, <2>17
    DEF Next, Driver, Controller
<1> QED
  BY <1>1, <1>2, TypeInvariant, PTL DEF Spec

\* The length of a block was not read yet, outside the step that reads it.
Unmeasured == Message.rd /\ Message.block /\ i = 0

Measured ==
  \/ pc = "counted"
  \/ /\ pc \in {"await_byte", "byte_done", "last_busy"}
     /\ Message.rd /\ Message.block /\ i > 0

\* What the history says of where the driver is and what it reads.
TagInv ==
  /\ pc \in {"start", "start_busy"} => "arbitration" \notin excuse
  /\ "no_byte" \in excuse => pc \in Ending \/ "no_address" \in excuse
  /\ Measured /\ Message.len = 2 => "block_of_one" \in excuse
  /\ pc = "last_busy" => ~Unmeasured

LEMMA TagInvariant == Spec => []TagInv
<1>1. Init => TagInv
  BY DEF Init, TagInv, Measured, Ending
<1>2. TypeInv /\ PlaceInv /\ TagInv /\ [Next]_vars => TagInv'
  <2> SUFFICES ASSUME TypeInv, PlaceInv, TagInv, [Next]_vars,
                      pc # "idle" => Message.len \in Nat, i \in Nat
               PROVE  TagInv'
    BY LengthOfMessage DEF TypeInv, TypeOK, CallTypes
  <2> USE DEF PlaceInv, TagInv, Measured, Unmeasured, Ending
  <2>begin. CASE \E request \in Requests : Xfer(request)
    BY <2>begin DEF Xfer
  <2>power. CASE XferResumeFails \/ RuntimeSuspend
    BY <2>power DEF XferResumeFails, RuntimeSuspend, Message
  <2>start. CASE Start \/ StartBusy \/ Recover \/ Restart \/ Address
    BY <2>start DEF Start, StartBusy, Recover, Restart, Address
  <2>fail. CASE StartFails \/ RestartFails \/ TrxTimeout \/ Refused
    BY <2>fail DEF StartFails, RestartFails, TrxTimeout, Refused, Fail, BusBusy
  <2>stop. CASE Stop \/ StopBusy \/ Disable
    BY <2>stop DEF Stop, StopBusy, Disable
  <2>complete. CASE TrxComplete
    BY <2>complete DEF TrxComplete, Message
  <2>write. CASE WriteByte
    BY <2>write DEF WriteByte, EndMessage, Message
  <2>setup. CASE SetUpBus
    <3>1. /\ pc = "address_done" /\ Message.rd /\ i = 0
          /\ "no_byte" \in excuse => "no_address" \in excuse
      BY <2>setup DEF SetUpBus
    <3>2. CASE Message.len = 0
      BY <2>setup, <3>1, <3>2 DEF SetUpBus, EndMessage
    <3>3. CASE Message.len # 0
      BY <2>setup, <3>1, <3>3 DEF SetUpBus
    <3> QED
      BY <3>2, <3>3
  <2>length. ASSUME NEW n \in BlockLengths, BlockLength(n)
             PROVE  TagInv'
    BY <2>length, BlockGrows
  <2>bad. ASSUME NEW n \in BlockLengths, BlockLengthBad(n)
          PROVE  TagInv'
    BY <2>bad DEF BlockLengthBad, Counting, Fail
  <2>last. CASE ReceiveStop
    BY <2>last DEF ReceiveStop, Received, Counting, Message
  <2>end. CASE LastBusy \/ ReceiveLast
    BY <2>end DEF LastBusy, ReceiveLast, Received, Counting, EndMessage
  <2>next. CASE ReceiveNext
    BY <2>next DEF ReceiveNext, Received, Counting, Message
  <2>byte. CASE Shifted \/ ArbitrationLost
    BY <2>byte DEF Shifted, ArbitrationLost, Message
  <2>bus. CASE BusTaken \/ BusFreed \/ Interrupt \/ UNCHANGED vars
    BY <2>bus DEF BusTaken, BusFreed, Interrupt, vars, Message
  <2> QED
    BY <2>begin, <2>power, <2>start, <2>fail, <2>stop, <2>complete, <2>write,
       <2>setup, <2>length, <2>bad, <2>last, <2>end, <2>next, <2>byte, <2>bus
    DEF Next, Driver, Controller
<1> QED
  BY <1>1, <1>2, TypeInvariant, PlaceInvariant, PTL DEF Spec

\* Where arbitration was lost the controller is no master until the next call,
\* and nothing goes over the wire.
LostInv == "arbitration" \in excuse => shift = "none" /\ "MSTA" \notin i2cr

LEMMA LostInvariant == Spec => []LostInv
<1>1. Init => LostInv
  BY DEF Init, LostInv
<1>2. TagInv /\ LostInv /\ [Next]_vars => LostInv'
  <2> SUFFICES ASSUME TagInv, LostInv, [Next]_vars, "arbitration" \in excuse'
               PROVE  shift' = "none" /\ "MSTA" \notin i2cr'
    BY DEF LostInv
  <2> USE DEF LostInv, TagInv
  <2>begin. CASE (\E request \in Requests : Xfer(request)) \/ XferResumeFails
    BY <2>begin DEF Xfer, XferResumeFails
  <2>start. CASE Start \/ StartBusy \/ Recover \/ StartFails
    BY <2>start DEF Start, StartBusy, Recover, StartFails
  <2>again. CASE Restart \/ RestartFails \/ Address
    BY <2>again DEF Restart, RestartFails, Address, WriteI2DR
  <2>stop. CASE Stop \/ StopBusy \/ Disable
    BY <2>stop DEF Stop, StopBusy, Disable
  <2>wait. CASE TrxComplete \/ TrxTimeout \/ Refused
    BY <2>wait DEF TrxComplete, TrxTimeout, Refused
  <2>write. CASE WriteByte
    BY <2>write DEF WriteByte, EndMessage, WriteI2DR
  <2>setup. CASE SetUpBus
    BY <2>setup DEF SetUpBus, EndMessage, ReadI2DR
  <2>length. ASSUME NEW n \in BlockLengths, BlockLength(n) \/ BlockLengthBad(n)
             PROVE  shift' = "none" /\ "MSTA" \notin i2cr'
    BY <2>length DEF BlockLength, BlockLengthBad, ReadI2DR
  <2>last. CASE ReceiveStop \/ LastBusy \/ ReceiveLast
    BY <2>last DEF ReceiveStop, LastBusy, ReceiveLast, EndMessage, ReadI2DR
  <2>next. CASE ReceiveNext
    BY <2>next DEF ReceiveNext, ReadI2DR
  <2>bus. CASE Controller \/ RuntimeSuspend \/ UNCHANGED vars
    BY <2>bus DEF Controller, Shifted, ArbitrationLost, BusTaken, BusFreed,
                  Interrupt, RuntimeSuspend, vars
  <2> QED
    BY <2>begin, <2>start, <2>again, <2>stop, <2>wait, <2>write, <2>setup,
       <2>length, <2>last, <2>next, <2>bus
    DEF Next, Driver
<1> QED
  BY <1>1, <1>2, TagInvariant, PTL DEF Spec

\* A byte is through, and TrxComplete has not seen it yet.
Through == i2csr \/ "IIF" \in i2sr

Quiet == shift = "none" /\ ~Through

OneByte == /\ ~(shift # "none" /\ Through)
           /\ ~(i2csr /\ "IIF" \in i2sr)

\* Nothing has cast doubt on which byte a flag belongs to.
Sure ==
  /\ "stale" \notin excuse
  /\ "arbitration" \notin excuse
  /\ "no_byte" \notin excuse
  /\ "no_address" \notin excuse

\* There is one byte in flight while it is awaited, or none, if the controller
\* is not master; and none otherwise, unless the driver gave up on it.
FlightInv ==
  Sure /\ result \notin {"ETIMEDOUT", "EPROTO", "resume"}
  => IF pc \in Awaiting THEN OneByte ELSE Quiet

LEMMA FlightInvariant == Spec => []FlightInv
<1>1. Init => FlightInv
  BY DEF Init, FlightInv, Sure, Quiet, Through, Awaiting
<1>2. TypeInv /\ PlaceInv /\ FlightInv /\ [Next]_vars => FlightInv'
  <2> SUFFICES ASSUME CallInv, PlaceInv, FlightInv, [Next]_vars,
                      pc # "idle" => Message.len \in Nat
               PROVE  FlightInv'
    BY LengthOfMessage DEF TypeInv
  <2> USE DEF CallInv, PlaceInv, Ending, FlightInv, Sure, Quiet, OneByte,
              Through, Awaiting
  <2>1. CASE \E request \in Requests : Xfer(request)
    BY <2>1, I2cImxAssumption DEF Xfer
  <2>2. CASE XferResumeFails \/ RuntimeSuspend
    BY <2>2 DEF XferResumeFails, RuntimeSuspend
  <2>3. CASE Start \/ StartBusy \/ Recover
    <3>1. CASE Start
      BY <3>1 DEF Start
    <3>2. CASE StartBusy
      BY <3>2 DEF StartBusy
    <3>3. CASE Recover
      BY <3>3 DEF Recover
    <3> QED
      BY <2>3, <3>1, <3>2, <3>3
  <2>4. CASE StartFails \/ Restart \/ RestartFails
    BY <2>4 DEF StartFails, Restart, RestartFails, Fail, BusBusy
  <2>5. CASE Stop \/ StopBusy \/ Disable
    BY <2>5 DEF Stop, StopBusy, Disable
  <2>6. CASE Address
    BY <2>6 DEF Address, WriteI2DR
  <2>7. CASE TrxComplete \/ TrxTimeout \/ Refused
    BY <2>7 DEF TrxComplete, TrxTimeout, Refused, Fail
  <2>8. CASE WriteByte
    BY <2>8, MessagesLeft DEF WriteByte, EndMessage, WriteI2DR, Written
  <2>9. CASE SetUpBus
    BY <2>9, MessagesLeft DEF SetUpBus, EndMessage, ReadI2DR
  <2>10. ASSUME NEW n \in BlockLengths, BlockLength(n)
         PROVE  FlightInv'
    BY <2>10, MessagesLeft, I2cImxAssumption
    DEF BlockLength, Counting, ReadI2DR
  <2>11. ASSUME NEW n \in BlockLengths, BlockLengthBad(n)
         PROVE  FlightInv'
    BY <2>11 DEF BlockLengthBad, Counting, Fail, ReadI2DR
  <2>12. CASE ReceiveStop \/ ReceiveNext
    <3>1. Message.len \in Nat
      BY <2>12 DEF ReceiveStop, ReceiveNext, Received, Counting
    <3>2. CASE ReceiveStop
      BY <3>1, <3>2 DEF ReceiveStop, Received, Counting
    <3>3. CASE ReceiveNext
      BY <3>1, <3>3 DEF ReceiveNext, Received, Counting, ReadI2DR
    <3> QED
      BY <2>12, <3>2, <3>3
  <2>13. CASE LastBusy
    BY <2>13, MessagesLeft DEF LastBusy, EndMessage, ReadI2DR
  <2>14. CASE ReceiveLast
    <3>1. Message.len \in Nat
      BY <2>14 DEF ReceiveLast, Received, Counting
    <3>2. pc = "byte_done" /\ shift' = shift
      BY <2>14, <3>1 DEF ReceiveLast, Received, Counting, ReadI2DR
    <3> QED
      BY <2>14, <3>2 DEF ReceiveLast, EndMessage
  <2>15. CASE Shifted
    BY <2>15 DEF Shifted
  <2>16. CASE ArbitrationLost \/ BusTaken \/ BusFreed \/ Interrupt
    BY <2>16 DEF ArbitrationLost, BusTaken, BusFreed, Interrupt
  <2>17. CASE UNCHANGED vars
    BY <2>17 DEF vars, Message
  <2> QED
    BY <2>1, <2>2, <2>3, <2>4, <2>5, <2>6, <2>7, <2>8, <2>9, <2>10, <2>11,
        <2>12, <2>13, <2>14, <2>15, <2>16, <2>17
    DEF Next, Driver, Controller
<1> QED
  BY <1>1, <1>2, TypeInvariant, PlaceInvariant, PTL DEF Spec

\* A byte is left in i2csr only by a transfer that gave up on it or was not to
\* be trusted anyway.
THEOREM StaleIsExplained == Spec => []StaleHasCause
<1>1. FlightInv => StaleHasCause
  BY DEF FlightInv, Sure, Quiet, Through, Awaiting, StaleHasCause
<1> QED
  BY <1>1, FlightInvariant, PTL

-----------------------------------------------------------------------------
(* TXAK, and how many bytes have gone over the wire.                       *)

\* TXAK is there for the last byte of a read, and while nothing is received; a
\* read of no byte takes it away from the next message.
TxakInv ==
  "no_address" \notin excuse =>
    /\ pc \in {"restart", "address", "await_address", "address_done",
               "last_busy"} => "TXAK" \in i2cr
    /\ pc \in {"await_byte", "byte_done"} =>
         /\ ~Message.rd => "TXAK" \in i2cr
         /\ ~Unmeasured /\ i = Message.len - 1 => "TXAK" \in i2cr
         /\ Message.rd /\ (Unmeasured \/ i # Message.len - 1) =>
              "TXAK" \notin i2cr
    /\ pc = "counted" => "TXAK" \notin i2cr

LEMMA TxakInvariant == Spec => []TxakInv
<1>1. Init => TxakInv
  BY DEF Init, TxakInv
<1>2. TypeInv /\ PlaceInv /\ TxakInv /\ [Next]_vars => TxakInv'
  <2> SUFFICES ASSUME TypeInv, PlaceInv, TxakInv, [Next]_vars,
                      "no_address" \notin excuse'
               PROVE  TxakInv'
    BY DEF TxakInv
  <2>a. i \in Nat /\ (pc # "idle" => Message.len \in Nat)
    BY LengthOfMessage DEF TypeInv, TypeOK, CallTypes
  <2> USE DEF TxakInv, Unmeasured
  <2>begin. CASE \E request \in Requests : Xfer(request)
    BY <2>begin DEF Xfer
  <2>power. CASE XferResumeFails \/ RuntimeSuspend
    BY <2>power DEF XferResumeFails, RuntimeSuspend, Message
  <2>start. CASE Start \/ StartBusy \/ Recover
    BY <2>start DEF Start, StartBusy, Recover
  <2>again. CASE Restart \/ Address
    BY <2>again DEF Restart, Address
  <2>fail. CASE StartFails \/ RestartFails \/ TrxTimeout \/ Refused
    BY <2>fail DEF StartFails, RestartFails, TrxTimeout, Refused, Fail
  <2>stop. CASE Stop \/ StopBusy \/ Disable
    BY <2>stop DEF Stop, StopBusy, Disable
  <2>complete. CASE TrxComplete
    BY <2>complete DEF TrxComplete, Message
  <2>write. CASE WriteByte
    <3>1. /\ pc \in {"address_done", "byte_done"} /\ ~Message.rd
          /\ UNCHANGED i2cr
      BY <2>write DEF WriteByte
    <3>2. \/ pc' = "await_byte" /\ UNCHANGED <<msgs, excuse>>
          \/ pc' = "stop"
          \/ pc' = "restart" /\ "no_address" \notin excuse
      BY <2>write DEF WriteByte, EndMessage
    <3>3. pc' # "stop" => "TXAK" \in i2cr
      BY <3>1, <3>2
    <3> QED
      BY <3>1, <3>2, <3>3 DEF Message
  <2>setup. CASE SetUpBus
    <3>1. pc = "address_done" /\ Message.rd /\ i = 0 /\ "TXAK" \in i2cr
      BY <2>setup DEF SetUpBus, EndMessage, PlaceInv
    <3>2. CASE Message.len = 0
      <4>1. IsLastMsg /\ pc' = "stop"
        BY <2>setup, <2>a, <3>1, <3>2 DEF SetUpBus, EndMessage
      <4> QED
        BY <4>1
    <3>3. CASE Message.len # 0
      <4>1. pc' = "await_byte" /\ Message' = Message /\ i' = 0
        BY <2>setup, <3>1, <3>3 DEF SetUpBus, Message
      <4>2. "TXAK" \in i2cr' <=> Message.len = 1 /\ ~Message.block
        BY <2>setup, <3>1 DEF SetUpBus
      <4> QED
        BY <2>a, <3>1, <4>1, <4>2
    <3> QED
      BY <3>2, <3>3
  <2>length. ASSUME NEW n \in BlockLengths, BlockLength(n)
             PROVE  TxakInv'
    BY <2>length, BlockGrows
  <2>bad. ASSUME NEW n \in BlockLengths, BlockLengthBad(n)
          PROVE  TxakInv'
    BY <2>bad DEF BlockLengthBad, Fail
  <2>last. CASE ReceiveStop \/ ReceiveLast
    <3>1. Received /\ i = Message.len - 1 /\ "no_address" \notin excuse
      BY <2>last DEF ReceiveStop, ReceiveLast, EndMessage
    <3>2. pc = "byte_done" /\ Message.rd /\ ~Unmeasured
      BY <2>a, <3>1 DEF Received, Counting, PlaceInv
    <3>3. "TXAK" \in i2cr
      BY <3>1, <3>2
    <3> QED
      BY <2>last, <3>3 DEF ReceiveStop, ReceiveLast, EndMessage
  <2>busy. CASE LastBusy
    BY <2>busy DEF LastBusy, EndMessage
  <2>next. CASE ReceiveNext
    <3>1. /\ pc' = "await_byte" /\ i' = i + 1 /\ Message' = Message
          /\ i < Message.len - 1 /\ Message.len \in Nat /\ Message.rd
          /\ "no_address" \notin excuse
          /\ "TXAK" \in i2cr' <=> "TXAK" \in i2cr \/ i = Message.len - 2
      BY <2>next, <2>a DEF ReceiveNext, Received, Counting, PlaceInv, Message
    <3>2. "TXAK" \notin i2cr
      BY <2>next, <2>a, <3>1 DEF ReceiveNext, Received, Counting
    <3> QED
      BY <2>a, <3>1, <3>2
  <2>byte. CASE Shifted \/ ArbitrationLost
    BY <2>byte DEF Shifted, ArbitrationLost, Message
  <2>bus. CASE BusTaken \/ BusFreed \/ Interrupt \/ UNCHANGED vars
    BY <2>bus DEF BusTaken, BusFreed, Interrupt, vars, Message
  <2> QED
    BY <2>begin, <2>power, <2>start, <2>again, <2>fail, <2>stop, <2>complete,
       <2>write, <2>setup, <2>length, <2>bad, <2>last, <2>busy, <2>next,
       <2>byte, <2>bus
    DEF Next, Driver, Controller
<1> QED
  BY <1>1, <1>2, TypeInvariant, PlaceInvariant, PTL DEF Spec

\* As long as each flag belongs to the byte that is awaited, it is known where
\* the driver is how many bytes are through, and what is on the wire.
ExactInv ==
  Sure =>
    /\ pc \in {"restart", "address"} => Len(wire) = 0
    /\ pc = "await_address" => /\ Len(wire) = IF Through THEN 1 ELSE 0
                               /\ shift \in {"none", "address"}
    /\ pc = "address_done" => Len(wire) = 1
    /\ pc = "await_byte" => /\ Len(wire) = i + IF Through THEN 2 ELSE 1
                            /\ Message.rd => shift \in {"none", "in"}
    /\ pc = "byte_done" => Len(wire) = i + 2
    /\ pc = "counted" => /\ Len(wire) = IF Through THEN 3 ELSE 2
                         /\ shift \in {"none", "in"}
    /\ pc = "last_busy" => Len(wire) = Message.len + 1

LEMMA ExactInvariant == Spec => []ExactInv
<1>1. Init => ExactInv
  BY DEF Init, ExactInv
<1>2. TypeInv /\ PlaceInv /\ FlightInv /\ ExactInv /\ [Next]_vars => ExactInv'
  <2> SUFFICES ASSUME TypeInv, PlaceInv, FlightInv, ExactInv, [Next]_vars, Sure'
               PROVE  ExactInv'
    BY DEF ExactInv
  <2>a. /\ i \in Nat /\ wire \in Seq(BOOLEAN) /\ Len(wire) \in Nat
        /\ pc # "idle" => Message.len \in Nat
    BY LengthOfMessage DEF TypeInv, TypeOK, CallTypes, HistoryTypes
  \* Between two waits nothing is in flight.
  <2>b. ASSUME Sure, pc \notin Ending \cup Awaiting
        PROVE  shift = "none" /\ ~Through
    BY <2>b DEF FlightInv, PlaceInv, Quiet, Ending
  <2>begin. CASE \E request \in Requests : Xfer(request)
    BY <2>begin DEF Xfer, ExactInv
  <2>power. CASE XferResumeFails \/ RuntimeSuspend
    BY <2>power DEF XferResumeFails, RuntimeSuspend, Message, ExactInv, Sure,
                    Through
  <2>start. CASE Start \/ StartBusy \/ Recover
    <3>1. /\ pc \in {"start", "start_busy"} /\ UNCHANGED wire
          /\ pc' \in {"start", "start_busy", "address"}
      BY <2>start DEF Start, StartBusy, Recover
    <3>2. wire' = <<>>
      BY <3>1 DEF PlaceInv
    <3> QED
      BY <3>1, <3>2 DEF ExactInv
  <2>again. CASE Restart
    BY <2>again DEF Restart, ExactInv, Sure
  <2>address. CASE Address
    <3>1. Sure /\ pc = "address" /\ pc' = "await_address"
      BY <2>address DEF Address, Sure
    <3>2. shift = "none" /\ ~Through'
      BY <2>address, <2>b, <3>1 DEF Address, Ending, Awaiting, Through
    <3> QED
      BY <2>address, <3>1, <3>2 DEF Address, WriteI2DR, ExactInv
  <2>fail. CASE StartFails \/ RestartFails \/ TrxTimeout \/ Refused
    BY <2>fail DEF StartFails, RestartFails, TrxTimeout, Refused, Fail, ExactInv
  <2>stop. CASE Stop \/ StopBusy \/ Disable
    BY <2>stop DEF Stop, StopBusy, Disable, ExactInv
  <2>complete. CASE TrxComplete
    <3>1. Sure /\ Through /\ UNCHANGED <<msgs, i, wire, shift>>
      BY <2>complete DEF TrxComplete, Sure, Through
    <3> QED
      BY <2>complete, <2>a, <3>1 DEF TrxComplete, ExactInv
  <2>write. CASE WriteByte
    <3>1. /\ pc \in {"address_done", "byte_done"} /\ ~Message.rd
          /\ UNCHANGED <<i2csr, i2sr>>
      BY <2>write DEF WriteByte
    <3>2. CASE Written < Message.len
      <4>1. /\ pc' = "await_byte" /\ i' = Written /\ UNCHANGED <<wire, excuse>>
            /\ Message' = Message
        BY <2>write, <3>2 DEF WriteByte, Message
      <4>2. Sure /\ ~Through'
        BY <2>b, <3>1, <4>1 DEF Sure, Ending, Awaiting, Through
      <4>3. Len(wire) = Written + 1
        BY <2>a, <3>1, <4>2 DEF ExactInv, Written, PlaceInv
      <4> QED
        BY <2>a, <3>1, <4>1, <4>2, <4>3 DEF ExactInv
    <3>3. CASE ~(Written < Message.len)
      <4>1. pc' = "stop" \/ (pc' = "restart" /\ wire' = <<>>)
        BY <2>write, <3>3 DEF WriteByte, EndMessage
      <4> QED
        BY <4>1 DEF ExactInv
    <3> QED
      BY <3>2, <3>3
  <2>setup. CASE SetUpBus
    <3>1. /\ pc = "address_done" /\ Message.rd /\ Message.len # 0
          /\ pc' = "await_byte"
          /\ UNCHANGED <<msgs, i, i2csr, i2sr, wire, excuse>>
      BY <2>setup, <2>a DEF SetUpBus, EndMessage, Sure
    <3>2. Sure /\ shift = "none" /\ ~Through'
      BY <2>b, <3>1 DEF Sure, Ending, Awaiting, Through
    <3>3. Len(wire) = i + 1 /\ shift' \in {"none", "in"}
      BY <2>setup, <3>1, <3>2 DEF SetUpBus, ReadI2DR, ExactInv, PlaceInv
    <3> QED
      BY <2>a, <3>1, <3>2, <3>3 DEF ExactInv
  <2>length. ASSUME NEW n \in BlockLengths, BlockLength(n)
             PROVE  ExactInv'
    <3>1. /\ pc = "byte_done" /\ i = 0 /\ pc' = "counted" /\ ReadI2DR(i2cr)
          /\ UNCHANGED <<i, i2csr, i2sr, wire>>
      BY <2>length, BlockGrows
    <3>2. Sure
      BY <2>length, BlockGrows DEF Sure
    <3>3. shift = "none" /\ ~Through'
      BY <2>b, <3>1, <3>2 DEF Ending, Awaiting, Through
    <3> QED
      BY <2>a, <3>1, <3>2, <3>3 DEF ExactInv, ReadI2DR
  <2>bad. ASSUME NEW n \in BlockLengths, BlockLengthBad(n)
          PROVE  ExactInv'
    BY <2>bad DEF BlockLengthBad, Fail, ExactInv
  <2>last. CASE ReceiveStop
    <3>1. /\ pc = "byte_done" /\ i = Message.len - 1 /\ pc' = "last_busy"
          /\ Message' = Message /\ UNCHANGED <<wire, excuse>>
      BY <2>last, <2>a DEF ReceiveStop, Received, Counting, PlaceInv, Message
    <3> QED
      BY <2>a, <3>1 DEF ExactInv, Sure
  <2>end. CASE LastBusy \/ ReceiveLast
    <3>1. pc' = "stop" \/ (pc' = "restart" /\ wire' = <<>>)
      BY <2>end DEF LastBusy, ReceiveLast, EndMessage
    <3> QED
      BY <3>1 DEF ExactInv
  <2>next. CASE ReceiveNext
    <3>1. /\ pc \in {"byte_done", "counted"} /\ pc' = "await_byte"
          /\ i' = i + 1 /\ Message' = Message
          /\ UNCHANGED <<wire, i2csr, i2sr, excuse>>
          /\ shift' \in {shift, "in"}
      BY <2>next DEF ReceiveNext, Received, Counting, ReadI2DR, Message
    <3>2. Sure /\ (Through' <=> Through)
      BY <3>1 DEF Sure, Through
    <3>3. CASE pc = "byte_done"
      <4>1. shift = "none" /\ ~Through
        BY <2>b, <3>2, <3>3 DEF Ending, Awaiting
      <4> QED
        BY <2>a, <3>1, <3>2, <3>3, <4>1 DEF ExactInv
    <3>4. CASE pc = "counted"
      <4>1. i = 0 /\ i' = 1
        BY <3>1, <3>4 DEF PlaceInv
      <4>2. /\ Len(wire) = IF Through THEN 3 ELSE 2
            /\ shift \in {"none", "in"}
        BY <3>2, <3>4 DEF ExactInv
      <4>3. /\ Len(wire') = i' + IF Through' THEN 2 ELSE 1
            /\ shift' \in {"none", "in"}
        BY <3>1, <3>2, <4>1, <4>2
      <4> QED
        BY <3>1, <4>3 DEF ExactInv
    <3> QED
      BY <3>1, <3>3, <3>4
  <2>byte. CASE Shifted
    <3>1. /\ UNCHANGED <<pc, msgs, i, result, excuse>>
          /\ shift # "none" /\ shift' = "none" /\ "IIF" \in i2sr'
          /\ Len(wire') = Len(wire) + 1
      BY <2>byte, <2>a DEF Shifted
    <3>2. Sure /\ Message' = Message /\ Through'
      BY <3>1 DEF Sure, Message, Through
    <3>3. pc \in Ending \/ (pc \in Awaiting /\ ~Through)
      BY <2>b, <3>1, <3>2 DEF FlightInv, PlaceInv, OneByte
    <3>4. CASE pc = "await_address"
      BY <3>1, <3>2, <3>3, <3>4 DEF ExactInv, Ending
    <3>5. CASE pc = "await_byte"
      BY <2>a, <3>1, <3>2, <3>3, <3>5 DEF ExactInv, Ending
    <3>6. CASE pc = "counted"
      <4>0. ~Through
        BY <3>3, <3>6 DEF Ending
      <4>1. Len(wire) = 2
        BY <3>2, <3>6, <4>0 DEF ExactInv
      <4>1a. Len(wire') = 3
        BY <3>1, <4>1
      <4>2. Len(wire') = IF Through' THEN 3 ELSE 2
        BY <3>2, <4>1a
      <4>3. pc' = "counted" /\ shift' \in {"none", "in"}
        BY <3>1, <3>6
      <4> QED
        BY <4>2, <4>3 DEF ExactInv
    <3> QED
      BY <3>1, <3>3, <3>4, <3>5, <3>6 DEF ExactInv, Ending, Awaiting
  <2>lost. CASE ArbitrationLost
    BY <2>lost DEF ArbitrationLost, Sure
  <2>bus. CASE BusTaken \/ BusFreed \/ Interrupt \/ UNCHANGED vars
    <3>1. /\ UNCHANGED <<pc, msgs, i, wire, excuse>>
          /\ shift' \in {shift, "none"}
      BY <2>bus DEF BusTaken, BusFreed, Interrupt, vars
    <3>2. (Sure' <=> Sure) /\ Message' = Message
      BY <3>1 DEF Sure, Message
    <3>3. Through' <=> Through
      BY <2>bus DEF BusTaken, BusFreed, Interrupt, vars, Through
    <3> QED
      BY <3>1, <3>2, <3>3 DEF ExactInv
  <2> QED
    BY <2>begin, <2>power, <2>start, <2>again, <2>address, <2>fail, <2>stop,
       <2>complete, <2>write, <2>setup, <2>length, <2>bad, <2>last, <2>end,
       <2>next, <2>byte, <2>lost, <2>bus
    DEF Next, Driver, Controller
<1> QED
  BY <1>1, <1>2, TypeInvariant, PlaceInvariant, FlightInvariant, PTL DEF Spec

-----------------------------------------------------------------------------
(* The acknowledge bits.                                                   *)

\* The controller shows the acknowledge bit of the last byte.
AckInv ==
  pc # "idle" /\ wire # <<>> => wire[Len(wire)] = ("RXAK" \notin i2sr)

\* What another byte adds to the history.
LEMMA Appended ==
  ASSUME wire \in Seq(BOOLEAN), NEW ack \in BOOLEAN
  PROVE  LET longer == Append(wire, ack)
         IN  /\ longer # <<>> /\ Len(longer) = Len(wire) + 1
             /\ longer[Len(wire) + 1] = ack
             /\ \A k \in 1 .. Len(wire) : longer[k] = wire[k]
OBVIOUS

LEMMA AckInvariant == Spec => []AckInv
<1>1. Init => AckInv
  BY DEF Init, AckInv
<1>2. TypeInv /\ PlaceInv /\ AckInv /\ [Next]_vars => AckInv'
  <2> SUFFICES ASSUME TypeInv, PlaceInv, AckInv, [Next]_vars
               PROVE  AckInv'
    OBVIOUS
  <2> USE DEF AckInv
  <2>1. CASE \E request \in Requests : Xfer(request)
    BY <2>1 DEF Xfer
  <2>2. CASE XferResumeFails \/ RuntimeSuspend
    BY <2>2 DEF XferResumeFails, RuntimeSuspend
  <2>3. CASE Start
    BY <2>3 DEF Start, PlaceInv
  <2>4. CASE StartBusy
    BY <2>4 DEF StartBusy
  <2>5. CASE Recover
    BY <2>5 DEF Recover
  <2>6. CASE StartFails \/ Restart \/ RestartFails
    BY <2>6 DEF StartFails, Restart, RestartFails, Fail, BusBusy
  <2>7. CASE Stop \/ StopBusy \/ Disable
    BY <2>7 DEF Stop, StopBusy, Disable
  <2>8. CASE Address
    BY <2>8 DEF Address, WriteI2DR
  <2>9. CASE TrxComplete
    BY <2>9 DEF TrxComplete
  <2>10. CASE TrxTimeout \/ Refused
    BY <2>10 DEF TrxTimeout, Refused, Fail
  <2>11. CASE WriteByte
    BY <2>11, MessagesLeft DEF WriteByte, EndMessage, WriteI2DR, Written
  <2>12. CASE SetUpBus
    BY <2>12, MessagesLeft DEF SetUpBus, EndMessage, ReadI2DR
  <2>13. ASSUME NEW n \in BlockLengths, BlockLength(n)
         PROVE  AckInv'
    BY <2>13, BlockGrows DEF ReadI2DR
  <2>14. ASSUME NEW n \in BlockLengths, BlockLengthBad(n)
         PROVE  AckInv'
    BY <2>14 DEF BlockLengthBad, Counting, Fail, ReadI2DR
  <2>15. CASE ReceiveStop
    BY <2>15 DEF ReceiveStop, Received, Counting
  <2>16. CASE ReceiveNext
    BY <2>16 DEF ReceiveNext, Received, Counting, ReadI2DR
  <2>17. CASE LastBusy
    BY <2>17 DEF LastBusy, EndMessage, ReadI2DR
  <2>18. CASE ReceiveLast
    BY <2>18 DEF ReceiveLast, Received, Counting, EndMessage, ReadI2DR
  <2>19. CASE Shifted
    <3>1. wire \in Seq(BOOLEAN)
      BY DEF TypeInv, TypeOK, HistoryTypes
    <3>2. PICK ack \in BOOLEAN :
            /\ i2sr' = (i2sr \ {"RXAK"}) \cup {"IIF"}
                         \cup IF ack THEN {} ELSE {"RXAK"}
            /\ wire' = Append(wire, ack)
      BY <2>19 DEF Shifted
    <3>3. ack = ("RXAK" \notin i2sr')
      BY <3>2
    <3>4. wire'[Len(wire')] = ack
      BY <3>1, <3>2, Appended
    <3> QED
      BY <3>3, <3>4
  <2>20. CASE ArbitrationLost \/ BusTaken \/ BusFreed
    BY <2>20 DEF ArbitrationLost, BusTaken, BusFreed
  <2>21. CASE Interrupt
    BY <2>21 DEF Interrupt
  <2>22. CASE UNCHANGED vars
    BY <2>22 DEF vars
  <2> QED
    BY <2>1, <2>2, <2>3, <2>4, <2>5, <2>6, <2>7, <2>8, <2>9, <2>10, <2>11,
        <2>12, <2>13, <2>14, <2>15, <2>16, <2>17, <2>18, <2>19, <2>20, <2>21,
        <2>22
    DEF Next, Driver, Controller
<1> QED
  BY <1>1, <1>2, TypeInvariant, PlaceInvariant, PTL DEF Spec

-----------------------------------------------------------------------------
(* The bytes of a read.                                                    *)

Trusted == "stale" \notin excuse /\ "no_address" \notin excuse

\* Byte k of the wire is acknowledged, unless it is the last that is read.
RightAck(k) == LengthUnread \/ k # Message.len + 1

\* The only byte of a block of one was under way when TXAK was set.
Spared(k) == Message.block /\ ~LengthUnread /\ Message.len = 2 /\ k = 3

AckOK(k, ack) == ack = RightAck(k) \/ Spared(k)

Bits == \A k \in 2 .. Len(wire) : AckOK(k, wire[k])

\* What is on the wire will be acknowledged as it should be.
Coming ==
  /\ shift = "in" => AckOK(Len(wire) + 1, "TXAK" \notin i2cr)
  /\ shift = "address" => Len(wire) = 0
  /\ shift # "out"

\* How many bytes were clocked, with the one on the wire.
Clocked == Len(wire) + IF shift = "none" THEN 0 ELSE 1

ClockedInv ==
  /\ pc \in {"start", "start_busy", "restart", "address"} => Clocked <= 0
  /\ pc \in {"await_address", "address_done"} => Clocked <= 1
  /\ pc \in {"await_byte", "byte_done", "last_busy"} => Clocked <= i + 2
  /\ pc = "counted" => Clocked <= 3
  /\ pc \in Ending => Clocked <= 1 + MayClock

\* In the middle of a read what is on the wire follows from where the driver
\* is; at its end it has to be remembered.
ReadInv ==
  Trusted /\ pc # "idle" /\ Message.rd =>
    ClockedInv /\ Bits /\ (pc \in Ending => Coming)

\* During a message that can be trusted nothing is on the wire but the byte that
\* is awaited.
LEMMA OnlyAwaited ==
  ASSUME PlaceInv, TagInv, LostInv, FlightInv, Trusted, pc \notin Ending
  PROVE  /\ "arbitration" \notin excuse => Sure
         /\ shift = "none" \/ (Sure /\ pc \in Awaiting /\ ~Through)
<1>1. result = "ok"
  BY DEF PlaceInv
<1>2. CASE "arbitration" \in excuse
  BY <1>2 DEF LostInv
<1>3. CASE "arbitration" \notin excuse
  <2>1. Sure
    BY <1>3 DEF Sure, Trusted, TagInv
  <2> QED
    BY <1>1, <1>3, <2>1 DEF FlightInv, Quiet, OneByte
<1> QED
  BY <1>2, <1>3

\* Its acknowledge bit will be right, as TXAK is set now.
LEMMA Comes ==
  ASSUME TypeInv, PlaceInv, TagInv, LostInv, FlightInv, TxakInv, ExactInv,
         Trusted, pc \notin Ending, Message.rd
  PROVE  Coming
<1>1. CASE shift = "none"
  BY <1>1 DEF Coming
<1>2. CASE shift # "none"
  <2>1. Sure /\ pc \in Awaiting /\ ~Through
    BY <1>2, OnlyAwaited
  <2>2. i \in Nat /\ Len(wire) \in Nat /\ Message.len \in Nat
    BY LengthOfMessage DEF TypeInv, TypeOK, CallTypes, HistoryTypes, Ending
  <2>3. shift \in {"none", "address", "out", "in"} /\ "no_address" \notin excuse
    BY DEF TypeInv, TypeOK, ControllerTypes, Trusted
  <2>4. CASE pc = "await_address"
    BY <1>2, <2>1, <2>4 DEF Coming, ExactInv
  <2>5. CASE pc = "await_byte"
    <3>1. shift = "in" /\ Len(wire) = i + 1
      BY <1>2, <2>1, <2>5 DEF ExactInv
    <3>2. /\ LengthUnread <=> Unmeasured
          /\ Unmeasured \/ i # Message.len - 1 => "TXAK" \notin i2cr
          /\ ~Unmeasured /\ i = Message.len - 1 => "TXAK" \in i2cr
      BY <2>3, <2>5 DEF TxakInv, LengthUnread, Unmeasured
    <3>3. ("TXAK" \notin i2cr) = RightAck(Len(wire) + 1)
      <4>1. CASE Unmeasured
        BY <3>2, <4>1 DEF RightAck
      <4>2. CASE ~Unmeasured /\ i = Message.len - 1
        <5>1. Len(wire) + 1 = Message.len + 1 /\ ~LengthUnread
          BY <2>2, <3>1, <3>2, <4>2
        <5> QED
          BY <3>2, <4>2, <5>1 DEF RightAck
      <4>3. CASE ~Unmeasured /\ i # Message.len - 1
        <5>1. Len(wire) + 1 # Message.len + 1
          BY <2>2, <3>1, <4>3
        <5> QED
          BY <3>2, <4>3, <5>1 DEF RightAck
      <4> QED
        BY <4>1, <4>2, <4>3
    <3> QED
      BY <3>1, <3>3 DEF Coming, AckOK
  <2>6. CASE pc = "counted"
    <3>1. shift = "in" /\ Len(wire) + 1 = 3 /\ "TXAK" \notin i2cr
      <4>1. Len(wire) = 2 /\ shift \in {"none", "in"}
        BY <2>1, <2>6 DEF ExactInv
      <4> QED
        BY <1>2, <2>3, <2>6, <4>1 DEF TxakInv
    <3>2. Message.block /\ ~LengthUnread /\ Message.len >= 2
      BY <2>6 DEF PlaceInv, LengthUnread
    <3>3. CASE Message.len = 2
      <4>1. Spared(Len(wire) + 1)
        BY <3>1, <3>2, <3>3 DEF Spared
      <4>2. AckOK(Len(wire) + 1, "TXAK" \notin i2cr)
        BY <4>1 DEF AckOK
      <4> QED
        BY <3>1, <4>2 DEF Coming
    <3>4. CASE Message.len # 2
      <4>1. RightAck(3) = TRUE
        BY <2>2, <3>4 DEF RightAck
      <4>2. ("TXAK" \notin i2cr) = RightAck(3)
        BY <3>1, <4>1
      <4> QED
        BY <3>1, <4>2 DEF Coming, AckOK
    <3> QED
      BY <3>3, <3>4
  <2> QED
    BY <2>1, <2>4, <2>5, <2>6 DEF Awaiting
<1> QED
  BY <1>1, <1>2

\* The bits are right as long as what was read of the message is the same.
LEMMA BitsStay ==
  ASSUME UNCHANGED <<msgs, wire>>, LengthUnread' <=> LengthUnread, Bits
  PROVE  Bits'
<1>1. Message' = Message
  BY DEF Message
<1>2. ASSUME NEW k \in 2 .. Len(wire)
      PROVE  AckOK(k, wire[k])'
  <2>1. RightAck(k)' <=> RightAck(k)
    BY <1>1 DEF RightAck
  <2>2. RightAck(k)' = RightAck(k)
    BY <2>1 DEF RightAck
  <2>3. Spared(k)' <=> Spared(k)
    BY <1>1 DEF Spared
  <2>4. AckOK(k, wire[k])
    BY DEF Bits
  <2> QED
    BY <2>2, <2>3, <2>4 DEF AckOK
<1> QED
  BY <1>2 DEF Bits

\* What is on the wire, too, or it was cut off.
LEMMA ComingStays ==
  ASSUME UNCHANGED <<msgs, wire>>, LengthUnread' <=> LengthUnread, Coming,
         shift' \in {shift, "none"}, "TXAK" \in i2cr' <=> "TXAK" \in i2cr
  PROVE  Coming'
<1>1. Message' = Message
  BY DEF Message
<1>2. CASE shift' = "in"
  <2> DEFINE k == Len(wire) + 1
  <2>1. RightAck(k)' <=> RightAck(k)
    BY <1>1 DEF RightAck
  <2>2. RightAck(k)' = RightAck(k)
    BY <2>1 DEF RightAck
  <2>3. Spared(k)' <=> Spared(k)
    BY <1>1 DEF Spared
  <2>4. AckOK(k, "TXAK" \notin i2cr)
    BY <1>2 DEF Coming
  <2>5. ("TXAK" \notin i2cr') = ("TXAK" \notin i2cr)
    OBVIOUS
  <2>6. AckOK(k, "TXAK" \notin i2cr)'
    BY <2>2, <2>3, <2>4, <2>5 DEF AckOK
  <2> QED
    BY <1>2, <2>6 DEF Coming
<1>3. CASE shift' # "in"
  BY <1>3 DEF Coming
<1> QED
  BY <1>2, <1>3

\* A message that has not begun.
LEMMA Fresh ==
  ASSUME wire' = <<>>, shift' = "none"
  PROVE  Clocked' = 0 /\ Bits' /\ Coming'
<1>1. Len(wire') = 0
  OBVIOUS
<1> QED
  BY <1>1 DEF Clocked, Bits, Coming

LEMMA ReadInvariant == Spec => []ReadInv
<1>1. Init => ReadInv
  BY DEF Init, ReadInv
<1>2. /\ TypeInv /\ PlaceInv /\ TagInv /\ LostInv /\ FlightInv /\ TxakInv
      /\ ExactInv /\ ReadInv /\ [Next]_vars
      => ReadInv'
  <2> SUFFICES ASSUME TypeInv, PlaceInv, TagInv, LostInv, FlightInv, TxakInv,
                      ExactInv, ReadInv, [Next]_vars,
                      Trusted', pc' # "idle", Message'.rd
               PROVE  ClockedInv' /\ Bits' /\ (pc' \in Ending => Coming')
    BY DEF ReadInv
  <2>a. /\ i \in Nat /\ wire \in Seq(BOOLEAN) /\ Len(wire) \in Nat
        /\ Clocked \in Nat
        /\ pc # "idle" => Message.len \in Nat
    BY LengthOfMessage DEF TypeInv, TypeOK, CallTypes, HistoryTypes, Clocked
  <2>r. ASSUME Trusted, pc # "idle", Message.rd
        PROVE  ClockedInv /\ Bits /\ Coming
    BY <2>r, Comes DEF ReadInv
  <2>q. ASSUME Trusted, pc \notin Ending \cup Awaiting
        PROVE  shift = "none"
    BY <2>q, OnlyAwaited
  \* The driver does nothing, and no byte is through.
  <2>s. ASSUME UNCHANGED <<msgs, i, result, wire>>, excuse \subseteq excuse',
               \/ pc' = pc
               \/ pc \in {"stop", "stop_busy"} /\ pc' \in Ending,
               shift' \in {shift, "none"},
               "TXAK" \in i2cr' <=> "TXAK" \in i2cr
        PROVE  ClockedInv' /\ Bits' /\ (pc' \in Ending => Coming')
    <3>1. Message' = Message /\ Trusted /\ pc # "idle"
      BY <2>s DEF Message, Trusted
    <3>2. ClockedInv /\ Bits /\ Coming
      BY <2>r, <2>s, <3>1
    <3>3. LengthUnread' <=> LengthUnread
      BY <2>s, <3>1 DEF LengthUnread, Ending
    <3>4. Bits' /\ Coming'
      BY <2>s, <3>2, <3>3, BitsStay, ComingStays
    <3>5. Clocked' <= Clocked /\ Clocked' \in Nat
      BY <2>a, <2>s DEF Clocked
    <3>6. MayClock' = MayClock
      BY <2>s, <3>1, <3>3 DEF MayClock
    <3>7. MayClock \in Nat
      BY <2>a, <3>1 DEF MayClock
    <3>8. ClockedInv'
      BY <2>a, <2>s, <3>2, <3>5, <3>6, <3>7 DEF ClockedInv, Ending
    <3> QED
      BY <3>4, <3>8
  <2>begin. CASE \E request \in Requests : Xfer(request)
    <3>1. wire' = <<>> /\ shift' = "none" /\ pc' = "start"
      BY <2>begin DEF Xfer, TypeInv, CallInv
    <3> QED
      BY <3>1, Fresh DEF ClockedInv, Ending
  <2>power. CASE XferResumeFails
    BY <2>power DEF XferResumeFails
  <2>suspend. CASE RuntimeSuspend
    BY <2>suspend, <2>s DEF RuntimeSuspend
  <2>start. CASE Start \/ StartBusy \/ Recover
    <3>1. /\ pc \in {"start", "start_busy"} /\ UNCHANGED <<wire, shift>>
          /\ pc' \in {"start", "start_busy", "address"}
      BY <2>start DEF Start, StartBusy, Recover
    <3>2. wire' = <<>> /\ shift' = "none"
      BY <3>1 DEF PlaceInv
    <3> QED
      BY <3>1, <3>2, Fresh DEF ClockedInv, Ending
  <2>again. CASE Restart \/ Address
    <3>1. /\ \/ pc = "restart" /\ pc' = "address" /\ shift' = shift
             \/ /\ pc = "address" /\ pc' = "await_address"
                /\ shift' \in {shift, "address"}
          /\ UNCHANGED <<msgs, wire, excuse>>
      BY <2>again DEF Restart, Address, WriteI2DR
    <3>2. Trusted /\ Message' = Message
      BY <3>1 DEF Trusted, Message
    <3>3. Len(wire) = 0 /\ shift = "none"
      <4>1. Clocked <= 0
        BY <2>r, <3>1, <3>2 DEF ClockedInv
      <4> QED
        BY <2>a, <4>1 DEF Clocked
    <3> QED
      BY <3>1, <3>3 DEF ClockedInv, Clocked, Bits, Ending
  <2>fail. CASE StartFails \/ RestartFails \/ TrxTimeout \/ Refused
    <3>1. /\ pc \in {"start_busy", "restart", "await_address", "await_byte",
                     "address_done", "byte_done"}
          /\ pc' = "stop" /\ result' # "EPROTO"
          /\ UNCHANGED <<msgs, i, wire, excuse, shift, i2cr>>
      BY <2>fail
      DEF StartFails, RestartFails, TrxTimeout, Refused, Fail, BusBusy
    <3>2. Trusted /\ Message' = Message /\ pc # "idle"
      BY <3>1 DEF Trusted, Message
    <3>3. ClockedInv /\ Bits /\ Coming
      BY <2>r, <3>2
    <3>4. LengthUnread' <=> LengthUnread
      BY <3>1, <3>2 DEF LengthUnread
    <3>5. Bits' /\ Coming'
      BY <3>1, <3>3, <3>4, BitsStay, ComingStays
    <3>6. Clocked' = Clocked
      BY <3>1 DEF Clocked
    <3>7. /\ MayClock' \in Nat /\ MayClock' >= 1
          /\ pc \in {"await_byte", "byte_done"} => i + 1 <= MayClock'
      <4>1. Message'.len \in Nat /\ i' = i
        BY <2>a, <3>1, <3>2
      <4> QED
        BY <2>a, <3>1, <3>2, <4>1 DEF MayClock, PlaceInv, LengthUnread
    <3>8. PICK may \in Nat : may = MayClock'
      BY <3>7
    <3>9. Clocked <= 1 + may
      <4>1. CASE pc \in {"await_byte", "byte_done"}
        <5>1. Clocked <= i + 2 /\ i + 1 <= may
          BY <3>3, <3>7, <3>8, <4>1 DEF ClockedInv
        <5>2. Clocked \in Nat /\ i \in Nat
          BY <2>a
        <5> QED
          BY <5>1, <5>2
      <4>2. CASE pc \notin {"await_byte", "byte_done"}
        <5>1. Clocked <= 1
          BY <2>a, <3>1, <3>3, <4>2 DEF ClockedInv
        <5>2. Clocked \in Nat
          BY <2>a
        <5>3. may >= 1
          BY <3>7, <3>8
        <5> QED
          BY <5>1, <5>2, <5>3
      <4> QED
        BY <4>1, <4>2
    <3> QED
      BY <3>1, <3>5, <3>6, <3>8, <3>9 DEF ClockedInv, Ending
  <2>stop. CASE Stop \/ StopBusy \/ Disable
    BY <2>stop, <2>s DEF Stop, StopBusy, Disable, Ending
  <2>complete. CASE TrxComplete
    <3>1. /\ \/ pc = "await_address" /\ pc' = "address_done"
             \/ pc = "await_byte" /\ pc' = "byte_done"
          /\ UNCHANGED <<msgs, i, wire, excuse, shift>>
      BY <2>complete DEF TrxComplete
    <3>2. Trusted /\ Message' = Message /\ Clocked' = Clocked
      BY <3>1 DEF Trusted, Message, Clocked
    <3>3. LengthUnread' <=> LengthUnread
      BY <3>1, <3>2 DEF LengthUnread
    <3>4. ClockedInv /\ Bits
      BY <2>r, <3>1, <3>2
    <3>5. Bits'
      BY <3>1, <3>3, <3>4, BitsStay
    <3> QED
      BY <3>1, <3>2, <3>4, <3>5 DEF ClockedInv, Ending
  <2>write. CASE WriteByte
    <3>1. /\ pc \in {"address_done", "byte_done"} /\ ~Message.rd
          /\ \/ pc' = "await_byte" /\ msgs' = msgs
             \/ shift' = shift /\ EndMessage
      BY <2>write DEF WriteByte
    <3>2. msgs' # msgs
      BY <3>1 DEF Message
    <3>3. /\ pc' = "restart" /\ wire' = <<>> /\ shift' = shift
          /\ excuse \subseteq excuse'
      BY <3>1, <3>2 DEF EndMessage
    <3>4. Trusted
      BY <3>3 DEF Trusted
    <3>5. shift = "none"
      BY <2>q, <3>1, <3>4 DEF Ending, Awaiting
    <3> QED
      BY <3>3, <3>5, Fresh DEF ClockedInv, Ending
  <2>setup. CASE SetUpBus
    <3>1. /\ pc = "address_done" /\ Message.rd /\ i = 0 /\ i' = 0
          /\ excuse \subseteq excuse' /\ shift' \in {shift, "in"}
      BY <2>setup DEF SetUpBus, EndMessage, ReadI2DR, PlaceInv
    <3>2. Trusted
      BY <3>1 DEF Trusted
    <3>3. shift = "none"
      BY <2>q, <3>1, <3>2 DEF Ending, Awaiting
    <3>4. Len(wire) <= 1
      <4>1. Clocked <= 1
        BY <2>r, <3>1, <3>2 DEF ClockedInv
      <4> QED
        BY <2>a, <3>3, <4>1 DEF Clocked
    <3>l. Message.len = 0 => IsLastMsg
      BY <2>setup, <2>a, <3>1 DEF SetUpBus, EndMessage, Trusted
    <3>5. UNCHANGED <<msgs, wire>>
      BY <2>setup, <3>l DEF SetUpBus, EndMessage
    <3>6. Clocked' <= 2 /\ Bits' /\ Message' = Message
      BY <2>a, <3>4, <3>5 DEF Clocked, Bits, Message
    <3>7. CASE Message.len # 0
      <4>1. pc' = "await_byte"
        BY <2>setup, <3>7 DEF SetUpBus
      <4> QED
        BY <3>1, <3>6, <4>1 DEF ClockedInv, Ending
    <3>8. CASE Message.len = 0
      <4>0. pc' = "stop"
        BY <2>setup, <3>l, <3>8 DEF SetUpBus, EndMessage
      <4>1. pc' = "stop" /\ "TXAK" \notin i2cr'
        BY <2>setup, <3>8, <4>0 DEF SetUpBus
      <4>2. MayClock' = 1
        BY <3>6, <3>8 DEF MayClock
      <4>3. ClockedInv'
        BY <3>6, <4>1, <4>2 DEF ClockedInv, Ending
      <4>4. ASSUME shift' = "in"
            PROVE  Len(wire) = 1
        <5>1. "MSTA" \in i2cr
          BY <2>setup, <3>3, <4>4 DEF SetUpBus, ReadI2DR
        <5>2. Sure
          BY <3>1, <3>2, <5>1, OnlyAwaited DEF LostInv, Ending
        <5> QED
          BY <3>1, <5>2 DEF ExactInv
      <4>5. Coming'
        <5>1. CASE shift' = "none"
          BY <5>1 DEF Coming
        <5>2. CASE shift' = "in"
          <6>1. Len(wire') + 1 = 2
            BY <3>5, <4>4, <5>2
          <6>2. RightAck(2)' = TRUE
            BY <3>6, <3>8 DEF RightAck
          <6>3. ("TXAK" \notin i2cr') = RightAck(2)'
            BY <4>1, <6>2
          <6> QED
            BY <5>2, <6>1, <6>3 DEF Coming, AckOK
        <5> QED
          BY <3>1, <3>3, <5>1, <5>2
      <4> QED
        BY <3>6, <4>3, <4>5
    <3> QED
      BY <3>7, <3>8
  <2>length. ASSUME NEW n \in BlockLengths, BlockLength(n)
             PROVE  ClockedInv' /\ Bits' /\ (pc' \in Ending => Coming')
    <3>1. /\ pc = "byte_done" /\ Message.rd /\ Message.block /\ i = 0
          /\ pc' = "counted" /\ n >= 1 /\ n \in Nat
          /\ Message'.len = Message.len + n /\ Message.len \in Nat
          /\ wire' = wire /\ excuse \subseteq excuse'
          /\ shift' \in {shift, "in"}
      BY <2>length, BlockGrows DEF ReadI2DR
    <3>2. Trusted /\ shift = "none"
      BY <2>q, <3>1 DEF Trusted, Ending, Awaiting
    <3>3. ClockedInv /\ Bits
      BY <2>r, <3>1, <3>2
    <3>4. Len(wire) <= 2
      BY <2>a, <3>1, <3>2, <3>3 DEF ClockedInv, Clocked
    <3>5. ASSUME NEW k \in 2 .. Len(wire)
          PROVE  AckOK(k, wire[k])'
      <4>1. k = 2
        BY <2>a, <3>4
      <4>2. RightAck(k) = TRUE /\ ~Spared(k)
        BY <3>1, <4>1 DEF RightAck, Spared, LengthUnread
      <4>3. wire[k] = TRUE
        BY <3>3, <4>2 DEF Bits, AckOK
      <4>4. Message'.len + 1 # 2
        BY <3>1 DEF PlaceInv
      <4>5. RightAck(k)' = TRUE
        BY <4>1, <4>4 DEF RightAck
      <4>6. wire'[k] = RightAck(k)'
        BY <3>1, <4>3, <4>5
      <4> QED
        BY <4>6 DEF AckOK
    <3>6. Clocked' <= 3
      BY <2>a, <3>1, <3>4 DEF Clocked
    <3> QED
      BY <3>1, <3>5, <3>6 DEF ClockedInv, Bits, Ending
  <2>bad. ASSUME NEW n \in BlockLengths, BlockLengthBad(n)
          PROVE  ClockedInv' /\ Bits' /\ (pc' \in Ending => Coming')
    <3>1. /\ pc = "byte_done" /\ Message.rd /\ Message.block /\ i = 0
          /\ pc' = "stop" /\ result' = "EPROTO"
          /\ UNCHANGED <<msgs, i, wire, excuse, i2cr>>
          /\ shift' \in {shift, "in"}
      BY <2>bad DEF BlockLengthBad, Counting, Fail, ReadI2DR
    <3>2. Trusted /\ shift = "none" /\ Message' = Message
      BY <2>q, <3>1 DEF Trusted, Ending, Awaiting, Message
    <3>3. ClockedInv /\ Bits
      BY <2>r, <3>1, <3>2
    <3>4. LengthUnread /\ LengthUnread' /\ "TXAK" \notin i2cr'
      BY <3>1, <3>2 DEF LengthUnread, TxakInv, Unmeasured, Trusted
    <3>5. Bits'
      BY <3>1, <3>3, <3>4, BitsStay
    <3>6. Clocked' <= 3
      BY <2>a, <3>1, <3>2, <3>3 DEF ClockedInv, Clocked
    <3>7. MayClock' = 2
      BY <2>a, <3>1, <3>2, <3>4 DEF MayClock, PlaceInv
    <3>8. Coming'
      <4>1. RightAck(Len(wire) + 1)' = TRUE
        BY <3>4 DEF RightAck
      <4>2. ("TXAK" \notin i2cr') = RightAck(Len(wire) + 1)'
        BY <3>4, <4>1
      <4> QED
        BY <3>1, <3>2, <4>2 DEF Coming, AckOK
    <3> QED
      BY <3>1, <3>5, <3>6, <3>7, <3>8 DEF ClockedInv, Ending
  <2>last. CASE ReceiveStop
    <3>1. /\ pc \in {"byte_done", "counted"} /\ Message.rd
          /\ i = Message.len - 1 /\ pc' = "last_busy"
          /\ UNCHANGED <<msgs, i, wire, excuse, shift>>
      BY <2>last DEF ReceiveStop, Received, Counting, PlaceInv
    <3>2. pc = "byte_done"
      BY <2>a, <3>1 DEF PlaceInv
    <3>3. Trusted /\ Message' = Message /\ Clocked' = Clocked
      BY <3>1 DEF Trusted, Message, Clocked
    <3>4. LengthUnread' <=> LengthUnread
      BY <3>1, <3>2, <3>3 DEF LengthUnread
    <3>5. ClockedInv /\ Bits
      BY <2>r, <3>1, <3>2, <3>3
    <3>6. Bits'
      BY <3>1, <3>4, <3>5, BitsStay
    <3> QED
      BY <3>1, <3>2, <3>3, <3>5, <3>6 DEF ClockedInv, Ending
  <2>end. CASE LastBusy \/ ReceiveLast
    <3>1. /\ pc \in {"byte_done", "last_busy"} /\ Message.rd /\ ~Unmeasured
          /\ i = Message.len - 1 /\ EndMessage
          /\ shift' \in {shift, "in"} /\ i' = i
      <4>1. CASE LastBusy
        BY <4>1 DEF LastBusy, EndMessage, ReadI2DR, PlaceInv, TagInv
      <4>2. CASE ReceiveLast
        <5>1. Received /\ i = Message.len - 1 /\ EndMessage
          BY <4>2 DEF ReceiveLast
        <5>2. pc = "byte_done" /\ Message.rd /\ ~Unmeasured
          BY <2>a, <5>1 DEF Received, Counting, Unmeasured, PlaceInv
        <5> QED
          BY <4>2, <5>1, <5>2 DEF ReceiveLast, EndMessage, ReadI2DR
      <4> QED
        BY <2>end, <4>1, <4>2
    <3>2. Trusted
      BY <3>1 DEF EndMessage, Trusted
    <3>3. shift = "none" /\ shift' = "none"
      <4>1. shift = "none"
        BY <2>q, <3>1, <3>2 DEF Ending, Awaiting
      <4> QED
        BY <2>end, <4>1 DEF LastBusy, ReceiveLast, ReadI2DR, PlaceInv
    <3>4. CASE IsLastMsg
      <4>1. pc' = "stop" /\ UNCHANGED <<msgs, wire>>
        BY <3>1, <3>4 DEF EndMessage
      <4>2. ClockedInv /\ Bits
        BY <2>r, <3>1, <3>2
      <4>3. Message' = Message /\ ~LengthUnread /\ ~LengthUnread'
        BY <3>1, <4>1 DEF Message, LengthUnread, Unmeasured
      <4>4. Bits' /\ Coming'
        BY <3>3, <4>1, <4>2, <4>3, BitsStay DEF Coming
      <4>5. MayClock' = Message.len
        BY <2>a, <3>1, <4>3 DEF MayClock, PlaceInv
      <4>6. Clocked' <= Message.len + 1
        BY <2>a, <3>1, <3>3, <4>1, <4>2 DEF ClockedInv, Clocked
      <4> QED
        BY <2>a, <3>1, <4>1, <4>4, <4>5, <4>6 DEF ClockedInv, Ending
    <3>5. CASE ~IsLastMsg
      <4>1. pc' = "restart" /\ wire' = <<>>
        BY <3>1, <3>5 DEF EndMessage
      <4> QED
        BY <3>3, <4>1, Fresh DEF ClockedInv, Ending
    <3> QED
      BY <3>4, <3>5
  <2>next. CASE ReceiveNext
    <3>1. /\ pc \in {"byte_done", "counted"} /\ pc' = "await_byte"
          /\ i' = i + 1 /\ Message.rd
          /\ UNCHANGED <<msgs, wire, excuse>>
          /\ IF pc = "counted" THEN shift' = shift ELSE shift' \in {shift, "in"}
      BY <2>next DEF ReceiveNext, Received, Counting, ReadI2DR, PlaceInv
    <3>2. Trusted /\ Message' = Message
      BY <3>1 DEF Trusted, Message
    <3>3. ClockedInv /\ Bits
      BY <2>r, <3>1, <3>2
    <3>4. ~LengthUnread /\ ~LengthUnread'
      BY <2>next, <2>a, <3>1, <3>2
      DEF ReceiveNext, Received, Counting, LengthUnread
    <3>5. Bits'
      BY <3>1, <3>3, <3>4, BitsStay
    <3>6. Clocked' <= i' + 2
      <4>1. CASE pc = "byte_done"
        <5>1. shift = "none" /\ Clocked <= i + 2
          BY <2>q, <3>2, <3>3, <4>1 DEF ClockedInv, Ending, Awaiting
        <5> QED
          BY <2>a, <3>1, <5>1 DEF Clocked
      <4>2. CASE pc = "counted"
        BY <2>a, <3>1, <3>3, <4>2 DEF ClockedInv, Clocked, PlaceInv
      <4> QED
        BY <3>1, <4>1, <4>2
    <3> QED
      BY <3>1, <3>5, <3>6 DEF ClockedInv, Ending
  <2>byte. CASE Shifted
    <3>1. PICK ack \in BOOLEAN :
            /\ wire' = Append(wire, ack)
            /\ shift = "in" => ack = ("TXAK" \notin i2cr)
      BY <2>byte DEF Shifted
    <3>2. /\ UNCHANGED <<pc, msgs, i, result, excuse>>
          /\ shift # "none" /\ shift' = "none"
      BY <2>byte DEF Shifted
    <3>3. /\ Len(wire') = Len(wire) + 1 /\ wire'[Len(wire) + 1] = ack
          /\ \A k \in 1 .. Len(wire) : wire'[k] = wire[k]
      BY <2>a, <3>1, Appended
    <3>4. /\ Message' = Message /\ Trusted /\ pc # "idle"
          /\ Clocked' = Clocked
      BY <2>a, <3>2, <3>3 DEF Message, Trusted, Clocked
    <3>5. ClockedInv /\ Bits /\ Coming
      BY <2>r, <3>4
    <3>6. MayClock' = MayClock /\ (LengthUnread' <=> LengthUnread)
      BY <3>2, <3>4 DEF MayClock, LengthUnread
    <3>7. ClockedInv'
      BY <3>2, <3>4, <3>5, <3>6 DEF ClockedInv
    <3>8. ASSUME NEW k \in 2 .. Len(wire')
          PROVE  AckOK(k, wire[k])'
      <4>1. RightAck(k)' <=> RightAck(k)
        BY <3>4, <3>6 DEF RightAck
      <4>2. RightAck(k)' = RightAck(k)
        BY <4>1 DEF RightAck
      <4>3. Spared(k)' <=> Spared(k)
        BY <3>4, <3>6 DEF Spared
      <4>4. CASE k \in 2 .. Len(wire)
        <5>1. AckOK(k, wire[k]) /\ wire'[k] = wire[k]
          BY <2>a, <3>3, <3>5, <4>4 DEF Bits
        <5> QED
          BY <4>2, <4>3, <5>1 DEF AckOK
      <4>5. CASE k = Len(wire) + 1
        <5>1. shift = "in"
          <6>1. Len(wire) # 0
            BY <2>a, <4>5
          <6> QED
            BY <3>2, <3>5, <6>1 DEF Coming, TypeInv, TypeOK, ControllerTypes
        <5>2. AckOK(k, "TXAK" \notin i2cr)
          BY <3>5, <4>5, <5>1 DEF Coming
        <5>3. AckOK(k, ack)
          BY <3>1, <5>1, <5>2
        <5>4. wire'[k] = ack
          BY <3>3, <4>5
        <5> QED
          BY <4>2, <4>3, <5>3, <5>4 DEF AckOK
      <4> QED
        BY <2>a, <3>3, <4>4, <4>5
    <3>9. Bits' /\ Coming'
      BY <3>2, <3>8 DEF Bits, Coming
    <3> QED
      BY <3>7, <3>9
  <2>lost. CASE ArbitrationLost
    BY <2>lost, <2>s DEF ArbitrationLost
  <2>bus. CASE BusTaken \/ BusFreed \/ Interrupt
    BY <2>bus, <2>s DEF BusTaken, BusFreed, Interrupt
  <2>idle. CASE UNCHANGED vars
    BY <2>idle, <2>s DEF vars
  <2> QED
    BY <2>begin, <2>power, <2>suspend, <2>start, <2>again, <2>fail, <2>stop,
       <2>complete, <2>write, <2>setup, <2>length, <2>bad, <2>last, <2>end,
       <2>next, <2>byte, <2>lost, <2>bus, <2>idle
    DEF Next, Driver, Controller
<1> QED
  BY <1>1, <1>2, TypeInvariant, PlaceInvariant, TagInvariant, LostInvariant,
     FlightInvariant, TxakInvariant, ExactInvariant, PTL DEF Spec

-----------------------------------------------------------------------------
(* What the answer says.                                                   *)

\* While the answer can be trusted all that is finished went over the wire, the
\* address was taken, and so was each byte of a write that was seen.
WireInv ==
  excuse = {} /\ result = "ok" =>
    /\ whole
    /\ pc \in {"await_byte", "byte_done", "counted", "last_busy"} =>
         /\ wire[1] = TRUE
         /\ ~Message.rd => \A k \in 1 .. i + 1 : wire[k] = TRUE
    /\ pc \in Ending /\ msgs # <<>> => wire = Needed(Message)

LEMMA SameAsNeeded ==
  ASSUME TypeInv, pc # "idle", Len(wire) = Message.len + 1,
         \A k \in 1 .. Len(wire) :
           wire[k] = ~(Message.rd /\ k = Message.len + 1 /\ Message.len > 0)
  PROVE  wire = Needed(Message)
<1>1. /\ wire \in Seq(BOOLEAN) /\ Len(wire) \in Nat /\ Message.len \in Nat
      /\ Message.rd \in BOOLEAN
  BY MessagesLeft
  DEF TypeInv, TypeOK, CallTypes, CallInv, HistoryTypes
<1>2. wire = [k \in 1 .. Message.len + 1 |-> wire[k]]
  BY <1>1
<1>3. ASSUME NEW k \in 1 .. Message.len + 1
      PROVE  wire[k] = Needed(Message)[k]
  BY <1>1 DEF Needed
<1> QED
  BY <1>2, <1>3 DEF Needed

\* At the last byte of a read its bits are those that it needs.
LEMMA ReadWhole ==
  ASSUME TypeInv, PlaceInv, TagInv, ExactInv, ReadInv, excuse = {},
         pc \in {"byte_done", "last_busy"}, Message.rd, ~Unmeasured,
         i = Message.len - 1, wire[1] = TRUE
  PROVE  wire = Needed(Message)
<1>1. /\ wire \in Seq(BOOLEAN) /\ Len(wire) \in Nat /\ i \in Nat
      /\ Message.len \in Nat /\ Message.len > 0
  BY LengthOfMessage DEF TypeInv, TypeOK, CallTypes, HistoryTypes
<1>2. Len(wire) = Message.len + 1
  BY <1>1 DEF ExactInv, Sure
<1>3. Bits
  BY DEF ReadInv, Trusted
<1>4. ~LengthUnread
  BY DEF LengthUnread, Unmeasured
<1>5. ASSUME NEW k \in 1 .. Len(wire)
      PROVE  wire[k] = ~(Message.rd /\ k = Message.len + 1 /\ Message.len > 0)
  <2>1. CASE k = 1
    BY <1>1, <2>1
  <2>2. CASE k # 1
    <3>1. AckOK(k, wire[k])
      BY <1>1, <1>3, <2>2 DEF Bits
    <3>2. ~Spared(k)
      <4>1. Spared(k) => i > 0 /\ Message.block /\ Message.len = 2
        BY <1>1 DEF Spared
      <4> QED
        BY <4>1 DEF TagInv, Measured
    <3>3. RightAck(k) = (k # Message.len + 1)
      BY <1>4 DEF RightAck
    <3> QED
      BY <1>1, <3>1, <3>2, <3>3 DEF AckOK
  <2> QED
    BY <2>1, <2>2
<1> QED
  BY <1>2, <1>5, SameAsNeeded

\* What concerns neither the driver nor the bytes leaves the invariant alone.
LEMMA WireStays ==
  ASSUME WireInv, UNCHANGED <<msgs, i, result, wire, whole>>,
         excuse \subseteq excuse',
         \/ pc' = pc
         \/ pc \in Ending /\ pc' \in Ending
         \/ pc = "await_byte" /\ pc' = "byte_done"
  PROVE  WireInv'
<1>1. Message' = Message /\ Needed(Message)' = Needed(Message)
  BY DEF Message, Needed
<1> QED
  BY <1>1 DEF WireInv, Ending

\* A message ends well.
LEMMA MessageEnds ==
  ASSUME excuse = {}, whole, EndMessage, wire = Needed(Message), shift' = "none"
  PROVE  WireInv'
<1>1. wire' \in {wire, <<>>} /\ whole'
  BY DEF EndMessage
<1>2. CASE pc' = "restart"
  BY <1>1, <1>2 DEF WireInv, Ending
<1>3. CASE pc' = "stop" /\ UNCHANGED <<msgs, wire>>
  <2>1. Needed(Message)' = Needed(Message)
    BY <1>3 DEF Message, Needed
  <2> QED
    BY <1>1, <1>3, <2>1 DEF WireInv, Ending
<1> QED
  BY <1>2, <1>3 DEF EndMessage

\* The last byte was taken, if the controller shows it so.
LEMMA LastTaken ==
  ASSUME TypeInv, AckInv, pc # "idle", "RXAK" \notin i2sr, Len(wire) >= 1
  PROVE  wire[Len(wire)] = TRUE
<1>1. wire \in Seq(BOOLEAN)
  BY DEF TypeInv, TypeOK, HistoryTypes
<1>2. wire # <<>>
  BY <1>1
<1> QED
  BY <1>2 DEF AckInv

LEMMA WireInvariant == Spec => []WireInv
<1>1. Init => WireInv
  BY DEF Init, WireInv
<1>2. /\ TypeInv /\ PlaceInv /\ TagInv /\ LostInv /\ FlightInv /\ ExactInv
      /\ AckInv /\ ReadInv /\ WireInv /\ [Next]_vars
      => WireInv'
  <2> SUFFICES ASSUME TypeInv, PlaceInv, TagInv, LostInv, FlightInv, ExactInv,
                      AckInv, ReadInv, WireInv, [Next]_vars,
                      excuse' = {}, result' = "ok"
               PROVE  WireInv'
    BY DEF WireInv
  <2>a. /\ wire \in Seq(BOOLEAN) /\ Len(wire) \in Nat /\ i \in Nat
        /\ pc # "idle" => Message.len \in Nat
    BY LengthOfMessage DEF TypeInv, TypeOK, CallTypes, HistoryTypes
  <2>b. pc \notin Ending => result = "ok"
    BY DEF PlaceInv
  <2>c. ASSUME excuse = {}
        PROVE  Sure /\ Trusted
    BY <2>c DEF Sure, Trusted
  \* Between two waits nothing is on the wire, and the address was taken.
  <2>d. ASSUME excuse = {}, pc \notin Ending \cup Awaiting
        PROVE  shift = "none" /\ whole
    BY <2>b, <2>c, <2>d, OnlyAwaited DEF WireInv
  <2>e. ASSUME excuse = {},
               pc \in {"await_byte", "byte_done", "counted", "last_busy"}
        PROVE  /\ wire[1] = TRUE /\ whole
               /\ ~Message.rd => \A k \in 1 .. i + 1 : wire[k] = TRUE
    BY <2>b, <2>e DEF WireInv, Ending
  <2>begin. CASE (\E request \in Requests : Xfer(request)) \/ XferResumeFails
    BY <2>begin DEF Xfer, XferResumeFails, WireInv, Ending
  <2>start. CASE Start \/ StartBusy \/ Recover \/ Restart \/ Address
    <3>1. /\ pc \notin Ending /\ UNCHANGED <<whole, excuse>>
          /\ pc' \in {"start", "start_busy", "address", "await_address"}
      BY <2>start DEF Start, StartBusy, Recover, Restart, Address, Ending
    <3> QED
      BY <2>b, <3>1 DEF WireInv, Ending
  <2>fail. CASE StartFails \/ RestartFails \/ TrxTimeout \/ Refused
    BY <2>fail DEF StartFails, RestartFails, TrxTimeout, Refused, Fail, BusBusy
  <2>stop. CASE Stop \/ StopBusy \/ Disable
    BY <2>stop, WireStays DEF Stop, StopBusy, Disable, Ending
  <2>complete. CASE TrxComplete
    <3>1. CASE pc = "await_address" /\ pc' = "address_done"
      BY <2>complete, <2>b, <3>1 DEF TrxComplete, WireInv, Ending
    <3>2. CASE pc = "await_byte" /\ pc' = "byte_done"
      BY <2>complete, <3>2, WireStays DEF TrxComplete
    <3> QED
      BY <2>complete, <3>1, <3>2 DEF TrxComplete
  <2>write. CASE WriteByte
    <3>1. /\ pc \in {"address_done", "byte_done"} /\ ~Message.rd
          /\ "RXAK" \notin i2sr /\ excuse = {}
      BY <2>write DEF WriteByte, EndMessage
    <3>2. Sure /\ shift = "none" /\ whole
      BY <2>c, <2>d, <3>1 DEF Ending, Awaiting
    <3>3. /\ Written \in Nat /\ Written <= Message.len
          /\ Len(wire) = Written + 1
      BY <2>a, <3>1, <3>2 DEF Written, PlaceInv, ExactInv
    <3>4. wire[Written + 1] = TRUE
      <4>1. Len(wire) >= 1
        BY <3>3
      <4>2. wire[Len(wire)] = TRUE
        BY <3>1, <4>1, LastTaken
      <4> QED
        BY <3>3, <4>2
    <3>5. \A k \in 1 .. Written : wire[k] = TRUE
      <4>1. CASE pc = "address_done"
        BY <4>1 DEF Written
      <4>2. CASE pc = "byte_done"
        <5>1. Written = i + 1
          BY <4>2 DEF Written
        <5> QED
          BY <2>e, <3>1, <4>2, <5>1
      <4> QED
        BY <3>1, <4>1, <4>2
    <3>6. \A k \in 1 .. Written + 1 : wire[k] = TRUE
      BY <3>3, <3>4, <3>5
    <3>7. CASE Written < Message.len
      <4>1. /\ pc' = "await_byte" /\ i' = Written
            /\ UNCHANGED <<msgs, wire, whole>>
        BY <2>write, <3>7 DEF WriteByte
      <4>2. \A k \in 1 .. i' + 1 : wire'[k] = TRUE
        BY <3>6, <4>1
      <4>3. wire'[1] = TRUE
        BY <3>3, <4>1, <4>2
      <4> QED
        BY <3>2, <4>1, <4>2, <4>3 DEF WireInv, Ending
    <3>8. CASE ~(Written < Message.len)
      <4>1. EndMessage /\ shift' = "none"
        BY <2>write, <3>2, <3>8 DEF WriteByte
      <4>2. Written = Message.len
        BY <2>a, <3>1, <3>3, <3>8
      <4>3. wire = Needed(Message)
        BY <3>1, <3>3, <3>6, <4>2, SameAsNeeded
      <4> QED
        BY <3>1, <3>2, <4>1, <4>3, MessageEnds
    <3> QED
      BY <3>7, <3>8
  <2>setup. CASE SetUpBus
    <3>1. /\ pc = "address_done" /\ Message.rd /\ "RXAK" \notin i2sr
          /\ Message.len # 0
      BY <2>setup DEF SetUpBus, EndMessage
    <3>2. /\ pc' = "await_byte"
          /\ UNCHANGED <<msgs, i, result, wire, whole, excuse>>
      BY <2>setup, <3>1 DEF SetUpBus
    <3>3. Sure /\ whole /\ Message' = Message
      BY <2>c, <2>d, <3>1, <3>2 DEF Ending, Awaiting, Message
    <3>4. Len(wire) = 1
      BY <3>1, <3>3 DEF ExactInv
    <3>5. wire[1] = TRUE
      <4>1. Len(wire) >= 1
        BY <3>4
      <4>2. wire[Len(wire)] = TRUE
        BY <3>1, <4>1, LastTaken
      <4> QED
        BY <3>4, <4>2
    <3> QED
      BY <3>1, <3>2, <3>3, <3>5 DEF WireInv, Ending
  <2>length. ASSUME NEW n \in BlockLengths, BlockLength(n)
             PROVE  WireInv'
    <3>1. /\ pc = "byte_done" /\ pc' = "counted" /\ excuse = {} /\ Message'.rd
          /\ UNCHANGED <<i, result, wire, whole>>
      BY <2>length, BlockGrows
    <3> QED
      BY <2>e, <3>1 DEF WireInv, Ending
  <2>bad. ASSUME NEW n \in BlockLengths, BlockLengthBad(n)
          PROVE  WireInv'
    BY <2>bad DEF BlockLengthBad, Fail
  <2>next. CASE ReceiveStop \/ ReceiveNext
    <3>1. /\ pc \in {"byte_done", "counted"} /\ Message.rd
          /\ pc' \in {"last_busy", "await_byte"} /\ excuse = {}
          /\ UNCHANGED <<msgs, wire, whole>>
      BY <2>next DEF ReceiveStop, ReceiveNext, Received, Counting, PlaceInv
    <3>2. Message' = Message
      BY <3>1 DEF Message
    <3> QED
      BY <2>e, <3>1, <3>2 DEF WireInv, Ending
  <2>end. CASE LastBusy \/ ReceiveLast
    <3>1. EndMessage /\ excuse = {} /\ shift' \in {shift, "in"}
      BY <2>end DEF LastBusy, ReceiveLast, EndMessage, ReadI2DR
    <3>2. /\ pc \in {"byte_done", "last_busy"} /\ Message.rd /\ ~Unmeasured
          /\ i = Message.len - 1
      <4>1. CASE LastBusy
        BY <4>1 DEF LastBusy, PlaceInv, TagInv
      <4>2. CASE ReceiveLast
        <5>1. Received /\ i = Message.len - 1
          BY <4>2 DEF ReceiveLast
        <5> QED
          BY <2>a, <5>1 DEF Received, Counting, Unmeasured, PlaceInv
      <4> QED
        BY <2>end, <4>1, <4>2
    <3>3. shift = "none" /\ whole /\ wire[1] = TRUE
      BY <2>d, <2>e, <3>1, <3>2 DEF Ending, Awaiting
    <3>4. shift' = "none"
      BY <2>end, <3>3 DEF LastBusy, ReceiveLast, ReadI2DR, PlaceInv
    <3>5. wire = Needed(Message)
      BY <3>1, <3>2, <3>3, ReadWhole
    <3> QED
      BY <3>1, <3>3, <3>4, <3>5, MessageEnds
  <2>byte. CASE Shifted
    <3>1. PICK ack \in BOOLEAN : wire' = Append(wire, ack)
      BY <2>byte DEF Shifted
    <3>2. /\ UNCHANGED <<pc, msgs, i, result, whole, excuse>>
          /\ shift # "none"
      BY <2>byte DEF Shifted
    <3>3. \A k \in 1 .. Len(wire) : wire'[k] = wire[k]
      BY <2>a, <3>1, Appended
    <3>4. Sure /\ pc \in Awaiting /\ ~Through
      BY <2>c, <3>2 DEF FlightInv, Quiet, OneByte
    <3>5. Message' = Message /\ whole'
      BY <2>b, <3>2, <3>4 DEF Message, WireInv
    <3>6. CASE pc = "await_address"
      BY <3>2, <3>5, <3>6 DEF WireInv, Ending
    <3>7. CASE pc = "await_byte"
      <4>1. Len(wire) = i + 1
        BY <3>4, <3>7 DEF ExactInv
      <4>2. \A k \in 1 .. i + 1 : wire'[k] = wire[k]
        BY <3>3, <4>1
      <4>3. wire'[1] = wire[1]
        BY <2>a, <4>2
      <4> QED
        BY <2>e, <3>2, <3>5, <3>7, <4>2, <4>3 DEF WireInv, Ending
    <3>8. CASE pc = "counted"
      <4>1. Len(wire) = 2 /\ Message.rd
        BY <3>4, <3>8 DEF ExactInv, PlaceInv
      <4>2. wire'[1] = wire[1]
        BY <3>3, <4>1
      <4> QED
        BY <2>e, <3>2, <3>5, <3>8, <4>1, <4>2 DEF WireInv, Ending
    <3> QED
      BY <3>4, <3>6, <3>7, <3>8 DEF Awaiting
  <2>lost. CASE ArbitrationLost
    BY <2>lost DEF ArbitrationLost
  <2>bus. CASE BusTaken \/ BusFreed \/ Interrupt \/ RuntimeSuspend
    BY <2>bus, WireStays DEF BusTaken, BusFreed, Interrupt, RuntimeSuspend
  <2>idle. CASE UNCHANGED vars
    BY <2>idle, WireStays DEF vars
  <2> QED
    BY <2>begin, <2>start, <2>fail, <2>stop, <2>complete, <2>write, <2>setup,
       <2>length, <2>bad, <2>next, <2>end, <2>byte, <2>lost, <2>bus, <2>idle
    DEF Next, Driver, Controller
<1> QED
  BY <1>1, <1>2, TypeInvariant, PlaceInvariant, TagInvariant, LostInvariant,
     FlightInvariant, ExactInvariant, AckInvariant, ReadInvariant,
     PTL DEF Spec

\* After ENXIO the last byte was refused.
RefusedInv ==
  result = "ENXIO" /\ excuse = {} /\ pc # "idle" =>
    /\ pc \in Ending /\ wire # <<>> /\ ~wire[Len(wire)]

LEMMA RefusedInvariant == Spec => []RefusedInv
<1>1. Init => RefusedInv
  BY DEF Init, RefusedInv
<1>2. /\ TypeInv /\ PlaceInv /\ FlightInv /\ AckInv /\ ExactInv /\ RefusedInv
      /\ [Next]_vars
      => RefusedInv'
  <2> SUFFICES ASSUME TypeInv, PlaceInv, FlightInv, AckInv, ExactInv,
                      RefusedInv, [Next]_vars,
                      result' = "ENXIO", excuse' = {}, pc' # "idle"
               PROVE  /\ pc' \in Ending /\ wire' # <<>>
                      /\ ~wire'[Len(wire')]
    BY DEF RefusedInv
  <2>1. CASE Refused
    <3>1. /\ pc \in {"address_done", "byte_done"} /\ pc' = "stop"
          /\ UNCHANGED <<wire, excuse>> /\ "RXAK" \in i2sr
      BY <2>1 DEF Refused, Fail
    <3>2. i \in Nat /\ wire \in Seq(BOOLEAN)
      BY DEF TypeInv, TypeOK, CallTypes, HistoryTypes
    <3>3. Len(wire) = 1 \/ Len(wire) = i + 2
      BY <3>1 DEF ExactInv, Sure
    <3>4. wire # <<>>
      BY <3>2, <3>3
    <3>5. wire[Len(wire)] = FALSE
      BY <3>1, <3>4 DEF AckInv
    <3> QED
      BY <3>1, <3>4, <3>5 DEF Ending
  <2>2. CASE Shifted \/ ArbitrationLost
    BY <2>2 DEF Shifted, ArbitrationLost, RefusedInv, FlightInv, Sure, Quiet,
                Awaiting, Ending
  <2>3. CASE BusTaken \/ BusFreed \/ Interrupt \/ UNCHANGED vars
    BY <2>3 DEF BusTaken, BusFreed, Interrupt, vars, RefusedInv
  <2>4. CASE Stop \/ StopBusy \/ Disable
    BY <2>4 DEF Stop, StopBusy, Disable, RefusedInv, Ending
  <2>5. CASE (\E request \in Requests : Xfer(request)) \/ XferResumeFails
    BY <2>5 DEF Xfer, XferResumeFails
  <2>6. CASE RuntimeSuspend
    BY <2>6 DEF RuntimeSuspend, RefusedInv
  <2>7. CASE StartFails \/ RestartFails \/ TrxTimeout
    BY <2>7 DEF StartFails, RestartFails, TrxTimeout, Fail, BusBusy
  <2>8. ASSUME NEW n \in BlockLengths, BlockLengthBad(n)
        PROVE  FALSE
    BY <2>8 DEF BlockLengthBad, Fail
  <2>9. ASSUME NEW n \in BlockLengths, BlockLength(n)
        PROVE  FALSE
    BY <2>9, BlockGrows DEF PlaceInv, Ending
  <2>10. CASE Start \/ StartBusy \/ Recover \/ Restart \/ Address
    BY <2>10 DEF Start, StartBusy, Recover, Restart, Address, PlaceInv, Ending
  <2>11. CASE TrxComplete \/ WriteByte
    BY <2>11 DEF TrxComplete, WriteByte, EndMessage, PlaceInv, Ending
  <2>12. CASE SetUpBus \/ ReceiveStop \/ LastBusy \/ ReceiveLast \/ ReceiveNext
    BY <2>12 DEF SetUpBus, ReceiveStop, LastBusy, ReceiveLast, ReceiveNext,
                 Received, Counting, EndMessage, PlaceInv, Ending
  <2> QED
    BY <2>1, <2>2, <2>3, <2>4, <2>5, <2>6, <2>7, <2>8, <2>9, <2>10, <2>11,
       <2>12
    DEF Next, Driver, Controller
<1> QED
  BY <1>1, <1>2, TypeInvariant, PlaceInvariant, FlightInvariant, AckInvariant,
     ExactInvariant, PTL DEF Spec

\* i2c_imx_xfer tells the truth about what went over the wire, whatever is
\* asked for, however long the blocks are, and whatever the slave does.
THEOREM AnswersAreTrue == Spec => []AnswerIsTrue
<1>1. WireInv /\ RefusedInv => AnswerIsTrue
  BY DEF WireInv, RefusedInv, AnswerIsTrue
<1> QED
  BY <1>1, WireInvariant, RefusedInvariant, PTL

\* In a read of any length, a block or not, finished or not, every byte that a
\* slave sends is acknowledged but the last, after which none is clocked; the
\* exceptions are those that ReadBytesAcked names.
THEOREM BytesAreAcked == Spec => []ReadBytesAcked
<1>1. TypeInv /\ PlaceInv /\ ReadInv => ReadBytesAcked
  <2> SUFFICES ASSUME TypeInv, PlaceInv, ReadInv, pc # "idle", Message.rd,
                      Trusted
               PROVE  /\ Len(wire) <= 1 + MayClock
                      /\ \A k \in 1 .. Len(wire) - 1 :
                           \/ wire[k + 1] = (LengthUnread \/ k # Message.len)
                           \/ /\ Message.block /\ ~LengthUnread
                              /\ Message.len = 2 /\ k = 2
    BY DEF ReadBytesAcked, Trusted
  <2>1. /\ Len(wire) \in Nat /\ i \in Nat /\ Message.len \in Nat
        /\ MayClock \in Nat /\ MayClock >= 1
    BY LengthOfMessage
    DEF TypeInv, TypeOK, CallTypes, HistoryTypes, MayClock
  <2>2. ClockedInv /\ Bits
    BY DEF ReadInv
  <2>3. Len(wire) <= Clocked /\ Clocked \in Nat
    BY <2>1 DEF Clocked
  <2>4. Clocked <= 1 + MayClock
    <3>1. CASE pc \in {"await_byte", "byte_done", "last_busy"}
      <4>1. i + 1 <= Message.len /\ Clocked <= i + 2 /\ result = "ok"
        BY <2>1, <2>2, <3>1 DEF PlaceInv, ClockedInv, Ending
      <4>2. LengthUnread => i = 0
        BY DEF LengthUnread
      <4>3. MayClock >= i + 1
        BY <2>1, <4>1, <4>2 DEF MayClock
      <4> QED
        BY <2>1, <2>3, <4>1, <4>3
    <3>2. CASE pc = "counted"
      <4>1. MayClock = Message.len /\ Message.len >= 2
        BY <2>1, <3>2 DEF PlaceInv, MayClock, LengthUnread
      <4> QED
        BY <2>1, <2>2, <2>3, <3>2, <4>1 DEF ClockedInv
    <3>3. CASE pc \in Ending
      BY <2>2, <3>3 DEF ClockedInv
    <3>4. CASE pc \in {"start", "start_busy", "restart", "address",
                      "await_address", "address_done"}
      <4>1. Clocked <= 1
        BY <2>2, <2>3, <3>4 DEF ClockedInv
      <4> QED
        BY <2>1, <2>3, <4>1
    <3> QED
      BY <3>1, <3>2, <3>3, <3>4
      DEF TypeInv, TypeOK, CallTypes, Waiting, Working, Ending
  <2>5. ASSUME NEW k \in 1 .. Len(wire) - 1
        PROVE  \/ wire[k + 1] = (LengthUnread \/ k # Message.len)
               \/ /\ Message.block /\ ~LengthUnread
                  /\ Message.len = 2 /\ k = 2
    <3>1. AckOK(k + 1, wire[k + 1])
      BY <2>1, <2>2 DEF Bits
    <3>2. RightAck(k + 1) = (LengthUnread \/ k # Message.len)
      <4>1. k + 1 # Message.len + 1 <=> k # Message.len
        BY <2>1
      <4> QED
        BY <4>1 DEF RightAck
    <3>3. Spared(k + 1) => /\ Message.block /\ ~LengthUnread
                           /\ Message.len = 2 /\ k = 2
      BY <2>1 DEF Spared
    <3> QED
      BY <3>1, <3>2, <3>3 DEF AckOK
  <2> QED
    BY <2>1, <2>3, <2>4, <2>5
<1> QED
  BY <1>1, TypeInvariant, PlaceInvariant, ReadInvariant, PTL

-----------------------------------------------------------------------------
(* A transfer comes to its end: every step of the driver lowers its rank.  *)

\* The rank as five inequalities.
Falls ==
  \/ Part' < Part
  \/ Part' = Part /\ MessagesToGo' < MessagesToGo
  \/ Part' = Part /\ MessagesToGo' = MessagesToGo /\ Stage' < Stage
  \/ /\ Part' = Part /\ MessagesToGo' = MessagesToGo /\ Stage' = Stage
     /\ BytesToGo' < BytesToGo
  \/ /\ Part' = Part /\ MessagesToGo' = MessagesToGo /\ Stage' = Stage
     /\ BytesToGo' = BytesToGo /\ StepsToGo' < StepsToGo

LEMMA FallsIsLower == Falls => Lower(Rank', Rank)
<1> USE DEF Lower, Rank
<1>1. CASE Part' < Part
  <2>1. 1 \in 1 .. 5 /\ \A j \in 1 .. 1 - 1 : Rank'[j] = Rank[j]
    OBVIOUS
  <2> QED
    BY <1>1, <2>1
<1>2. CASE Part' = Part /\ MessagesToGo' < MessagesToGo
  <2>1. 2 \in 1 .. 5 /\ \A j \in 1 .. 2 - 1 : Rank'[j] = Rank[j]
    BY <1>2
  <2> QED
    BY <1>2, <2>1
<1>3. CASE /\ Part' = Part /\ MessagesToGo' = MessagesToGo
           /\ Stage' < Stage
  <2>1. 3 \in 1 .. 5 /\ \A j \in 1 .. 3 - 1 : Rank'[j] = Rank[j]
    BY <1>3
  <2> QED
    BY <1>3, <2>1
<1>4. CASE /\ Part' = Part /\ MessagesToGo' = MessagesToGo
           /\ Stage' = Stage /\ BytesToGo' < BytesToGo
  <2>1. 4 \in 1 .. 5 /\ \A j \in 1 .. 4 - 1 : Rank'[j] = Rank[j]
    BY <1>4
  <2> QED
    BY <1>4, <2>1
<1>5. CASE /\ Part' = Part /\ MessagesToGo' = MessagesToGo
           /\ Stage' = Stage /\ BytesToGo' = BytesToGo
           /\ StepsToGo' < StepsToGo
  <2>1. 5 \in 1 .. 5 /\ \A j \in 1 .. 5 - 1 : Rank'[j] = Rank[j]
    BY <1>5
  <2> QED
    BY <1>5, <2>1
<1> QED
  BY <1>1, <1>2, <1>3, <1>4, <1>5 DEF Falls

LEMMA RankTyped ==
  ASSUME TypeInv, PlaceInv
  PROVE  \A k \in 1 .. 5 : Rank[k] \in Nat
<1> USE DEF TypeInv, TypeOK, CallTypes, CallInv, Waiting, Working
<1>1. Part \in Nat
  BY DEF Part
<1>2. MessagesToGo \in Nat
  BY DEF MessagesToGo
<1>3. Stage \in Nat
  BY DEF Stage
<1>4. BytesToGo \in Nat
  <2> SUFFICES ASSUME Stage = 1
               PROVE  Message.len - i \in Nat
    BY DEF BytesToGo
  <2>1. pc \in {"await_byte", "byte_done", "counted", "last_busy"}
    BY DEF Stage, Part
  <2>2. Message.len \in Nat /\ i \in Nat
    BY <2>1, LengthOfMessage
  <2>3. i <= Message.len
    BY <2>1, <2>2 DEF PlaceInv
  <2> QED
    BY <2>2, <2>3
<1>5. StepsToGo \in Nat
  BY DEF StepsToGo
<1> QED
  BY <1>1, <1>2, <1>3, <1>4, <1>5 DEF Rank

\* A message is done: STOP, or one message less.
LEMMA MessageFalls ==
  ASSUME TypeInv, EndMessage, Part = 1, pc # "idle"
  PROVE  Falls
<1>1. CASE IsLastMsg
  <2>1. pc' = "stop"
    BY <1>1, Zenon DEF EndMessage
  <2> QED
    BY <2>1 DEF Falls, Part
<1>2. CASE ~IsLastMsg
  <2>0. pc' = "restart" /\ msgs' = Tail(msgs)
    BY <1>2, Zenon DEF EndMessage
  <2>1. /\ pc' = "restart" /\ Part' = 1
        /\ msgs' = Tail(msgs) /\ msgs \in Seq(Messages) /\ msgs # <<>>
    BY <2>0 DEF Part, TypeInv, TypeOK, CallTypes, CallInv
  <2>2. Len(msgs') < Len(msgs)
    BY <2>1
  <2> QED
    BY <2>1, <2>2 DEF Falls, MessagesToGo
<1> QED
  BY <1>1, <1>2

\* Outside the messages only the steps count.
LEMMA StepsFall ==
  ASSUME Part # 1, Part' = Part, StepsToGo' < StepsToGo
  PROVE  Falls
BY DEF Falls, MessagesToGo, Stage, BytesToGo

\* A step of the driver.
LEMMA DriverFalls ==
  ASSUME TypeInv, PlaceInv, Driver
  PROVE  Falls
<1> USE DEF TypeInv, TypeOK, CallTypes, CallInv, PlaceInv
<1> DEFINE Places == Part' = Part /\ MessagesToGo' = MessagesToGo
<1>1. CASE Start \/ StartBusy \/ Recover
  <2>1. CASE Start
    <3>1. Part # 1 /\ Part' = Part /\ StepsToGo' < StepsToGo
      BY <2>1 DEF Start, Part, StepsToGo
    <3> QED
      BY <3>1, StepsFall
  <2>2. CASE StartBusy \/ Recover
    <3>1. /\ pc = "start_busy"
          /\ \/ pc' = "address"
             \/ pc' = "start" /\ recovery = "possible" /\ recovery' = "done"
      BY <2>2, Zenon DEF StartBusy, Recover
    <3>2. Part' < Part
      BY <3>1 DEF Part
    <3> QED
      BY <3>2 DEF Falls
  <2> QED
    BY <1>1, <2>1, <2>2
<1>2. CASE StartFails \/ RestartFails
  <2>1. pc \in {"start_busy", "restart"} /\ pc' = "stop"
    BY <1>2, Zenon DEF StartFails, RestartFails, Fail
  <2> QED
    BY <2>1 DEF Falls, Part
<1>3. CASE Stop \/ StopBusy \/ Disable
  <2>1. Part # 1 /\ Part' = Part /\ StepsToGo' < StepsToGo
    BY <1>3 DEF Stop, StopBusy, Disable, Part, StepsToGo
  <2> QED
    BY <2>1, StepsFall
<1>4. CASE Restart \/ Address
  <2>1. /\ pc \in {"restart", "address"}
        /\ pc' = IF pc = "restart" THEN "address" ELSE "await_address"
        /\ msgs' = msgs
    BY <1>4 DEF Restart, Address
  <2>2. Places /\ Part = 1
    BY <2>1 DEF Part, MessagesToGo
  <2>3. Stage = 3 /\ Stage' = 3 /\ StepsToGo' < StepsToGo
    BY <2>1, <2>2 DEF Stage, StepsToGo
  <2> QED
    BY <2>2, <2>3 DEF Falls, BytesToGo
<1>5. CASE TrxComplete
  BY <1>5
  DEF TrxComplete, Falls, Part, MessagesToGo, Stage, BytesToGo, StepsToGo,
      Message
<1>6. CASE TrxTimeout \/ Refused
  BY <1>6 DEF TrxTimeout, Refused, Fail, Falls, Part
<1>7. CASE WriteByte
  <2>1. pc \in {"address_done", "byte_done"} /\ ~Message.rd /\ Part = 1
    BY <1>7 DEF WriteByte, Part
  <2>2. CASE Written < Message.len
    <3>1. /\ pc' = "await_byte" /\ i' = Written
          /\ UNCHANGED <<msgs, result, recovery>> /\ Message' = Message
      BY <1>7, <2>2 DEF WriteByte, Message
    <3>2. Message.len \in Nat /\ i \in Nat
      BY <2>1, LengthOfMessage
    <3>3. Places /\ Part = 1
      BY <2>1, <3>1 DEF Part, MessagesToGo
    <3>4. Stage' = 1
      BY <2>1, <3>1, <3>3 DEF Stage
    <3>5. CASE pc = "address_done"
      BY <3>3, <3>4, <3>5 DEF Falls, Stage
    <3>6. CASE pc = "byte_done"
      <4>1. Stage = 1
        BY <2>1, <3>3, <3>6 DEF Stage
      <4>2. BytesToGo' < BytesToGo
        BY <3>1, <3>2, <3>4, <3>6, <4>1 DEF BytesToGo, Written
      <4> QED
        BY <3>3, <3>4, <4>1, <4>2 DEF Falls
    <3> QED
      BY <2>1, <3>5, <3>6
  <2>3. CASE ~(Written < Message.len)
    BY <1>7, <2>1, <2>3, MessageFalls DEF WriteByte
  <2> QED
    BY <2>2, <2>3
<1>8. CASE SetUpBus
  <2>1. pc = "address_done" /\ Part = 1
    BY <1>8 DEF SetUpBus, Part
  <2>2. CASE Message.len = 0
    BY <1>8, <2>1, <2>2, MessageFalls DEF SetUpBus
  <2>3. CASE Message.len # 0
    BY <1>8, <2>1, <2>3
    DEF SetUpBus, Falls, Part, MessagesToGo, Stage
  <2> QED
    BY <2>2, <2>3
<1>9. ASSUME NEW n \in BlockLengths, BlockLength(n)
      PROVE  Falls
  <2>1. /\ pc = "byte_done" /\ pc' = "counted"
        /\ Message.rd /\ Message.block /\ i = 0
    BY <1>9, BlockGrows, Zenon
  <2>2. Len(msgs') = Len(msgs)
    <3>1. msgs' = [msgs EXCEPT ![1].len = @ + n]
      BY <1>9, Zenon DEF BlockLength
    <3>2. msgs \in Seq(Messages)
      OBVIOUS
    <3> QED
      BY <3>1, <3>2
  <2>3. Places /\ Part = 1
    BY <2>1, <2>2 DEF Part, MessagesToGo
  <2>4. Stage = 2 /\ Stage' = 1
    BY <2>1, <2>3 DEF Stage
  <2> QED
    BY <2>3, <2>4 DEF Falls
<1>10. ASSUME NEW n \in BlockLengths, BlockLengthBad(n)
       PROVE  Falls
  BY <1>10 DEF BlockLengthBad, Counting, Fail, Falls, Part
<1>11. CASE ReceiveStop
  <2>1. /\ pc \in {"byte_done", "counted"} /\ Message' = Message
        /\ pc' = "last_busy" /\ UNCHANGED <<msgs, i, recovery>>
        /\ Message.rd /\ ~(pc = "byte_done" /\ Message.block /\ i = 0)
    BY <1>11 DEF ReceiveStop, Received, Counting, Message
  <2>2. Places /\ Part = 1
    BY <2>1 DEF Part, MessagesToGo
  <2>3. Stage = 1 /\ Stage' = 1
    BY <2>1, <2>2 DEF Stage
  <2>4. BytesToGo' = BytesToGo
    BY <2>1, <2>3 DEF BytesToGo
  <2> QED
    BY <2>1, <2>2, <2>3, <2>4 DEF Falls, StepsToGo
<1>12. CASE LastBusy
  <2>1. pc = "last_busy" /\ Part = 1
    BY <1>12 DEF LastBusy, Part
  <2> QED
    BY <1>12, <2>1, MessageFalls DEF LastBusy
<1>13. CASE ReceiveLast
  <2>1. pc \in {"byte_done", "counted"} /\ Part = 1
    BY <1>13 DEF ReceiveLast, Received, Counting, Part
  <2> QED
    BY <1>13, <2>1, MessageFalls DEF ReceiveLast
<1>14. CASE ReceiveNext
  <2>1. /\ pc \in {"byte_done", "counted"} /\ Message' = Message
        /\ pc' = "await_byte" /\ i' = i + 1 /\ UNCHANGED <<msgs, recovery>>
        /\ Message.rd /\ ~(pc = "byte_done" /\ Message.block /\ i = 0)
    BY <1>14 DEF ReceiveNext, Received, Counting, Message
  <2>2. Places /\ Part = 1
    BY <2>1 DEF Part, MessagesToGo
  <2>3. Message.len \in Nat /\ i \in Nat
    BY <2>1, LengthOfMessage
  <2>4. Stage = 1 /\ Stage' = 1
    BY <2>1, <2>2, <2>3 DEF Stage
  <2>5. BytesToGo' < BytesToGo
    BY <2>1, <2>3, <2>4 DEF BytesToGo
  <2> QED
    BY <2>2, <2>4, <2>5 DEF Falls
<1> QED
  BY <1>1, <1>2, <1>3, <1>4, <1>5, <1>6, <1>7, <1>8, <1>9, <1>10, <1>11,
     <1>12, <1>13, <1>14
  DEF Driver

\* The other steps leave the call alone, or are taken between two calls.
LEMMA OthersWait ==
  ASSUME [Next]_vars, ~Driver, pc # "idle"
  PROVE  pc' = pc /\ Rank' = Rank
<1>1. UNCHANGED call
  BY DEF Next, Controller, Xfer, XferResumeFails, RuntimeSuspend, Shifted,
         ArbitrationLost, BusTaken, BusFreed, Interrupt, vars
<1> QED
  BY <1>1
  DEF Rank, Part, MessagesToGo, Stage, BytesToGo, StepsToGo, Message

\* Every step of the driver takes it to another place.
LEMMA DriverMoves == ASSUME Driver PROVE pc' # pc
<1>1. CASE Start \/ StartBusy \/ Recover \/ StartFails \/ Restart
           \/ RestartFails \/ Stop \/ StopBusy \/ Disable
  BY <1>1
  DEF Start, StartBusy, Recover, StartFails, Restart, RestartFails, Stop,
      StopBusy, Disable, Fail
<1>2. CASE Address \/ TrxComplete \/ TrxTimeout \/ Refused \/ ReceiveStop
           \/ ReceiveNext
  BY <1>2
  DEF Address, TrxComplete, TrxTimeout, Refused, ReceiveStop, ReceiveNext,
      Received, Fail
<1>3. EndMessage => pc' \in {"stop", "restart"}
  BY Zenon DEF EndMessage
<1>4. CASE WriteByte \/ SetUpBus \/ LastBusy \/ ReceiveLast
  BY <1>3, <1>4 DEF WriteByte, SetUpBus, LastBusy, ReceiveLast, Received
<1>5. ASSUME NEW n \in BlockLengths, BlockLength(n) \/ BlockLengthBad(n)
      PROVE  pc = "byte_done" /\ pc' \in {"counted", "stop"}
  BY <1>5, Zenon DEF BlockLength, BlockLengthBad, Counting, Fail
<1> QED
  BY <1>1, <1>2, <1>4, <1>5 DEF Driver

\* Whatever the slave does, each step of a transfer brings it nearer to its
\* end, in a well-founded order.
THEOREM TransfersAreBounded == Spec => TransferIsBounded
<1>1. TypeInv /\ PlaceInv /\ [Next]_vars =>
        [pc # "idle" =>
           /\ \A k \in 1 .. 5 : Rank[k] \in Nat
           /\ IF pc' = pc THEN Rank' = Rank ELSE Lower(Rank', Rank)]_vars
  <2> SUFFICES ASSUME TypeInv, PlaceInv, [Next]_vars, pc # "idle"
               PROVE  /\ \A k \in 1 .. 5 : Rank[k] \in Nat
                      /\ IF pc' = pc THEN Rank' = Rank
                                     ELSE Lower(Rank', Rank)
    OBVIOUS
  <2>1. CASE Driver
    BY <2>1, RankTyped, DriverFalls, DriverMoves, FallsIsLower
  <2>2. CASE ~Driver
    BY <2>2, RankTyped, OthersWait
  <2> QED
    BY <2>1, <2>2
<1> QED
  BY <1>1, TypeInvariant, PlaceInvariant, PTL DEF Spec, TransferIsBounded

-----------------------------------------------------------------------------
(* I2cImxDevice: the invariant, in five parts.                             *)

\* A condition as a number, to be counted.
One(b) == IF b THEN 1 ELSE 0

\* The steps at which transfers may be under way; at which runtime PM has been
\* enabled by probe; and at which probe or remove hold the device.
Serving == {"put_autosuspend", "dma_tx", "dma_rx", "dma_config",
            "init_completion", "fail_rx", "fail_tx", "bound", "remove",
            "del_adapter"}
Enabled == Serving \cup
           {"pm_runtime_get_sync", "set_up_registers", "init_recovery",
            "add_adapter", "rpm_disable", "dma_free", "reset_registers",
            "clk_disable_unprepare", "pm_runtime_disable"}
Holding == {"set_up_registers", "init_recovery", "add_adapter",
            "put_autosuspend", "rpm_disable", "del_adapter", "dma_free",
            "reset_registers", "clk_disable_unprepare", "pm_runtime_disable"}
Moving == xfer \in {"pio", "dma"}

\* Who holds the adapter finds the driver, or has missed it for ever.
AdapterInv ==
  /\ device \in Enabled \cup {"pm_runtime_enable"} => handler
  /\ device \in Serving \ {"del_adapter"} => adapter = "registered"
  /\ device = "del_adapter" => adapter # "none"
  /\ device \notin Serving /\ ~lost => adapter = "none"
  /\ lost => device = "unbound" /\ adapter = "registered" /\ ~Moving
  /\ held => adapter # "none"
  /\ xfer # "none" => held
  /\ mine => xfer # "none"
  /\ asleep => device = "bound"

\* Probe gets two channels, or none, and has a completion when it is done.
ChannelInv ==
  /\ device \in {"pm_runtime_get_sync", "set_up_registers", "init_recovery",
                 "add_adapter", "put_autosuspend", "dma_tx", "rpm_disable",
                 "request_irq", "pm_runtime_enable", "clk_disable",
                 "clk_prepare_enable"}
       => dma = "null" /\ channels = {}
  /\ device \in {"dma_rx", "fail_tx"} => dma = "null" /\ channels = {"tx"}
  /\ device \in {"dma_config", "fail_rx"} =>
       dma = "null" /\ channels = {"tx", "rx"}
  /\ device = "init_completion" => dma = "set" /\ channels = {"tx", "rx"}
  /\ device \in {"bound", "remove", "del_adapter", "dma_free"} =>
       \/ dma = "null" /\ channels = {}
       \/ dma = "ready" /\ channels = {"tx", "rx"}
  /\ device \in {"reset_registers", "clk_disable_unprepare",
                 "pm_runtime_disable"} => channels = {}
  /\ device = "unbound" /\ ~lost => channels = {}
  /\ xfer = "dma" => dma # "null"

\* Whoever uses the device has it counted.
CountInv ==
  /\ count >= One(Moving) + One(asleep) + One(device \in Holding \/ lost)
  /\ "refused" \notin strange /\ ~lost =>
       count = One(Moving) + One(asleep) + One(device \in Holding)

\* Runtime PM is disabled once more for a transfer that outlived sleep.
DepthInv ==
  /\ device \in Enabled \/ lost => depth + One(mine) <= 1 + One(asleep)
  /\ ~(device \in Enabled \/ lost) => depth >= 1
  /\ "spanned" \notin strange =>
       depth + One(mine) = One(asleep) + One(~(device \in Enabled \/ lost))
  /\ xfer # "none" => depth = 0 \/ (depth = 1 /\ asleep)

\* The clock is on if the device is active, from when runtime PM is enabled
\* until probe or remove disable it.
ClockInv ==
  /\ device \in Enabled \ {"pm_runtime_disable"} \/ lost =>
       clocks = One(active)
  /\ device \in {"pm_runtime_get_sync", "pm_runtime_disable"} => active
  /\ device \in Holding => active
  /\ device = "pm_runtime_disable" => clocks = 0
  /\ device \in {"request_irq", "pm_runtime_enable", "clk_disable"} =>
       clocks = 1 /\ ~active
  /\ device \in {"unbound", "clk_prepare_enable"} /\ ~lost =>
       clocks = 0 /\ ~active
  /\ Moving => active /\ ~broken
  /\ lost => broken \/ ("spanned" \in strange /\ xfer = "none")
  /\ lost /\ xfer # "none" => broken

\* The types that need arithmetic.
Numbers == clocks \in 0 .. 1 /\ depth \in 0 .. 2 /\ count \in Nat

DeviceInv ==
  /\ DeviceTypeOK /\ AdapterInv /\ ChannelInv /\ CountInv /\ DepthInv
  /\ ClockInv

\* The invariant holds, step by step.
LEMMA DeviceInvariant == DeviceSpec => []DeviceInv
<1> USE DEF probeVars, rpmVars, sleepVars, dmaVars, xferVars, Proceed, One
<1> USE DEF Serving, Enabled, Holding, Moving
<1>1. DeviceInit => DeviceInv
  <2>1. DeviceInit => DeviceTypeOK
    <3>1. DeviceInit => clocks \in 0 .. 1 /\ depth \in 0 .. 2 /\ count \in Nat
      BY DEF DeviceInit
    <3> QED
      BY <3>1 DEF DeviceInit, DeviceTypeOK
  <2>2. DeviceInit => AdapterInv /\ ChannelInv
    BY DEF DeviceInit, AdapterInv, ChannelInv
  <2>3. DeviceInit => CountInv /\ DepthInv /\ ClockInv
    BY DEF DeviceInit, CountInv, DepthInv, ClockInv
  <2> QED
    BY <2>1, <2>2, <2>3 DEF DeviceInv
<1>2. DeviceInv /\ [DeviceNext]_deviceVars => DeviceInv'
  <2> SUFFICES ASSUME DeviceInv, [DeviceNext]_deviceVars
               PROVE  DeviceInv'
    OBVIOUS
  <2> USE DEF DeviceInv, DeviceTypeOK, AdapterInv, ChannelInv, CountInv,
              DepthInv, ClockInv, Probing, Labels, Removing
  <2>1. CASE RuntimeIdle
    <3>1. Numbers'
      BY <2>1 DEF RuntimeIdle, Numbers
    <3>2. DeviceTypeOK'
      BY <3>1, <2>1 DEF RuntimeIdle, Numbers
    <3>3. AdapterInv' /\ ChannelInv' /\ CountInv'
      BY <2>1 DEF RuntimeIdle
    <3>4. DepthInv' /\ ClockInv'
      BY <2>1 DEF RuntimeIdle
    <3> QED
      BY <3>2, <3>3, <3>4
  <2>2. CASE FallAsleep
    BY <2>2 DEF FallAsleep
  <2>3. CASE WakeUpAgain
    <3>1. Numbers'
      BY <2>3 DEF WakeUpAgain, Numbers
    <3>2. DeviceTypeOK'
      BY <3>1, <2>3 DEF WakeUpAgain, Numbers
    <3>3. AdapterInv' /\ ChannelInv' /\ CountInv'
      BY <2>3 DEF WakeUpAgain
    <3>4. DepthInv' /\ ClockInv'
      BY <2>3 DEF WakeUpAgain
    <3> QED
      BY <3>2, <3>3, <3>4
  <2>4. CASE HoldAdapter
    BY <2>4 DEF HoldAdapter
  <2>4a. CASE LetGo
    <3>1. DeviceTypeOK' /\ AdapterInv'
      BY <2>4a DEF LetGo
    <3>2. ChannelInv' /\ CountInv' /\ DepthInv' /\ ClockInv'
      BY <2>4a DEF LetGo
    <3> QED
      BY <3>1, <3>2
  <2>5. CASE XferBegins
    BY <2>5 DEF XferBegins
  <2>6. CASE XferIsOn
    BY <2>6 DEF XferIsOn, GetSync, Usable, MustResume
  <2>7. CASE XferHasNoClock
    <3>1. Numbers'
      BY <2>7 DEF XferHasNoClock, GetSyncFails, Usable, MustResume,
                          Numbers
    <3>2. DeviceTypeOK'
      BY <3>1, <2>7 DEF XferHasNoClock, GetSyncFails, Usable, MustResume,
                          Numbers
    <3>3. AdapterInv' /\ ChannelInv' /\ CountInv'
      BY <2>7 DEF XferHasNoClock, GetSyncFails, Usable, MustResume
    <3>4. DepthInv' /\ ClockInv'
      BY <2>7 DEF XferHasNoClock, GetSyncFails, Usable, MustResume
    <3> QED
      BY <3>2, <3>3, <3>4
  <2>8. CASE XferPut
    BY <2>8 DEF XferPut
  <2>9. CASE XferEnds
    <3>1. Numbers'
      BY <2>9 DEF XferEnds, Numbers
    <3>2. DeviceTypeOK'
      BY <3>1, <2>9 DEF XferEnds, Numbers
    <3>3. AdapterInv' /\ ChannelInv' /\ CountInv'
      BY <2>9 DEF XferEnds
    <3>4. DepthInv' /\ ClockInv'
      BY <2>9 DEF XferEnds
    <3> QED
      BY <3>2, <3>3, <3>4
  <2>10. CASE Probe
    BY <2>10 DEF Probe
  <2>11. CASE ClkEnable
    BY <2>11 DEF ClkEnable
  <2>12. CASE RequestHandler
    BY <2>12 DEF RequestHandler
  <2>13. CASE RpmEnable
    <3>1. Numbers'
      BY <2>13 DEF RpmEnable, Numbers
    <3>2. DeviceTypeOK'
      BY <3>1, <2>13 DEF RpmEnable, Numbers
    <3>3. AdapterInv' /\ ChannelInv' /\ CountInv'
      BY <2>13 DEF RpmEnable
    <3>4. DepthInv' /\ ClockInv'
      BY <2>13 DEF RpmEnable
    <3> QED
      BY <3>2, <3>3, <3>4
  <2>14. CASE ProbeGet
    <3>1. Numbers'
      BY <2>14 DEF ProbeGet, GetSync, GetSyncFails, Usable,
                           MustResume, Numbers
    <3>2. DeviceTypeOK'
      BY <3>1, <2>14 DEF ProbeGet, GetSync, GetSyncFails, Usable,
                           MustResume, Numbers
    <3>3. AdapterInv' /\ ChannelInv' /\ CountInv'
      BY <2>14 DEF ProbeGet, GetSync, GetSyncFails, Usable, MustResume
    <3>4. DepthInv' /\ ClockInv'
      BY <2>14 DEF ProbeGet, GetSync, GetSyncFails, Usable, MustResume
    <3> QED
      BY <3>2, <3>3, <3>4
  <2>15. CASE SetUpRegisters
    BY <2>15 DEF SetUpRegisters
  <2>16. CASE AddAdapter
    <3>1. Numbers'
      BY <2>16 DEF AddAdapter, Numbers
    <3>2. DeviceTypeOK'
      BY <3>1, <2>16 DEF AddAdapter, Numbers
    <3>3. AdapterInv' /\ ChannelInv' /\ CountInv'
      BY <2>16 DEF AddAdapter
    <3>4. DepthInv' /\ ClockInv'
      BY <2>16 DEF AddAdapter
    <3> QED
      BY <3>2, <3>3, <3>4
  <2>17. CASE PutAutosuspend
    BY <2>17 DEF PutAutosuspend
  <2>18. CASE RequestChannels
    <3>1. CASE device = "dma_tx"
      BY <2>18, <3>1 DEF RequestChannels
    <3>2. CASE device = "dma_rx"
      BY <2>18, <3>2 DEF RequestChannels
    <3> QED
      BY <2>18, <3>1, <3>2 DEF RequestChannels
  <2>19. CASE SetUpDma
    BY <2>19 DEF SetUpDma
  <2>20. CASE CallFails
    BY <2>20 DEF CallFails, Label
  <2>21. CASE ReleaseChannels
    BY <2>21 DEF ReleaseChannels
  <2>22. CASE RpmDisable
    <3>1. Numbers'
      BY <2>22 DEF RpmDisable, Numbers
    <3>2. DeviceTypeOK'
      BY <3>1, <2>22 DEF RpmDisable, Numbers
    <3>3. AdapterInv' /\ ChannelInv' /\ CountInv'
      BY <2>22 DEF RpmDisable
    <3>4. DepthInv' /\ ClockInv'
      BY <2>22 DEF RpmDisable
    <3> QED
      BY <3>2, <3>3, <3>4
  <2>23. CASE ClkDisable
    <3>1. Numbers'
      BY <2>23 DEF ClkDisable, Numbers
    <3>2. DeviceTypeOK'
      BY <3>1, <2>23 DEF ClkDisable, Numbers
    <3>3. AdapterInv' /\ ChannelInv' /\ CountInv'
      BY <2>23 DEF ClkDisable
    <3>4. DepthInv' /\ ClockInv'
      BY <2>23 DEF ClkDisable
    <3> QED
      BY <3>2, <3>3, <3>4
  <2>24. CASE StartRemove
    BY <2>24 DEF StartRemove
  <2>25. CASE RemoveGet
    BY <2>25 DEF RemoveGet, GetSync, Usable, MustResume
  <2>26. CASE RemoveReturns
    <3>1. Numbers'
      BY <2>26 DEF RemoveReturns, GetSyncFails, Usable,
                           MustResume, Numbers
    <3>2. DeviceTypeOK'
      BY <3>1, <2>26 DEF RemoveReturns, GetSyncFails, Usable,
                           MustResume, Numbers
    <3>3. AdapterInv' /\ ChannelInv' /\ CountInv'
      BY <2>26 DEF RemoveReturns, GetSyncFails, Usable, MustResume
    <3>4. DepthInv' /\ ClockInv'
      BY <2>26 DEF RemoveReturns, GetSyncFails, Usable, MustResume
    <3> QED
      BY <3>2, <3>3, <3>4
  <2>27. CASE DelAdapter
    BY <2>27 DEF DelAdapter
  <2>28. CASE DmaFree
    BY <2>28 DEF DmaFree
  <2>28a. CASE ResetRegisters
    BY <2>28a DEF ResetRegisters
  <2>29. CASE ClkDisableUnprepare
    BY <2>29 DEF ClkDisableUnprepare
  <2>30. CASE RemoveRpm
    <3>1. Numbers'
      BY <2>30 DEF RemoveRpm, Numbers
    <3>2. DeviceTypeOK'
      BY <3>1, <2>30 DEF RemoveRpm, Numbers
    <3>3. AdapterInv' /\ ChannelInv' /\ CountInv'
      BY <2>30 DEF RemoveRpm
    <3>4. DepthInv' /\ ClockInv'
      BY <2>30 DEF RemoveRpm
    <3> QED
      BY <3>2, <3>3, <3>4
  <2>31. CASE UNCHANGED deviceVars
    BY <2>31 DEF deviceVars
  <2> QED
    BY <2>1, <2>2, <2>3, <2>4, <2>4a, <2>5, <2>6, <2>7, <2>8, <2>9, <2>10,
       <2>11, <2>12, <2>13, <2>14, <2>15, <2>16, <2>17, <2>18, <2>19, <2>20,
       <2>21, <2>22, <2>23, <2>24, <2>25, <2>26, <2>27, <2>28, <2>28a, <2>29,
       <2>30, <2>31
    DEF DeviceNext
<1> QED
  BY <1>1, <1>2, PTL DEF DeviceSpec

\* Every variable of the device keeps its type.
THEOREM DeviceTypeCorrect == DeviceSpec => []DeviceTypeOK
BY DeviceInvariant, PTL DEF DeviceInv

\* A transfer keeps the clock, the handler and the DMA channels to its end.
THEOREM TransfersAreServed == DeviceSpec => []TransferIsServed
<1>1. DeviceInv => TransferIsServed
  BY DEF DeviceInv, DeviceTypeOK, AdapterInv, ChannelInv, CountInv, ClockInv,
         TransferIsServed, One, Serving, Enabled, Holding, Moving
<1> QED
  BY <1>1, DeviceInvariant, PTL

\* A device that is not bound has given back what probe took.
THEOREM UnboundIsFree == DeviceSpec => []UnboundIsReleased
<1>1. DeviceInv => UnboundIsReleased
  BY DEF DeviceInv, DeviceTypeOK, AdapterInv, ChannelInv, CountInv, DepthInv,
         ClockInv, UnboundIsReleased, One, Serving, Enabled, Holding, Moving
<1> QED
  BY <1>1, DeviceInvariant, PTL

-----------------------------------------------------------------------------
(* I2cImxDma: what is mapped, and whose callback is on its way.            *)

\* The steps at which the engine may be at work.
Going == {"dmaen", "address", "reinit", "wait"}

\* As long as no callback was late, what is mapped or on its way belongs to this
\* transfer or to one that timed out.
TransferInv ==
  /\ op # "none" => nr >= 1
  /\ IF late
     THEN given_up # {}
     ELSE
       /\ ~twice
       /\ given_up \subseteq 1 .. nr
       /\ callbacks \cup mapped \subseteq given_up \cup {nr}
       /\ op # "none" => nr \notin given_up
       /\ engine # 0 => /\ engine = nr /\ op \in Going
                        /\ nr \in mapped /\ nr \notin callbacks
       /\ nr \in callbacks => nr \in mapped /\ (op \in Going \/ nr \in given_up)
       /\ op \in {"prep", "submit", "issue"} => nr \in mapped
       /\ nr \in mapped =>
            /\ dma_buf = nr
            /\ \/ nr \in given_up \/ nr \in callbacks \/ engine # 0
               \/ op \in {"prep", "submit", "issue"}
       /\ op = "wait" =>
            /\ completions \subseteq {nr}
            /\ nr \in completions => nr \notin mapped

\* It holds, step by step.
LEMMA TransferInvariant == TransferSpec => [](TransferTypeOK /\ TransferInv)
<1> USE I2cImxDmaAssumption
<1> USE DEF dmaXfer, dmaEngine, dmaHistory, Step, Going, Unmap
<1>1. TransferInit => TransferTypeOK /\ TransferInv
  <2>1. TransferInit => TransferTypeOK
    <3>1. TransferInit =>
            /\ nr \in 0 .. Transfers
            /\ dma_buf \in 0 .. Transfers /\ engine \in 0 .. Transfers
      BY DEF TransferInit
    <3> QED
      BY <3>1 DEF TransferInit, TransferTypeOK, Steps
  <2>2. TransferInit => TransferInv
    BY DEF TransferInit, TransferInv
  <2> QED
    BY <2>1, <2>2
<1>2. TransferTypeOK /\ TransferInv /\ [TransferNext]_transferVars
        => (TransferTypeOK /\ TransferInv)'
  <2> SUFFICES ASSUME TransferTypeOK, TransferInv, [TransferNext]_transferVars
               PROVE  (TransferTypeOK /\ TransferInv)'
    OBVIOUS
  <2> USE DEF TransferTypeOK, TransferInv, Steps
  <2>1. CASE Begin
    BY <2>1 DEF Begin
  <2>2. CASE Map
    <3>1. nr \in 1 .. Transfers
      BY <2>2 DEF Map
    <3>2. TransferTypeOK'
      BY <2>2, <3>1 DEF Map
    <3>3. TransferInv'
      BY <2>2, <3>1 DEF Map
    <3> QED
      BY <3>2, <3>3
  <2>2a. CASE MapFails
    BY <2>2a DEF MapFails
  <2>3. CASE PrepAndSubmit
    BY <2>3 DEF PrepAndSubmit
  <2>3a. CASE StartWrite
    BY <2>3a DEF StartWrite
  <2>4. CASE PrepOrSubmitFails
    BY <2>4 DEF PrepOrSubmitFails
  <2>5. CASE Issue
    BY <2>5 DEF Issue
  <2>6. CASE ReinitCompletion
    BY <2>6 DEF ReinitCompletion
  <2>7. CASE Completed
    BY <2>7 DEF Completed
  <2>8. CASE Timeout
    <3>1. TransferTypeOK'
      BY <2>8 DEF Timeout
    <3>2. TransferInv'
      BY <2>8 DEF Timeout
    <3> QED
      BY <3>1, <3>2
  <2>9. CASE Rest
    BY <2>9 DEF Rest
  <2>10. CASE EngineEnds
    BY <2>10 DEF EngineEnds
  <2>11. ASSUME NEW c \in callbacks, Callback(c)
         PROVE  (TransferTypeOK /\ TransferInv)'
    BY <2>11 DEF Callback
  <2>12. CASE UNCHANGED transferVars
    BY <2>12 DEF transferVars
  <2> QED
    BY <2>1, <2>2, <2>2a, <2>3, <2>3a, <2>4, <2>5, <2>6, <2>7, <2>8, <2>9,
       <2>10, <2>11, <2>12
    DEF TransferNext
<1> QED
  BY <1>1, <1>2, PTL DEF TransferSpec

\* Every variable of a transfer by DMA keeps its type.
THEOREM DmaTypeCorrect == TransferSpec => []TransferTypeOK
BY TransferInvariant, PTL

\* The CPU gets its buffer back when the engine is through with it.
THEOREM BuffersComeBack == TransferSpec => []BufferIsReturned
<1>1. TransferTypeOK /\ TransferInv => BufferIsReturned
  BY DEF TransferTypeOK, TransferInv, Going, Steps, BufferIsReturned
<1> QED
  BY <1>1, TransferInvariant, PTL

-----------------------------------------------------------------------------
(* I2cImxClock: the arithmetic, and what is kept from call to call.        *)

\* Division, by the only two facts about it that are needed.
LEMMA Quotient ==
  ASSUME NEW a \in Nat, NEW b \in Nat \ {0}
  PROVE  /\ a \div b \in Nat
         /\ (a \div b) * b <= a
         /\ a < (a \div b) * b + b
OBVIOUS

\* What is rounded up is the least divisor that is large enough.
LEMMA RoundedUp ==
  ASSUME NEW r \in Nat, NEW b \in Nat \ {0}, NEW d \in Nat
  PROVE  d < (r + b - 1) \div b <=> d * b < r
<1> DEFINE q == (r + b - 1) \div b
<1>1. q \in Nat /\ q * b <= r + b - 1 /\ r + b - 1 < q * b + b
  <2>1. r + b - 1 \in Nat
    OBVIOUS
  <2> QED
    BY <2>1, Quotient
<1> HIDE DEF q
<1>2. ASSUME d < q
      PROVE  d * b < r
  <2>1. (q - d) * b >= b
    BY <1>1, <1>2
  <2>2. (q - d) * b = q * b - d * b
    BY <1>1
  <2> QED
    BY <1>1, <2>1, <2>2
<1>3. ASSUME ~(d < q)
      PROVE  ~(d * b < r)
  <2>1. (d - q) * b >= 0
    BY <1>1, <1>3
  <2>2. (d - q) * b = d * b - q * b
    BY <1>1
  <2> QED
    BY <1>1, <2>1, <2>2
<1> QED
  BY <1>2, <1>3 DEF q

\* And it is large enough, and no larger than it must be.
LEMMA RoundedUpTwice ==
  ASSUME NEW r \in Nat, NEW b \in Nat, b >= 1
  PROVE  LET q == (r + b - 1) \div b
         IN q \in Nat /\ q * b >= r /\ (q - 1) * b < r
<1> DEFINE q == (r + b - 1) \div b
           p == q * b
<1>1. q \in Nat /\ p <= r + b - 1 /\ r + b - 1 < p + b
  <2>1. r + b - 1 \in Nat
    OBVIOUS
  <2> QED
    BY <2>1, Quotient
<1> HIDE DEF q
<1>2. p \in Nat /\ (q - 1) * b = p - b
  BY <1>1
<1> HIDE DEF p
<1>3. p >= r /\ p - b < r
  BY <1>1, <1>2
<1> QED
  BY <1>1, <1>2, <1>3 DEF p, q

LEMMA FitsInWord ==
  ASSUME NEW x \in Nat, x < UWord, UWord \in Nat
  PROVE  UInt(x) = x
BY DEF UInt

LEMMA TableFacts ==
  /\ ndivs \in Nat /\ ndivs >= 1
  /\ \A k \in Entries : clk_div[k] \in Nat \ {0}
  /\ \A j, k \in Entries : j < k => clk_div[j] < clk_div[k]
BY I2cImxClockAssumption DEF IsTable, ndivs, Entries

LEMMA ClockFacts ==
  ASSUME NEW r \in Rates, NEW b \in Bitrates
  PROVE  /\ r \in Nat /\ r >= 2 /\ b \in Nat \ {0} /\ UWord \in Nat
         /\ r + b <= UWord
         /\ \A k \in Entries : 500000 * clk_div[k] + r <= UWord
BY I2cImxClockAssumption

-----------------------------------------------------------------------------
\* What is kept of a choice.
RightFor(e) ==
  /\ e \in Entries
  /\ \A k \in 1 .. e - 1 : TooFast(k)
  /\ TooFast(e) => e = ndivs

DelayFor(e) ==
  LET half == cur_clk \div 2
  IN /\ disable_delay * half >= 500000 * clk_div[e]
     /\ (disable_delay - 1) * half < 500000 * clk_div[e]

SearchInv ==
  /\ set_clk \in {"search", "store"} =>
       /\ cur_clk \in Rates
       /\ entry \in Entries
       /\ \A k \in 1 .. entry - 1 : TooFast(k)
       /\ \A k \in Entries : clk_div[k] < div <=> TooFast(k)
  /\ set_clk = "search" => div <= clk_div[ndivs]
  /\ set_clk = "store" => (TooFast(entry) => entry = ndivs)

KeptInv ==
  /\ set_clk \in {"write", "bus"} => cur_clk \in Rates
  /\ set_clk \in {"out", "write", "bus"} /\ cur_clk # 0 =>
       RightFor(ifdr) /\ DelayFor(ifdr)
  /\ set_clk = "bus" => IFDR = ifdr

DividerInv == ClockTypeOK /\ SearchInv /\ KeptInv

\* Division is by the rate and the bit rate that were asked for.
LEMMA NewDivider ==
  ASSUME ClockTypeOK, NewClock
  PROVE  /\ cur_clk' \in Rates /\ bitrate' = bitrate /\ ifdr' = ifdr
         /\ div' \in Nat
         /\ \A k \in Entries : clk_div[k] < div' <=> TooFast(k)'
<1>1. /\ rate \in Rates /\ bitrate \in Bitrates /\ cur_clk' = rate
      /\ bitrate' = bitrate /\ ifdr' = ifdr
      /\ div' = UInt(rate + bitrate - 1) \div bitrate
  BY DEF ClockTypeOK, NewClock, chosen
<1>2. /\ rate \in Nat /\ rate >= 2 /\ bitrate \in Nat \ {0} /\ UWord \in Nat
      /\ rate + bitrate <= UWord
  BY <1>1, ClockFacts
<1>3. div' = (rate + bitrate - 1) \div bitrate
  <2>1. rate + bitrate - 1 \in Nat /\ rate + bitrate - 1 < UWord
    BY <1>2
  <2> QED
    BY <1>1, <1>2, <2>1, FitsInWord
<1>4. div' \in Nat
  <2>1. rate + bitrate - 1 \in Nat
    BY <1>2
  <2> QED
    BY <1>2, <1>3, <2>1, Quotient
<1>5. ASSUME NEW k \in Entries
      PROVE  clk_div[k] < div' <=> TooFast(k)'
  <2>1. clk_div[k] \in Nat
    BY TableFacts
  <2>2. clk_div[k] < div' <=> clk_div[k] * bitrate < rate
    BY <1>2, <1>3, <2>1, RoundedUp
  <2> QED
    BY <1>1, <2>2 DEF TooFast
<1> QED
  BY <1>1, <1>4, <1>5

\* The delay is the quotient, rounded up.
LEMMA NewDelay ==
  ASSUME ClockTypeOK, SearchInv, Store
  PROVE  disable_delay' \in Nat /\ DelayFor(entry)'
<1> DEFINE half == cur_clk \div 2
           micro == 500000 * clk_div[entry]
<1>1. /\ cur_clk \in Rates /\ entry \in Entries
      /\ UNCHANGED <<cur_clk, entry>>
      /\ disable_delay' = UInt(micro + half - 1) \div half
  BY DEF Store, StepTo, SearchInv
<1>2. PICK b \in Bitrates : b = bitrate
  BY DEF ClockTypeOK
<1>3. /\ cur_clk \in Nat /\ cur_clk >= 2 /\ UWord \in Nat
      /\ micro + cur_clk <= UWord
  BY <1>1, <1>2, ClockFacts
<1>4. half \in Nat /\ half >= 1 /\ half <= cur_clk
  BY <1>3
<1>5. micro \in Nat
  BY <1>1, TableFacts
<1> HIDE DEF half, micro
<1>6. disable_delay' = (micro + half - 1) \div half
  <2>1. micro + half - 1 \in Nat /\ micro + half - 1 < UWord
    BY <1>3, <1>4, <1>5
  <2> QED
    BY <1>1, <1>3, <2>1, FitsInWord
<1>7. disable_delay' \in Nat
      /\ disable_delay' * half >= micro /\ (disable_delay' - 1) * half < micro
  BY <1>4, <1>5, <1>6, RoundedUpTwice
<1> QED
  BY <1>1, <1>7 DEF DelayFor, half, micro

LEMMA DividerInvariant == ClockSpec => []DividerInv
<1> USE DEF ClockTypeOK, SearchInv, KeptInv, StepTo, chosen
<1>1. ClockInit => DividerInv
  BY TableFacts DEF ClockInit, DividerInv
<1>2. DividerInv /\ [ClockNext]_clockVars => DividerInv'
  <2> SUFFICES ASSUME ClockTypeOK, SearchInv, KeptInv, [ClockNext]_clockVars
               PROVE  DividerInv'
    BY DEF DividerInv
  <2>1. CASE RateChanges \/ UNCHANGED clockVars
    BY <2>1 DEF RateChanges, clockVars, DividerInv, RightFor, DelayFor, TooFast
  <2>2. CASE SameClock
    <3>1. rate # 0
      BY ClockFacts
    <3> QED
      BY <2>2, <3>1 DEF SameClock, DividerInv, RightFor, DelayFor, TooFast
  <2>3. CASE NewClock
    <3>1. /\ cur_clk' \in Rates /\ div' \in Nat
          /\ \A k \in Entries : clk_div[k] < div' <=> TooFast(k)'
      BY <2>3, NewDivider
    <3>2. /\ set_clk' \in {"search", "store"} /\ entry' \in Entries
          /\ \A k \in 1 .. entry' - 1 : TooFast(k)'
          /\ set_clk' = "search" => div' <= clk_div[ndivs]
          /\ set_clk' = "store" => ((TooFast(entry))' => entry' = ndivs)
      <4>1. CASE div' < clk_div[1] /\ entry' = 1 /\ StepTo("out", "store")
        <5>1. 1 \in Entries /\ ~(clk_div[1] < div')
          BY <3>1, <4>1, TableFacts DEF Entries
        <5>2. ~(TooFast(entry))'
          BY <3>1, <4>1, <5>1 DEF TooFast
        <5> QED
          BY <4>1, <5>1, <5>2
      <4>2. CASE /\ div' > clk_div[ndivs] /\ entry' = ndivs
                 /\ StepTo("out", "store")
        BY <3>1, <4>2, TableFacts DEF Entries
      <4>3. CASE /\ div' \in clk_div[1] .. clk_div[ndivs]
                 /\ entry' = 1 /\ StepTo("out", "search")
        BY <3>1, <4>3, TableFacts DEF Entries
      <4> QED
        BY <2>3, <4>1, <4>2, <4>3 DEF NewClock
    <3>3. ClockTypeOK'
      BY <2>3, <3>1, <3>2 DEF NewClock, Entries
    <3>4. SearchInv'
      BY <3>1, <3>2
    <3> QED
      BY <3>2, <3>3, <3>4 DEF DividerInv
  <2>4. CASE Search
    BY <2>4, TableFacts
    DEF Search, DividerInv, TooFast, RightFor, DelayFor, Entries
  <2>5. CASE Store
    <3>1. disable_delay' \in Nat /\ DelayFor(entry)'
      BY <2>5, NewDelay
    <3>2. RightFor(entry)'
      BY <2>5 DEF Store, RightFor, TooFast
    <3> QED
      BY <2>5, <3>1, <3>2
      DEF Store, DividerInv, RightFor, DelayFor, TooFast, Entries
  <2>6. CASE WriteIFDR \/ TransferDone
    BY <2>6
    DEF WriteIFDR, TransferDone, DividerInv, RightFor, DelayFor, TooFast
  <2> QED
    BY <2>1, <2>2, <2>3, <2>4, <2>5, <2>6 DEF ClockNext
<1> QED
  BY <1>1, <1>2, PTL DEF ClockSpec

\* Every variable of the choice keeps its type.
THEOREM ClockTypeCorrect == ClockSpec => []ClockTypeOK
BY DividerInvariant, PTL DEF DividerInv

\* The search for a divisor never leaves the table, whatever the rates.
THEOREM SearchIsSafe == ClockSpec => []SearchStaysInTable
<1>1. DividerInv => SearchStaysInTable
  BY DEF DividerInv, SearchInv, SearchStaysInTable
<1> QED
  BY <1>1, DividerInvariant, PTL

\* The divisor in use is the least that keeps the bus from being too fast, for
\* any table, any rates and bit rates; it is not stale.
THEOREM DividersAreRight == ClockSpec => []BusIsNotTooFast
<1>1. DividerInv => BusIsNotTooFast
  <2> SUFFICES ASSUME DividerInv, set_clk = "bus"
               PROVE  BusIsNotTooFast
    BY DEF BusIsNotTooFast
  <2>1. cur_clk # 0
    BY ClockFacts DEF DividerInv, KeptInv, ClockTypeOK
  <2> QED
    BY <2>1 DEF DividerInv, KeptInv, RightFor, BusIsNotTooFast
<1> QED
  BY <1>1, DividerInvariant, PTL

\* The delay lasts one period of the bus, and its product fits in a word.
THEOREM DelaysAreRight == ClockSpec => []DelayIsAPeriod
<1>1. DividerInv => DelayIsAPeriod
  <2> SUFFICES ASSUME DividerInv, set_clk = "bus"
               PROVE  DelayIsAPeriod
    BY DEF DelayIsAPeriod
  <2>1. cur_clk # 0
    BY ClockFacts DEF DividerInv, KeptInv, ClockTypeOK
  <2> QED
    BY <2>1 DEF DividerInv, KeptInv, DelayFor, DelayIsAPeriod
<1> QED
  BY <1>1, DividerInvariant, PTL
=============================================================================
