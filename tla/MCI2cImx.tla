------------------------------ MODULE MCI2cImx ------------------------------
(* Instances of the four modules about i2c-imx for TLC: a transfer byte by  *)
(* byte, the life of the adapter, transfers by DMA, and the choice of the   *)
(* clock.  Which of them it is never changes.                               *)
EXTENDS I2cImx, I2cImxDevice, I2cImxDma, I2cImxClock

VARIABLE part

all == <<part, vars, deviceVars, transferVars, clockVars>>

Wr(n) == [rd |-> FALSE, len |-> n, block |-> FALSE]
Rd(n) == [rd |-> TRUE, len |-> n, block |-> FALSE]
RdBlock(n) == [rd |-> TRUE, len |-> n, block |-> TRUE]

\* What the EEPROM driver asks for, and what the SMBus emulation of the core
\* makes of a quick command, a receive byte and a block read, with a checksum
\* behind it or not; reads and a block that are not the last message; and reads
\* of none, one, two and three bytes.
SomeRequests ==
  {<<Wr(2)>>, <<Wr(1), Rd(1)>>, <<Wr(1), Rd(3)>>, <<Rd(2), Wr(1)>>,
   <<Wr(0)>>, <<Rd(0)>>, <<Wr(1), RdBlock(1)>>, <<Rd(0), Rd(1)>>,
   <<Rd(1), Rd(2), Wr(1)>>, <<RdBlock(1), Wr(2)>>, <<Wr(1), RdBlock(2)>>}

EveryDeviceFault == DOMAIN Label \cup {"resume"}

OneInit ==
  /\ part \in {"transfer", "device", "dma", "clock"}
  /\ Init /\ DeviceInit /\ TransferInit /\ ClockInit
  /\ part # "clock" =>
       rate = 66000000 /\ bitrate = 400000

OneNext ==
  /\ UNCHANGED part
  /\ \/ /\ part = "transfer" /\ Next
        /\ UNCHANGED <<deviceVars, transferVars, clockVars>>
     \/ /\ part = "device" /\ DeviceNext
        /\ UNCHANGED <<vars, transferVars, clockVars>>
     \/ /\ part = "dma" /\ TransferNext
        /\ UNCHANGED <<vars, deviceVars, clockVars>>
     \/ /\ part = "clock" /\ ClockNext
        /\ UNCHANGED <<vars, deviceVars, transferVars>>

OneSpec == OneInit /\ [][OneNext]_all /\ WF_vars(Driver)
=============================================================================
