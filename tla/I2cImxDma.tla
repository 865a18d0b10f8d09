----------------------------- MODULE I2cImxDma ------------------------------
(***************************************************************************)
(* The transfers by DMA of i2c-imx, the reference source: what driver, DMA *)
(* engine and callback do with the buffer of a message, its mapping and    *)
(* the completion.  Messages of sixteen bytes or more go this way, one at  *)
(* a time; the last bytes are the CPU's, as in I2cImx.                     *)
(*                                                                         *)
(* There is one dma_buf and one completion for all transfers, and nothing  *)
(* ties a callback to the transfer that it is about.                       *)
(***************************************************************************)
EXTENDS Integers

CONSTANTS
  Transfers,  \* how many messages go by DMA
  DmaFaults   \* "map", "prep" and "submit", if they may fail

ASSUME I2cImxDmaAssumption == Transfers \in Nat

VARIABLES
  op,           \* the next step of i2c_imx_dma_write or _read, or "none"
  reads,        \* it is i2c_imx_dma_read
  nr,           \* the number of this transfer, which stands for its buffer
  mapped,       \* the buffers that are mapped for the device
  dma_buf,      \* the buffer whose mapping is in dma->dma_buf
  engine,       \* the transfer that the engine is at work on, or 0
  callbacks,    \* the transfers whose callback is to be run
  completions,  \* who has completed cmd_complete since it was reinitialised
  given_up,     \* history: the transfers that timed out
  late,         \* history: a callback came in the time of the next transfer
  twice         \* history: a mapping was undone that was not there

dmaXfer == <<op, reads, nr>>
dmaEngine == <<mapped, dma_buf, engine, callbacks, completions>>
dmaHistory == <<given_up, late, twice>>
transferVars == <<dmaXfer, dmaEngine, dmaHistory>>

Steps == {"map", "prep", "submit", "issue", "dmaen", "address", "reinit",
          "wait", "icf", "rest"}

TransferTypeOK ==
  /\ op \in Steps \cup {"none"} /\ reads \in BOOLEAN
  /\ nr \in 0 .. Transfers /\ dma_buf \in 0 .. Transfers
  /\ engine \in 0 .. Transfers
  /\ mapped \subseteq 1 .. Transfers /\ callbacks \subseteq 1 .. Transfers
  /\ completions \subseteq 1 .. Transfers /\ given_up \subseteq 1 .. Transfers
  /\ late \in BOOLEAN /\ twice \in BOOLEAN

TransferInit ==
  /\ op = "none" /\ reads = FALSE /\ nr = 0
  /\ mapped = {} /\ dma_buf = 0 /\ engine = 0
  /\ callbacks = {} /\ completions = {}
  /\ given_up = {} /\ late = FALSE /\ twice = FALSE

Step(from, to) == op = from /\ op' = to

\* A mapping is undone.
Unmap ==
  /\ mapped' = mapped \ {dma_buf}
  /\ twice' = (twice \/ dma_buf \notin mapped)

-----------------------------------------------------------------------------
(* i2c_imx_dma_write and i2c_imx_dma_read, with i2c_imx_dma_xfer.          *)

\* A read sets DMAEN at once.
Begin ==
  /\ nr < Transfers
  /\ Step("none", "map")
  /\ nr' = nr + 1 /\ reads' \in BOOLEAN
  /\ UNCHANGED <<dmaEngine, dmaHistory>>

Map ==
  /\ Step("map", "prep")
  /\ mapped' = mapped \cup {nr} /\ dma_buf' = nr
  /\ UNCHANGED <<reads, nr, engine, callbacks, completions, dmaHistory>>

MapFails ==
  /\ "map" \in DmaFaults
  /\ Step("map", "none")
  /\ UNCHANGED <<reads, nr, dmaEngine, dmaHistory>>

PrepAndSubmit ==
  /\ Step("prep", "submit") \/ Step("submit", "issue")
  /\ UNCHANGED <<reads, nr, dmaEngine, dmaHistory>>

PrepOrSubmitFails ==
  /\ op \in {"prep", "submit"} \cap DmaFaults
  /\ op' = "none"
  /\ Unmap
  /\ UNCHANGED <<reads, nr, dma_buf, engine, callbacks, completions, given_up,
                 late>>

\* A write has yet to set DMAEN and to write the address, without which no
\* byte is moved.
Issue ==
  /\ Step("issue", IF reads THEN "reinit" ELSE "dmaen")
  /\ engine' = nr
  /\ UNCHANGED <<reads, nr, mapped, dma_buf, callbacks, completions,
                 dmaHistory>>

StartWrite ==
  /\ Step("dmaen", "address") \/ Step("address", "reinit")
  /\ UNCHANGED <<reads, nr, dmaEngine, dmaHistory>>

\* The completion is made new when the engine is at work already.
ReinitCompletion ==
  /\ Step("reinit", "wait")
  /\ completions' = {}
  /\ UNCHANGED <<reads, nr, mapped, dma_buf, engine, callbacks, dmaHistory>>

Completed ==
  /\ Step("wait", "icf")
  /\ \E c \in completions : completions' = completions \ {c}
  /\ UNCHANGED <<reads, nr, mapped, dma_buf, engine, callbacks, dmaHistory>>

\* Seeded bug: the engine goes on after the timeout.
TimeoutOnly ==
  /\ completions = {}
  /\ Step("wait", "none")
  /\ given_up' = given_up \cup {nr}
  /\ UNCHANGED <<reads, nr, dmaEngine, late, twice>>

\* dmaengine_terminate_all stops the engine, but not a callback on its way;
\* the mapping stays.
Timeout ==
  /\ completions = {}
  /\ Step("wait", "none")
  /\ engine' = 0
  /\ given_up' = given_up \cup {nr}
  /\ UNCHANGED <<reads, nr, mapped, dma_buf, callbacks, completions, late,
                 twice>>

\* The controller is through, and the CPU moves the last bytes; each of the
\* two waits may time out.
Rest ==
  /\ \/ Step("icf", "rest") \/ Step("icf", "none")
     \/ Step("rest", "none")
  /\ UNCHANGED <<reads, nr, dmaEngine, dmaHistory>>

-----------------------------------------------------------------------------
(* The engine, and i2c_imx_dma_callback.                                   *)

EngineEnds ==
  /\ engine # 0 /\ op \notin {"dmaen", "address"}
  /\ engine' = 0
  /\ callbacks' = callbacks \cup {engine}
  /\ UNCHANGED <<dmaXfer, mapped, dma_buf, completions, dmaHistory>>

Callback(c) ==
  /\ c \in callbacks
  /\ callbacks' = callbacks \ {c}
  /\ Unmap
  /\ completions' = completions \cup {c}
  /\ late' = (late \/ c # nr)
  /\ UNCHANGED <<dmaXfer, dma_buf, engine, given_up>>

TransferNext ==
  \/ Begin \/ Map \/ MapFails \/ PrepAndSubmit \/ PrepOrSubmitFails \/ Issue
  \/ StartWrite \/ ReinitCompletion \/ Completed \/ Timeout \/ Rest
  \/ EngineEnds \/ \E c \in callbacks : Callback(c)

TransferSpec == TransferInit /\ [][TransferNext]_transferVars

-----------------------------------------------------------------------------

\* The CPU gets a buffer back, to move the last bytes of the message and to
\* return it, when the engine is through with it, and each mapping is undone
\* once, whichever call fails and however late callbacks are.  What is left
\* mapped belongs to a transfer that timed out (627, 686), whose callback, if
\* it comes yet, passes for the next one's.
BufferIsReturned ==
  IF late
  THEN given_up # {}
  ELSE /\ op \in {"none", "icf", "rest"} =>
            engine = 0 /\ mapped \subseteq given_up
       /\ ~twice
=============================================================================
