---------------------------- MODULE I2cImxClock ----------------------------
(***************************************************************************)
(* How i2c-imx chooses the clock of the bus: i2c_imx_set_clk, at the start *)
(* of every transfer, and what comes of it.  The clock of the controller   *)
(* is divided by one of the divisors of a table.  The choice is kept for   *)
(* as long as clk_get_rate says the same, although others may change the   *)
(* rate at any time.                                                       *)
(*                                                                         *)
(* An entry of the table is its divisor, and what is written to IFDR is    *)
(* the number of the entry, 0 before there is one.                         *)
(***************************************************************************)
EXTENDS Integers, Sequences

CONSTANTS
  clk_div,   \* the divisors of hwdata->clk_div, ndivs of them
  Rates,     \* what clk_get_rate may return
  Bitrates,  \* what the device tree or the board may ask for
  UWord      \* the range of an unsigned int

imx_i2c_clk_div ==
  <<22, 24, 26, 28, 30, 32, 36, 40, 42, 44, 48, 52, 56, 60, 64, 72, 80, 88,
    96, 104, 112, 128, 144, 160, 192, 224, 240, 256, 288, 320, 384, 448, 480,
    512, 576, 640, 768, 896, 960, 1024, 1152, 1280, 1536, 1792, 1920, 2048,
    2304, 2560, 3072, 3840>>

vf610_i2c_clk_div ==
  <<20, 22, 24, 26, 28, 30, 32, 34, 36, 40, 44, 48, 52, 56, 60, 64, 68, 72,
    80, 88, 96, 104, 112, 128, 136, 144, 160, 176, 192, 208, 224, 228, 240,
    256, 288, 320, 384, 448, 480, 512, 576, 640, 768, 896, 960, 1024, 1152,
    1280, 1536, 1792, 1920, 2048, 2304, 2560, 3072, 3584, 3840, 4096, 5120,
    6144>>

ndivs == Len(clk_div)
Entries == 1 .. ndivs

\* "sorted list of clock divider, register value pairs ... Duplicated divider
\* values removed from list"
IsTable(t) ==
  /\ t \in Seq(Nat \ {0}) /\ t # <<>>
  /\ \A j, k \in 1 .. Len(t) : j < k => t[j] < t[k]

ASSUME TablesAssumption ==
  IsTable(imx_i2c_clk_div) /\ IsTable(vf610_i2c_clk_div)

\* The device tree asks for a rate that is not 0, by which is divided, and the
\* numbers fit in a word: with the tables above and 32 bits they do for every
\* clock below 1.2 GHz.
ASSUME I2cImxClockAssumption ==
  /\ IsTable(clk_div)
  /\ Rates \subseteq Nat /\ Bitrates \subseteq Nat \ {0} /\ UWord \in Nat
  /\ \A r \in Rates :
       /\ r >= 2
       /\ \A b \in Bitrates : r + b <= UWord
       /\ \A k \in Entries : 500000 * clk_div[k] + r <= UWord

VARIABLES
  rate,           \* of the clock, which others may change
  bitrate,        \* i2c_imx->bitrate, set by probe
  cur_clk,        \* the rate for which the divisor was chosen
  div,            \* what should be divided by
  entry,          \* the loop counter of the search, from 1
  ifdr,           \* the entry that was chosen
  disable_delay,  \* microseconds
  IFDR,           \* the register
  set_clk         \* where i2c_imx_start is

chosen == <<ifdr, disable_delay>>
clockVars == <<rate, bitrate, cur_clk, div, entry, chosen, IFDR, set_clk>>

UInt(x) == x % UWord

ClockTypeOK ==
  /\ rate \in Rates /\ bitrate \in Bitrates
  /\ cur_clk \in Rates \cup {0}
  /\ div \in Nat
  /\ entry \in Nat
  /\ ifdr \in 0 .. ndivs /\ IFDR \in 0 .. ndivs
  /\ disable_delay \in Nat
  /\ set_clk \in {"out", "search", "store", "write", "bus"}

ClockInit ==
  /\ rate \in Rates /\ bitrate \in Bitrates
  /\ cur_clk = 0 /\ div = 0 /\ entry = 0
  /\ ifdr = 0 /\ disable_delay = 0 /\ IFDR = 0
  /\ set_clk = "out"

-----------------------------------------------------------------------------

StepTo(from, to) == set_clk = from /\ set_clk' = to

\* Somebody else sets the clock, at any moment.
RateChanges ==
  /\ rate' \in Rates \ {rate}
  /\ UNCHANGED <<bitrate, cur_clk, div, entry, chosen, IFDR, set_clk>>

SameClock ==
  /\ StepTo("out", "write")
  /\ cur_clk = rate
  /\ UNCHANGED <<rate, bitrate, cur_clk, div, entry, chosen, IFDR>>

\* Seeded bug: the quotient is rounded down.
NewClockRoundedDown ==
  /\ cur_clk # rate
  /\ cur_clk' = rate
  /\ div' = rate \div bitrate
  /\ \/ div' < clk_div[1] /\ entry' = 1 /\ StepTo("out", "store")
     \/ div' > clk_div[ndivs] /\ entry' = ndivs /\ StepTo("out", "store")
     \/ /\ div' \in clk_div[1] .. clk_div[ndivs]
        /\ entry' = 1 /\ StepTo("out", "search")
  /\ UNCHANGED <<rate, bitrate, chosen, IFDR>>

NewClock ==
  /\ cur_clk # rate
  /\ cur_clk' = rate
  /\ div' = UInt(rate + bitrate - 1) \div bitrate
  /\ \/ div' < clk_div[1] /\ entry' = 1 /\ StepTo("out", "store")
     \/ div' > clk_div[ndivs] /\ entry' = ndivs /\ StepTo("out", "store")
     \/ /\ div' \in clk_div[1] .. clk_div[ndivs]
        /\ entry' = 1 /\ StepTo("out", "search")
  /\ UNCHANGED <<rate, bitrate, chosen, IFDR>>

\* One round of the loop, which has no bound of its own.
Search ==
  /\ \/ /\ StepTo("search", "search")
        /\ clk_div[entry] < div
        /\ entry' = entry + 1
     \/ /\ StepTo("search", "store")
        /\ clk_div[entry] >= div
        /\ UNCHANGED entry
  /\ UNCHANGED <<rate, bitrate, cur_clk, div, chosen, IFDR>>

\* Seeded bug: the delay is rounded down.
StoreRoundedDown ==
  /\ StepTo("store", "write")
  /\ ifdr' = entry
  /\ disable_delay' = UInt(500000 * clk_div[entry]) \div (cur_clk \div 2)
  /\ UNCHANGED <<rate, bitrate, cur_clk, div, entry, IFDR>>

Store ==
  /\ StepTo("store", "write")
  /\ ifdr' = entry
  /\ disable_delay' =
       UInt(500000 * clk_div[entry] + (cur_clk \div 2) - 1)
         \div (cur_clk \div 2)
  /\ UNCHANGED <<rate, bitrate, cur_clk, div, entry, IFDR>>

WriteIFDR ==
  /\ StepTo("write", "bus")
  /\ IFDR' = ifdr
  /\ UNCHANGED <<rate, bitrate, cur_clk, div, entry, chosen>>

\* The rest of the transfer; see I2cImx.
TransferDone ==
  /\ StepTo("bus", "out")
  /\ UNCHANGED <<rate, bitrate, cur_clk, div, entry, chosen, IFDR>>

ClockNext ==
  \/ RateChanges
  \/ SameClock \/ NewClock \/ Search \/ Store \/ WriteIFDR \/ TransferDone

ClockSpec == ClockInit /\ [][ClockNext]_clockVars

-----------------------------------------------------------------------------

\* The loop of line 490 has no bound but what it finds: it never looks behind
\* the end of the table.
SearchStaysInTable == set_clk \in {"search", "store"} => entry \in Entries

\* At cur_clk this divisor makes the bus faster than it was asked to be.
TooFast(k) == clk_div[k] * bitrate < cur_clk

\* While the bus is in use it is divided by the smallest divisor with which it
\* is not too fast at the rate that was read last (478), or by the largest of
\* all, whether that divisor was chosen now or for an earlier transfer.
BusIsNotTooFast ==
  set_clk = "bus" =>
    /\ IFDR \in Entries
    /\ \A k \in 1 .. IFDR - 1 : TooFast(k)
    /\ TooFast(IFDR) => IFDR = ndivs

\* The delay before the controller is disabled lasts one period of the bus at
\* least, which is div / rate seconds, and not a microsecond longer than half
\* the rate, rounded down, makes it (496-503; "It should be about one I2C clock
\* period long").
DelayIsAPeriod ==
  set_clk = "bus" =>
    LET half == cur_clk \div 2
    IN /\ disable_delay * half >= 500000 * clk_div[IFDR]
       /\ (disable_delay - 1) * half < 500000 * clk_div[IFDR]
=============================================================================
