---------------------------- MODULE EepromMemory ----------------------------
(***************************************************************************)
(* What the EEPROM driver promises its callers: a memory of Size bytes.  A *)
(* write stores all its bytes at its offset at one moment of the call, and *)
(* only one that lies inside the memory does; a read hands out what was    *)
(* stored at one moment of the call.  A call that fails says so; a write   *)
(* that fails on the bus may have stored a first part of its bytes.        *)
(***************************************************************************)
EXTENDS Integers, Sequences

CONSTANTS Processes, Size, Requests

VARIABLES
  mem,     \* the bytes stored
  phase,   \* "out" of a call, "asked" before its moment, "done" after it
  req,     \* what the process asks for, while it asks
  buf,     \* what a read is to hand out
  ret      \* the answer to the last call, "-1" during a call

vars == <<mem, phase, req, buf, ret>>

Address == 0 .. Size - 1
NoRequest == [cmd |-> "none", offset |-> 0, count |-> 0, data |-> <<>>]

\* The bytes lie inside the memory, in plain arithmetic.
Fits(r) == r.offset + r.count <= Size

\* The memory with the sequence d stored from an offset on.
With(d, offset) ==
  [a \in Address |->
     IF a - offset + 1 \in DOMAIN d THEN d[a - offset + 1] ELSE mem[a]]

Init ==
  /\ phase = [p \in Processes |-> "out"]
  /\ req = [p \in Processes |-> NoRequest]
  /\ buf = [p \in Processes |-> <<>>]

Goto(p, from, to) ==
  /\ phase[p] = from
  /\ phase' = [phase EXCEPT ![p] = to]

Leave(p, from, answers) ==
  /\ Goto(p, from, "out")
  /\ req' = [req EXCEPT ![p] = NoRequest]
  /\ buf' = [buf EXCEPT ![p] = <<>>]
  /\ \E answer \in answers : ret' = [ret EXCEPT ![p] = answer]

Ask(p, r) ==
  /\ Goto(p, "out", "asked")
  /\ req' = [req EXCEPT ![p] = r]
  /\ ret' = [ret EXCEPT ![p] = "-1"]
  /\ UNCHANGED <<mem, buf>>

\* The moment of a write.
Store(p) ==
  /\ Goto(p, "asked", "done")
  /\ req[p].cmd = "WRITE" /\ Fits(req[p])
  /\ mem' = With(req[p].data, req[p].offset)
  /\ UNCHANGED <<req, buf, ret>>

\* The moment of a read; the memory is read in a circle, so that an offset
\* counts modulo Size.
Fetch(p) ==
  /\ Goto(p, "asked", "done")
  /\ req[p].cmd = "READ"
  /\ LET first == req[p].offset % Size
     IN buf' = [buf EXCEPT ![p] = [i \in 1 .. req[p].count |->
                                     mem[(first + i - 1) % Size]]]
  /\ UNCHANGED <<mem, req, ret>>

\* No request that could be served is refused, but for a write of nothing.
Refuse(p) ==
  /\ Leave(p, "asked", {"EINVAL", "EFAULT"})
  /\ ret'[p] = "EINVAL" =>
       \/ req[p].cmd \notin {"READ", "WRITE"}
       \/ req[p].cmd = "WRITE" /\ (req[p].count = 0 \/ ~Fits(req[p]))
  /\ UNCHANGED mem

FailOnBus(p) ==
  /\ Leave(p, "asked", {"EIO"})
  /\ \/ UNCHANGED mem
     \/ /\ req[p].cmd = "WRITE" /\ Fits(req[p])
        /\ \E n \in 1 .. req[p].count - 1 :
             mem' = With(SubSeq(req[p].data, 1, n), req[p].offset)

Answer(p) ==
  /\ Leave(p, "done", {"0", IF req[p].cmd = "READ" THEN "EFAULT"
                                                   ELSE "ETIMEDOUT"})
  /\ UNCHANGED mem

Next ==
  \E p \in Processes :
    \/ \E r \in Requests : Ask(p, r)
    \/ Store(p) \/ Fetch(p) \/ Refuse(p) \/ FailOnBus(p) \/ Answer(p)

Spec == Init /\ [][Next]_vars
=============================================================================
