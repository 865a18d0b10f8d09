----------------------------- MODULE KeyMailbox -----------------------------
(***************************************************************************)
(* What the key drivers promise to the programs that read their device:    *)
(* a mailbox of one slot.  A key posts its status; a post that nobody has  *)
(* read yet is overwritten by the next one; a read hands out the latest.   *)
(* Nothing is handed out unless something was posted, and the last post is *)
(* never left behind: when nothing is owed any more, the latest post is    *)
(* the one that was handed out.                                            *)
(***************************************************************************)
EXTENDS Naturals

CONSTANT Numbering  \* posts are numbered modulo this

VARIABLES
  latest,   \* the last post: the status of a key, and a number
  owed,     \* TRUE while some read is still to hand out `latest'
  got       \* the post handed out last

vars == <<latest, owed, got>>

Status == {0, 1}

Init ==
  /\ latest = [status |-> 0, number |-> 0]
  /\ owed = FALSE
  /\ got = latest

\* A key status arrives; it replaces one that was not read in time.
Post(v) ==
  /\ latest' = [status |-> v, number |-> (latest.number + 1) % Numbering]
  /\ owed' = TRUE
  /\ UNCHANGED got

\* A read hands out the latest post.  It settles the debt, unless the same
\* post is also on its way to another reader.
Take ==
  /\ owed
  /\ got' = latest
  /\ owed' \in BOOLEAN
  /\ UNCHANGED latest

Next ==
  \/ \E v \in Status : Post(v)
  \/ Take

Spec == Init /\ [][Next]_vars

\* Once nothing is owed, what was handed out is what was posted last.
NothingLeftBehind == ~owed => got = latest
=============================================================================
