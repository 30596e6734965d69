------------------------- MODULE PeriodicCheckpoints -------------------------
(***************************************************************************)
(* What the checkpoints of a run promise, without the calls of a tick, the *)
(* two objects and the store: an attempt that counts ticks is never more   *)
(* than one interval ahead of what it has saved itself, and it never loses *)
(* what it saved.                                                          *)
(***************************************************************************)
EXTENDS Integers

VARIABLES
  start,      \* the tick every attempt starts from
  interval,   \* how far an attempt may be ahead of its last checkpoint
  progress,   \* the tick of the attempt
  saved       \* the ticks that the attempt can be restored to

Init ==
  /\ start \in Nat
  /\ interval \in Nat \ {0}
  /\ progress = start
  /\ saved = {}

Tick ==
  /\ \E c \in saved : c <= progress /\ progress + 1 - c <= interval
  /\ progress' = progress + 1
  /\ UNCHANGED <<start, interval, saved>>

Save ==
  /\ saved' = saved \cup {progress}
  /\ UNCHANGED <<start, interval, progress>>

\* A new attempt begins where the first one did, with nothing of its own.
Restart ==
  /\ progress' = start
  /\ saved' = {}
  /\ UNCHANGED <<start, interval>>

Next == Tick \/ Save \/ Restart

Spec == Init /\ [][Next]_<<start, interval, progress, saved>>
=============================================================================
