----------------------------- MODULE DurableLog -----------------------------
(***************************************************************************)
(* What the staging file and the archive promise together, without the     *)
(* buffer, the shipper, their failures and their restarts: an append-only  *)
(* log, and a durable copy that holds at every moment what some prefix of  *)
(* the log has to keep, and never less than it held before.                *)
(***************************************************************************)
EXTENDS Integers

CONSTANT Rejected    \* the events that the copy need not keep

VARIABLES
  length,     \* the number of events in the log
  kept        \* the events in the durable copy

Init ==
  /\ length = 0
  /\ kept = {}

\* The log grows; the copy follows when it can.
Append ==
  /\ length' \in Nat
  /\ length' > length
  /\ UNCHANGED kept

\* The copy catches up with a longer prefix of the log.
Keep ==
  /\ \E n \in 0 .. length : kept' = (1 .. n) \ Rejected
  /\ kept \subseteq kept'
  /\ UNCHANGED length

Next == Append \/ Keep

Spec == Init /\ [][Next]_<<length, kept>>
=============================================================================
