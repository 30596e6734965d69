---------------------------- MODULE RunLifecycle ----------------------------
(***************************************************************************)
(* The life of a run as the experimenter sees it, without the calls that   *)
(* bring it about: one row that only moves forward, one machine that       *)
(* exists for a while, and a summary that only the machine can produce.    *)
(***************************************************************************)

VARIABLES
  status,     \* runs.status
  up,         \* the run's machine exists
  reported    \* the run's summary is in the registry

vars == <<status, up, reported>>

Init == status = "absent" /\ up = FALSE /\ reported = FALSE

Advance(from, to) ==
  /\ status = from
  /\ status' = to
  /\ UNCHANGED <<up, reported>>

Submit == Advance("absent", "pending")
Provision == Advance("pending", "provisioning")
Run == Advance("provisioning", "running")
Abandon == Advance("provisioning", "failed")
Complete == reported /\ Advance("running", "completed")
Lose == Advance("running", "failed")

\* The machine comes up only while the row announces it, and goes at any time.
Boot ==
  /\ status = "provisioning" /\ ~up
  /\ up' = TRUE
  /\ UNCHANGED <<status, reported>>

Gone ==
  /\ up
  /\ up' = FALSE
  /\ UNCHANGED <<status, reported>>

Report ==
  /\ up
  /\ reported' = TRUE
  /\ UNCHANGED <<status, up>>

Next ==
  \/ Submit \/ Provision \/ Run \/ Abandon \/ Complete \/ Lose
  \/ Boot \/ Gone \/ Report

Spec == Init /\ [][Next]_vars
=============================================================================
