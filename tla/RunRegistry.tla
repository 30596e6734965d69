---------------------------- MODULE RunRegistry ----------------------------
(***************************************************************************)
(* The Cloud SQL run registry, as seen through its two clients             *)
(* (go/internal/cloudsql and python/freewill/storage/run_registry.py).     *)
(* Every statement of either client names one run_id in its WHERE or       *)
(* VALUES clause, so the rows of one run are all there is to model.        *)
(* Each operator below is one committed SQL statement.                     *)
(***************************************************************************)

VARIABLES
  status,           \* runs.status, or NoRow while the run is not submitted
  computeInstance,  \* runs.compute_instance, or NoName while it is NULL
  endedAt,          \* runs.ended_at IS NOT NULL
  hasSummary        \* run_summaries has a row for the run

registryVars == <<status, computeInstance, endedAt, hasSummary>>

NoRow == "absent"
NoName == ""
InstanceName == "freewill-run"

\* The values the CHECK constraint of the table admits.
Statuses == {"pending", "provisioning", "running", "completed", "failed"}

\* The statuses on which both clients stamp ended_at.
Terminal == {"completed", "failed"}

RowExists == status # NoRow

RegistryTypeOK ==
  /\ status \in Statuses \cup {NoRow}
  /\ computeInstance \in {NoName, InstanceName}
  /\ endedAt \in BOOLEAN
  /\ hasSummary \in BOOLEAN

RegistryInit ==
  /\ status = NoRow
  /\ computeInstance = NoName
  /\ endedAt = FALSE
  /\ hasSummary = FALSE

\* Mutant: a second submission replaces the row.
CreateRunReplaces ==
  /\ status' = "pending"
  /\ UNCHANGED <<computeInstance, endedAt, hasSummary>>

\* INSERT INTO runs: the primary key refuses a second row for the run.
CreateRun ==
  /\ ~RowExists
  /\ status' = "pending"
  /\ UNCHANGED <<computeInstance, endedAt, hasSummary>>

\* Mutant: the UPDATE forgets the CASE that stamps ended_at.
MarkRunStatusNoTimestamp(s, name) ==
  /\ RowExists
  /\ status' = s
  /\ computeInstance' = IF name = NoName THEN computeInstance ELSE name
  /\ UNCHANGED <<endedAt, hasSummary>>

\* Mutant: the UPDATE writes the name even when the caller passes none.
MarkRunStatusClearsName(s, name) ==
  /\ RowExists
  /\ status' = s
  /\ computeInstance' = name
  /\ endedAt' = (endedAt \/ s \in Terminal)
  /\ UNCHANGED hasSummary

\* UPDATE runs SET status, compute_instance (kept when no name is given) and
\* ended_at (stamped on a terminal status, never cleared).  Every caller runs
\* after the row was read, and no statement deletes it.
MarkRunStatus(s, name) ==
  /\ RowExists
  /\ status' = s
  /\ computeInstance' = IF name = NoName THEN computeInstance ELSE name
  /\ endedAt' = (endedAt \/ s \in Terminal)
  /\ UNCHANGED hasSummary

\* INSERT INTO run_summaries .. ON CONFLICT DO UPDATE: it may be repeated, and
\* the foreign key wants the run's row.
WriteRunSummary ==
  /\ RowExists
  /\ hasSummary' = TRUE
  /\ UNCHANGED <<status, computeInstance, endedAt>>

=============================================================================
