----------------------------- MODULE RepeatedRun -----------------------------
(***************************************************************************)
(* Several attempts of one run: an instance is preempted, somebody repeats *)
(* the command, and run_simulation starts again from the first tick on the *)
(* same run_id.  The objects of the earlier attempts stay in the bucket    *)
(* and are replaced one by one.  An attempt ends before the next begins,   *)
(* because the instance's name admits one engine at a time.                *)
(*                                                                         *)
(* The engine threads no seed through to its generator, so two attempts    *)
(* compute different states, and it matters which of them wrote an object. *)
(***************************************************************************)
EXTENDS SimulationRun, FiniteSets

CONSTANT MaxAttempts   \* how often the run is started

ASSUME MaxAttemptsAssumption == MaxAttempts \in Nat \ {0}

VARIABLES
  attempt,     \* the number of the attempt
  npzBy,       \* which attempt wrote each npz object
  parquetBy    \* which attempt wrote each parquet object

attemptVars == <<attempt, npzBy, parquetBy>>
repeatedVars == <<vars, attemptVars>>

RepeatedInit ==
  /\ Init
  /\ attempt = 1
  /\ npzBy = {}
  /\ parquetBy = {}

\* Mutant: the store keeps an npz that is already there.
OverwriteIfAbsent(objects) ==
  IF \E obj \in objects : obj.tick = tick
  THEN objects
  ELSE objects \cup {[tick |-> tick, by |-> attempt]}

\* upload_from_file replaces an object of the same name.
Overwrite(objects) ==
  {obj \in objects : obj.tick # tick} \cup {[tick |-> tick, by |-> attempt]}

\* Mutant: only the npz is kept when it is already there.
WriteNpzIfAbsent ==
  /\ UploadNpz
  /\ npzBy' = OverwriteIfAbsent(npzBy)
  /\ UNCHANGED <<attempt, parquetBy>>

WriteNpz ==
  /\ UploadNpz
  /\ npzBy' = Overwrite(npzBy)
  /\ UNCHANGED <<attempt, parquetBy>>

WriteParquet ==
  /\ UploadParquet
  /\ parquetBy' = Overwrite(parquetBy)
  /\ UNCHANGED <<attempt, npzBy>>

Proceed ==
  /\ Mechanism \/ MechanismRaises \/ EndTick \/ CloseLog \/ Dies
  /\ UNCHANGED attemptVars

\* A new process on a new instance: nothing looks for a checkpoint to go on from.
Rerun ==
  /\ Ended
  /\ attempt < MaxAttempts
  /\ attempt' = attempt + 1
  /\ tick' = config.start
  /\ stamp' = [t \in Tensors |-> config.start]
  /\ iteration' = 0
  /\ phase' = "startCheckpoint"
  /\ next' = 1
  /\ logClosed' = FALSE
  /\ UNCHANGED <<config, npz, parquet, npzBy, parquetBy>>

RepeatedNext == WriteNpz \/ WriteParquet \/ Proceed \/ Rerun

RepeatedSpec == RepeatedInit /\ [][RepeatedNext]_repeatedVars

-----------------------------------------------------------------------------
(* Properties *)

\* The checkpoints for which read_checkpoint, which downloads one object after
\* the other, returns the tensors of one attempt and the coefficients of another.
Torn ==
  {obj.tick : obj \in {o \in npzBy : \E p \in parquetBy : p.tick = o.tick /\ p.by # o.by}}

\* Every attempt but the first leaves at most one such checkpoint, whenever it
\* dies; the later checkpoints are still those of the attempts before.
OneTornPerRetry == Cardinality(Torn) < attempt

\* The checkpoints that are the attempt's own, both objects of them.
Own == {obj.tick : obj \in {o \in npzBy \cap parquetBy : o.by = attempt}}

\* A repeated run can rely on its own checkpoints: what BoundedRollback promises
\* is there of this attempt, not of an earlier one that computed something else.
OwnCheckpointIsNear ==
  iteration > 0 => \E c \in Own : c <= tick /\ tick - c <= config.interval

\* A run that returns has mended whatever the attempts before it have torn: every
\* checkpoint that a reader can load is its own, although nobody removes the
\* objects of an attempt that died (write_checkpoint replaces by name).
ReturnedRunIsWhole ==
  phase = "returned" =>
    /\ Torn = {}
    /\ Complete = Own

\* Every attempt implements the promise of periodic checkpoints, with its own
\* checkpoints for what is saved: none is lost when the store replaces objects, none
\* is of another tick than the one the attempt is at, and no tick is counted that
\* would take it more than one interval away from all of them.
Periodic == INSTANCE PeriodicCheckpoints
  WITH start <- config.start, interval <- config.interval, progress <- tick, saved <- Own

ImplementsPeriodicCheckpoints == Periodic!Spec
=============================================================================
