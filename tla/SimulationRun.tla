--------------------------- MODULE SimulationRun ---------------------------
(***************************************************************************)
(* python/freewill/engine/tick_loop.py with the writing half of            *)
(* storage/checkpoint_store.py: one run of run_simulation, its ticks, and  *)
(* the two objects of each checkpoint in Cloud Storage.                    *)
(*                                                                         *)
(* The mathematics of a mechanism is abstracted to the tick its output     *)
(* belongs to; the order of the calls, the exception of a mechanism that   *)
(* is still a stub and the death of the process are kept.                  *)
(***************************************************************************)
EXTENDS Integers, Sequences

CONSTANT Configs   \* the runs: where they start, how long, and which stubs are left

ASSUME ConfigsAssumption ==
  Configs \subseteq [start : Nat, numTicks : Nat \ {0}, interval : Nat \ {0},
                     implemented : SUBSET STRING]

\* The mechanisms: the parts of the state that each one reads, of those that
\* run_tick assigns, and the part its result is assigned to.  What a mechanism
\* computes is abstracted, and it raises unless it is implemented.
Call(name, reads, writes) == [name |-> name, reads |-> reads, writes |-> writes]

ComputePersonalAffinity == Call("compute_personal_affinity",
  {"grid_positions", "trust_tensor", "belief_matrix"}, "personal_affinity")

ComputeCandidateMoves == Call("compute_candidate_moves",
  {"grid_positions", "personal_affinity"}, "candidate_moves")

ResolveCollisions == Call("resolve_collisions", {"candidate_moves"}, "grid_positions")

TriggerDiscovery == Call("trigger_discovery",
  {"grid_positions", "belief_matrix"}, "belief_matrix")

BuildCommunicationMatrix == Call("build_communication_matrix",
  {"grid_positions"}, "communication_matrix")

ApplyAlphaFlux == Call("apply_alpha_flux",
  {"belief_matrix", "trust_tensor"}, "belief_matrix")

ApplyForwardFlow == Call("apply_forward_flow",
  {"belief_matrix", "trust_tensor"}, "trust_tensor")

ApplyOmegaFlux == Call("apply_omega_flux", {"belief_matrix"}, "belief_matrix")

ApplyPsiFlux == Call("apply_psi_flux", {"belief_matrix", "trust_tensor"}, "trust_tensor")

ApplyFallacyExtensions == Call("apply_fallacy_extensions",
  {"belief_matrix"}, "belief_matrix")

DeriveCompositeTrust == Call("derive_composite_trust", {"trust_tensor"}, "trust_tensor")

ApplyAdHominemHaloLeak == Call("apply_ad_hominem_halo_leak",
  {"trust_tensor"}, "trust_tensor")

\* Mutant: discovery and conversation come before the movement.
CallsConversationFirst == <<
  ComputePersonalAffinity, TriggerDiscovery, BuildCommunicationMatrix,
  ComputeCandidateMoves, ResolveCollisions, ApplyAlphaFlux, ApplyForwardFlow,
  ApplyOmegaFlux, ApplyPsiFlux, ApplyFallacyExtensions, DeriveCompositeTrust,
  ApplyAdHominemHaloLeak >>

\* The calls of run_tick in their order.
Calls == <<
  ComputePersonalAffinity, ComputeCandidateMoves, ResolveCollisions,
  TriggerDiscovery, BuildCommunicationMatrix, ApplyAlphaFlux, ApplyForwardFlow,
  ApplyOmegaFlux, ApplyPsiFlux, ApplyFallacyExtensions, DeriveCompositeTrust,
  ApplyAdHominemHaloLeak >>

Tensors == {"personal_affinity", "candidate_moves", "grid_positions", "belief_matrix",
            "communication_matrix", "trust_tensor"}

\* What _write_checkpoint puts into the npz: the serialization of B and T is
\* left to do in the code.
Saved == {"grid_positions", "personal_affinity"}

VARIABLES
  config,      \* the run's RunConfig and what is implemented
  tick,        \* state.tick
  stamp,       \* the tick that each part of the state belongs to
  iteration,   \* how many ticks of range(num_ticks) are complete
  phase,       \* the statement of run_simulation
  next,        \* the index in Calls, or the object to upload
  npz,         \* the npz objects: name and contents
  parquet,     \* the ticks in the names of the parquet objects
  logClosed    \* event_log.close() has returned

vars == <<config, tick, stamp, iteration, phase, next, npz, parquet, logClosed>>

Writing == phase \in {"startCheckpoint", "checkpoint", "endCheckpoint"}
Ended == phase \in {"returned", "raised"}

\* Every variable keeps its type; in particular the loop never completes more
\* ticks than num_ticks.
TypeOK ==
  /\ config \in Configs
  /\ tick \in Nat
  /\ stamp \in [Tensors -> Nat]
  /\ iteration \in 0 .. config.numTicks
  /\ phase \in {"startCheckpoint", "tick", "checkpoint", "closeLog", "endCheckpoint",
                "returned", "raised"}
  /\ next \in 1 .. Len(Calls) + 1
  /\ npz \subseteq [tick : Nat, of : [Saved -> Nat]]
  /\ parquet \subseteq Nat
  /\ logClosed \in BOOLEAN

Init ==
  /\ config \in Configs
  /\ tick = config.start
  /\ stamp = [t \in Tensors |-> config.start]
  /\ iteration = 0
  /\ phase = "startCheckpoint"
  /\ next = 1
  /\ npz = {}
  /\ parquet = {}
  /\ logClosed = FALSE

-----------------------------------------------------------------------------
(* Checkpoints *)

\* Mutant: the loop misses its end when the interval divides the last tick.
AfterCheckpointMissesEnd == IF phase = "endCheckpoint" THEN "returned" ELSE "tick"

\* Where run_simulation goes on after a checkpoint.
AfterCheckpoint ==
  CASE phase = "endCheckpoint" -> "returned"
    [] phase # "endCheckpoint" /\ iteration = config.numTicks -> "closeLog"
    [] OTHER -> "tick"

\* Mutant: the two objects are uploaded in the other order.
UploadParquetFirst ==
  /\ Writing /\ next = 1
  /\ parquet' = parquet \cup {tick}
  /\ next' = 2
  /\ UNCHANGED <<config, tick, stamp, iteration, phase, npz, logClosed>>

\* The first object: it replaces an object of the same name.
UploadNpz ==
  /\ Writing /\ next = 1
  /\ npz' = {obj \in npz : obj.tick # tick}
              \cup {[tick |-> tick, of |-> [t \in Saved |-> stamp[t]]]}
  /\ next' = 2
  /\ UNCHANGED <<config, tick, stamp, iteration, phase, parquet, logClosed>>

\* The second one, which completes the checkpoint.
UploadParquet ==
  /\ Writing /\ next = 2
  /\ parquet' = parquet \cup {tick}
  /\ phase' = AfterCheckpoint
  /\ next' = 1
  /\ UNCHANGED <<config, tick, stamp, iteration, npz, logClosed>>

-----------------------------------------------------------------------------
(* Ticks *)

\* One mechanism call of run_tick, which assigns its part of the state in place.
Mechanism ==
  /\ phase = "tick" /\ next \in 1 .. Len(Calls)
  /\ Calls[next].name \in config.implemented
  /\ stamp' = [stamp EXCEPT ![Calls[next].writes] = tick + 1]
  /\ next' = next + 1
  /\ UNCHANGED <<config, tick, iteration, phase, npz, parquet, logClosed>>

\* Mutant: the loop goes on after a stub.
MechanismRaisesIsCaught ==
  /\ phase = "tick" /\ next \in 1 .. Len(Calls)
  /\ Calls[next].name \notin config.implemented
  /\ next' = next + 1
  /\ UNCHANGED <<config, tick, stamp, iteration, phase, npz, parquet, logClosed>>

\* A stub raises NotImplementedError, which nothing catches: what the calls
\* before it have changed stays changed, and the tick is not counted.
MechanismRaises ==
  /\ phase = "tick" /\ next \in 1 .. Len(Calls)
  /\ Calls[next].name \notin config.implemented
  /\ phase' = "raised"
  /\ UNCHANGED <<config, tick, stamp, iteration, next, npz, parquet, logClosed>>

\* Mutant: the interval is counted from the start of the run, off by one.
EndTickOffByOne ==
  /\ phase = "tick" /\ next = Len(Calls) + 1
  /\ tick' = tick + 1
  /\ iteration' = iteration + 1
  /\ phase' = CASE (tick - config.start) % config.interval = 0 -> "checkpoint"
                [] (tick - config.start) % config.interval # 0
                   /\ iteration + 1 = config.numTicks -> "closeLog"
                [] OTHER -> "tick"
  /\ next' = 1
  /\ UNCHANGED <<config, stamp, npz, parquet, logClosed>>

\* Mutant: the checkpoint is written before the tick is counted.
EndTickBeforeCount ==
  /\ phase = "tick" /\ next = Len(Calls) + 1
  /\ tick' = tick
  /\ iteration' = iteration + 1
  /\ phase' = IF iteration + 1 = config.numTicks THEN "closeLog" ELSE "checkpoint"
  /\ next' = 1
  /\ UNCHANGED <<config, stamp, npz, parquet, logClosed>>

\* Mutant: no checkpoint during the run.
EndTickNoCheckpoint ==
  /\ phase = "tick" /\ next = Len(Calls) + 1
  /\ tick' = tick + 1
  /\ iteration' = iteration + 1
  /\ phase' = IF iteration + 1 = config.numTicks THEN "closeLog" ELSE "tick"
  /\ next' = 1
  /\ UNCHANGED <<config, stamp, npz, parquet, logClosed>>

\* The end of run_tick, and the condition for a checkpoint in run_simulation.
EndTick ==
  /\ phase = "tick" /\ next = Len(Calls) + 1
  /\ tick' = tick + 1
  /\ iteration' = iteration + 1
  /\ phase' = CASE tick' % config.interval = 0 -> "checkpoint"
                [] tick' % config.interval # 0 /\ iteration' = config.numTicks -> "closeLog"
                [] OTHER -> "tick"
  /\ next' = 1
  /\ UNCHANGED <<config, stamp, npz, parquet, logClosed>>

CloseLog ==
  /\ phase = "closeLog"
  /\ logClosed' = TRUE
  /\ phase' = "endCheckpoint"
  /\ UNCHANGED <<config, tick, stamp, iteration, next, npz, parquet>>

\* The instance is preempted, or a call raises: nothing in run_simulation
\* catches an exception, so a failed upload ends the run, applied or not.
Dies ==
  /\ ~Ended
  /\ phase' = "raised"
  /\ UNCHANGED <<config, tick, stamp, iteration, next, npz, parquet, logClosed>>

Next ==
  \/ UploadNpz \/ UploadParquet
  \/ Mechanism \/ MechanismRaises \/ EndTick
  \/ CloseLog \/ Dies

Spec == Init /\ [][Next]_vars

-----------------------------------------------------------------------------
(* Properties *)

\* The checkpoints that a reader can load: read_checkpoint needs both objects.
Complete == {obj.tick : obj \in npz} \cap parquet

\* A run that dies, at any call and between the two uploads of a checkpoint too,
\* leaves at most checkpoint_interval_ticks ticks behind its last complete
\* checkpoint.
BoundedRollback ==
  iteration > 0 =>
    \E c \in Complete : c <= tick /\ tick - c <= config.interval

\* A checkpoint holds the state of the tick in its name, never the state in the
\* middle of a tick, although run_tick assigns the state in place.
CheckpointIsOfItsTick ==
  \A obj \in npz : \A t \in Saved : obj.of[t] = obj.tick

\* The parquet object tells a reader that the checkpoint is complete: it is
\* never there without the npz.
ParquetAfterNpz == parquet \subseteq {obj.tick : obj \in npz}

\* The ticks at which PRD 4.2 (step 7) and the docstring of run_simulation want
\* a checkpoint: start, end, and every multiple of the interval between them.
RequiredCheckpoints ==
  {config.start, config.start + config.numTicks} \cup
  {t \in config.start .. config.start + config.numTicks :
     t # config.start /\ t % config.interval = 0}

\* A run that returns has written exactly the required checkpoints, and closed
\* the event log before the last one.
ReturnedRunIsComplete ==
  phase = "returned" =>
    /\ Complete = RequiredCheckpoints
    /\ tick = config.start + config.numTicks
    /\ logClosed

\* What is recomputed in every tick is never read with the values of the tick
\* before: neither the personal affinity and the candidate moves nor, in discovery
\* and conversation, the positions the agents moved from (state.py on
\* personal_affinity, the order of the steps of PRD 4.2).
NothingStaleIsRead ==
  [][phase = "tick" /\ next' = next + 1 =>
       \A part \in Calls[next].reads :
         \/ part \in {"personal_affinity", "candidate_moves"}
         \/ /\ part = "grid_positions"
            /\ Calls[next].name \in {"trigger_discovery", "build_communication_matrix"}
         => stamp[part] = tick + 1]_vars

\* A run with a stub among its mechanisms leaves its first checkpoint and none
\* of a tick it could not finish.
StubLeavesNoTick ==
  ~(\A i \in 1 .. Len(Calls) : Calls[i].name \in config.implemented) =>
    Complete \subseteq {config.start}
=============================================================================
