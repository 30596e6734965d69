------------------------ MODULE SimulationRunProofs ------------------------
(***************************************************************************)
(* What holds of run_simulation for every start, length and interval.      *)
(***************************************************************************)
EXTENDS SimulationRun, TLAPS

\* From one tick to the next the remainder grows by one or wraps to zero.
LEMMA NextRemainder ==
  ASSUME NEW t \in Nat, NEW k \in Nat \ {0}
  PROVE  /\ t % k \in 0 .. k - 1
         /\ (t + 1) % k # 0 => (t + 1) % k = (t % k) + 1
OBVIOUS

\* The distance to the last complete checkpoint, by the statement that runs
\* next: between two checkpoints it is at most the remainder of the tick, which
\* wraps to zero exactly when a checkpoint is due.
Within(d) == \E c \in Complete : c \in Nat /\ c <= tick /\ tick - c <= d

IInv ==
  /\ config \in Configs
  /\ tick \in Nat
  /\ iteration \in Nat
  /\ phase = "startCheckpoint" => iteration = 0
  /\ phase \in {"tick", "closeLog", "endCheckpoint"} => Within(tick % config.interval)
  /\ phase = "checkpoint" => Within(config.interval)
  /\ iteration > 0 => Within(config.interval)
  /\ phase = "closeLog" => next = 1
  /\ Writing /\ next # 1 => \E obj \in npz : obj.tick = tick

\* The interval is positive in every run (Field(gt=0) in RunConfig).
LEMMA IntervalPositive ==
  ASSUME config \in Configs
  PROVE  /\ config.interval \in Nat \ {0}
         /\ config.start \in Nat
BY ConfigsAssumption

\* Initially no checkpoint is wanted yet.
LEMMA InitIInv == Init => IInv
BY IntervalPositive DEF Init, IInv, Writing

\* An upload never takes a complete checkpoint away: the npz it replaces is
\* replaced by one of the same tick.
LEMMA UploadsKeep ==
  ASSUME UploadNpz \/ UploadParquet
  PROVE  Complete \subseteq Complete'
<1>1. CASE UploadNpz
  <2> DEFINE new == [tick |-> tick, of |-> [t \in Saved |-> stamp[t]]]
  <2>1. npz' = {obj \in npz : obj.tick # tick} \cup {new} /\ parquet' = parquet
    BY <1>1 DEF UploadNpz
  <2>2. new.tick = tick
    OBVIOUS
  <2> HIDE DEF new
  <2>3. ASSUME NEW obj \in npz
        PROVE  \E obj2 \in npz' : obj2.tick = obj.tick
    BY <2>1, <2>2
  <2>4. QED
    BY <2>1, <2>3 DEF Complete
<1>2. CASE UploadParquet
  BY <1>2 DEF UploadParquet, Complete
<1>3. QED
  BY <1>1, <1>2

\* Every step preserves IInv.
LEMMA NextIInv == IInv /\ [Next]_vars => IInv'
<1> SUFFICES ASSUME IInv, [Next]_vars PROVE IInv'
  OBVIOUS
<1>1. config.interval \in Nat \ {0} /\ tick \in Nat
  BY IntervalPositive DEF IInv
<1>2. CASE UploadNpz
  <2>1. /\ Writing /\ next = 1 /\ next' = 2
        /\ UNCHANGED <<config, tick, iteration, phase>>
        /\ [tick |-> tick, of |-> [t \in Saved |-> stamp[t]]] \in npz'
    BY <1>2 DEF UploadNpz
  <2>2. \E obj \in npz' : obj.tick = tick
    BY <2>1
  <2>3. \A d : Within(d) => \E c \in Complete' : c \in Nat /\ c <= tick /\ tick - c <= d
    BY <1>2, UploadsKeep DEF Within
  <2>4. QED
    BY <2>1, <2>2, <2>3 DEF IInv, Within, Writing
<1>3. CASE UploadParquet
  <2>1. /\ Writing /\ next = 2 /\ next' = 1
        /\ parquet' = parquet \cup {tick} /\ phase' = AfterCheckpoint
        /\ UNCHANGED <<config, tick, iteration, npz>>
    BY <1>3 DEF UploadParquet
  <2>2. tick \in Complete'
    BY <2>1 DEF IInv, Complete
  <2>3. tick % config.interval \in Nat
    BY <1>1, NextRemainder
  <2>4. \A d \in Nat : \E c \in Complete' : c \in Nat /\ c <= tick /\ tick - c <= d
    BY <1>1, <2>2
  <2>5. phase' \in {"returned", "closeLog", "tick"}
    BY <2>1 DEF AfterCheckpoint
  <2>6. QED
    BY <1>1, <2>1, <2>3, <2>4, <2>5 DEF IInv, Within, Writing
<1>4. CASE Mechanism \/ MechanismRaises \/ CloseLog \/ Dies
  <2>1. /\ UNCHANGED <<config, tick, iteration, npz, parquet>>
        /\ \/ phase' = "raised"
           \/ phase = "tick" /\ phase' = "tick"
           \/ phase = "closeLog" /\ phase' = "endCheckpoint" /\ next' = next
    BY <1>4 DEF Mechanism, MechanismRaises, CloseLog, Dies
  <2>2. QED
    <3>1. UNCHANGED Complete
      BY <2>1 DEF Complete
    <3>2. phase' # "startCheckpoint"
      BY <2>1
    <3>3. Writing' => phase = "closeLog" /\ next' = next
      BY <2>1 DEF Writing
    <3>4. QED
      BY <2>1, <3>1, <3>2, <3>3 DEF IInv, Within
<1>5. CASE EndTick
  <2>1. /\ phase = "tick" /\ tick' = tick + 1 /\ iteration' = iteration + 1 /\ next' = 1
        /\ UNCHANGED <<config, npz, parquet>>
        /\ phase' \in {"checkpoint", "closeLog", "tick"}
        /\ phase' # "checkpoint" => (tick + 1) % config.interval # 0
    BY <1>5 DEF EndTick
  <2>2. PICK c \in Complete : c \in Nat /\ c <= tick /\ tick - c <= tick % config.interval
    BY <2>1 DEF IInv, Within
  <2>3. c \in Complete'
    BY <2>1, <2>2 DEF Complete
  <2>4. /\ tick % config.interval \in 0 .. config.interval - 1
        /\ (tick + 1) % config.interval # 0 =>
             (tick + 1) % config.interval = (tick % config.interval) + 1
    BY <1>1, NextRemainder
  <2>5. c <= tick' /\ tick' - c <= config.interval
    BY <1>1, <2>1, <2>2, <2>4
  <2>6. phase' # "checkpoint" => tick' - c <= tick' % config.interval
    BY <1>1, <2>1, <2>2, <2>4
  <2>7. QED
    BY <1>1, <2>1, <2>2, <2>3, <2>5, <2>6 DEF IInv, Within, Writing
<1>6. CASE UNCHANGED vars
  BY <1>6 DEF vars, IInv, Within, Complete, Writing
<1>7. QED
  BY <1>2, <1>3, <1>4, <1>5, <1>6 DEF Next

\* Whatever the start, the length and the interval of a run, its death costs at
\* most checkpoint_interval_ticks ticks.
THEOREM RollbackIsBounded == Spec => []BoundedRollback
<1>1. IInv => BoundedRollback
  BY DEF IInv, Within, BoundedRollback
<1>2. QED
  BY <1>1, InitIInv, NextIInv, PTL DEF Spec

-----------------------------------------------------------------------------
(* Types *)

\* The fields of a run.
LEMMA ConfigFields ==
  ASSUME config \in Configs
  PROVE  /\ config.start \in Nat
         /\ config.numTicks \in Nat \ {0}
         /\ config.interval \in Nat \ {0}
BY ConfigsAssumption

\* Where the run is: the ticks it has counted, and the calls behind it in the
\* current tick, none of which was a stub.
CountInv ==
  /\ TypeOK
  /\ tick = config.start + iteration
  /\ phase = "tick" => iteration < config.numTicks
  /\ phase = "startCheckpoint" => iteration = 0
  /\ phase = "checkpoint" => iteration > 0 /\ tick % config.interval = 0
  /\ phase \in {"closeLog", "endCheckpoint", "returned"} => iteration = config.numTicks
  /\ phase = "closeLog" => next = 1
  /\ phase \in {"endCheckpoint", "returned"} => logClosed
  /\ Writing => next \in {1, 2}
  /\ phase = "tick" => \A i \in 1 .. next - 1 : Calls[i].name \in config.implemented

\* There are twelve calls, and each assigns a part of the state.
LEMMA CallsFacts == Len(Calls) = 12 /\ \A i \in 1 .. 12 : Calls[i].writes \in Tensors
BY DEF Calls, Call, Tensors, ComputePersonalAffinity, ComputeCandidateMoves,
       ResolveCollisions, TriggerDiscovery, BuildCommunicationMatrix, ApplyAlphaFlux,
       ApplyForwardFlow, ApplyOmegaFlux, ApplyPsiFlux, ApplyFallacyExtensions,
       DeriveCompositeTrust, ApplyAdHominemHaloLeak

\* The run starts before its first checkpoint with no tick counted.
LEMMA InitCount == Init => CountInv
<1> SUFFICES ASSUME Init PROVE CountInv
  OBVIOUS
<1>1. /\ config.start \in Nat /\ config.numTicks \in Nat \ {0}
      /\ stamp = [t \in Tensors |-> config.start]
  BY ConfigFields DEF Init
<1>2. stamp \in [Tensors -> Nat]
  BY <1>1
<1>3. TypeOK
  <2>1. /\ tick \in Nat
        /\ iteration \in 0 .. config.numTicks
        /\ next \in 1 .. Len(Calls) + 1
    BY <1>1, CallsFacts DEF Init
  <2>2. QED
    BY <1>2, <2>1 DEF Init, TypeOK
<1>4. QED
  BY <1>1, <1>3 DEF Init, CountInv, Writing

\* Every step keeps the types and the count.
LEMMA NextCount == CountInv /\ [Next]_vars => CountInv'
<1> SUFFICES ASSUME CountInv, [Next]_vars PROVE CountInv'
  OBVIOUS
<1> USE ConfigFields, CallsFacts DEF CountInv, TypeOK, Writing
<1>1. CASE UploadNpz
  <2>1. [tick |-> tick, of |-> [t \in Saved |-> stamp[t]]] \in [tick : Nat, of : [Saved -> Nat]]
    BY DEF Saved, Tensors
  <2>2. npz' \subseteq [tick : Nat, of : [Saved -> Nat]]
    BY <1>1, <2>1 DEF UploadNpz
  <2>3. QED
    BY <1>1, <2>2 DEF UploadNpz
<1>2. CASE UploadParquet
  BY <1>2 DEF UploadParquet, AfterCheckpoint
<1>3. CASE Mechanism
  <2>1. /\ phase = "tick" /\ next \in 1 .. 12
        /\ Calls[next].name \in config.implemented
        /\ stamp' = [stamp EXCEPT ![Calls[next].writes] = tick + 1]
        /\ next' = next + 1
        /\ UNCHANGED <<config, tick, iteration, phase, npz, parquet, logClosed>>
    BY <1>3 DEF Mechanism
  <2>2. stamp' \in [Tensors -> Nat]
    BY <2>1
  <2>3. \A i \in 1 .. next' - 1 : i \in 1 .. next - 1 \/ i = next
    BY <2>1
  <2>4. \A i \in 1 .. next' - 1 : Calls[i].name \in config'.implemented
    BY <2>1, <2>3
  <2>5. QED
    BY <2>1, <2>2, <2>4
<1>4. CASE MechanismRaises \/ CloseLog \/ Dies
  BY <1>4 DEF MechanismRaises, CloseLog, Dies
<1>5. CASE EndTick
  BY <1>5 DEF EndTick
<1>6. CASE UNCHANGED vars
  BY <1>6 DEF vars
<1>7. QED
  BY <1>1, <1>2, <1>3, <1>4, <1>5, <1>6 DEF Next

\* CountInv holds in every reachable state.
LEMMA CountInvariance == Spec => []CountInv
BY InitCount, NextCount, PTL DEF Spec

\* Every variable keeps its type; the loop never completes more ticks than
\* num_ticks.
THEOREM TypeCorrect == Spec => []TypeOK
<1>1. CountInv => TypeOK  BY DEF CountInv
<1>2. QED  BY <1>1, CountInvariance, PTL

-----------------------------------------------------------------------------
(* What the checkpoints hold *)

\* The saved parts of the state belong to the tick that is counted, except
\* between their assignment in run_tick and its end, where they and the moves they
\* come from are those of the tick being computed.
SavedInv ==
  /\ Writing \/ phase = "closeLog" => \A t \in Saved : stamp[t] = tick
  /\ phase = "tick" =>
       /\ next > 1 => stamp["personal_affinity"] = tick + 1
       /\ next > 2 => stamp["candidate_moves"] = tick + 1
       /\ next > 3 => stamp["grid_positions"] = tick + 1
  /\ CheckpointIsOfItsTick

\* An upload saves the state of the tick it names, and a tick ends only after
\* both saved parts were assigned.
LEMMA NextSaved == CountInv /\ SavedInv /\ [Next]_vars => SavedInv'
<1> SUFFICES ASSUME CountInv, SavedInv, [Next]_vars PROVE SavedInv'
  OBVIOUS
<1>1. /\ tick \in Nat /\ stamp \in [Tensors -> Nat] /\ next \in 1 .. 13
      /\ Saved \subseteq Tensors
  BY CallsFacts DEF CountInv, TypeOK, Saved, Tensors
<1>2. CASE UploadNpz
  <2> DEFINE new == [tick |-> tick, of |-> [t \in Saved |-> stamp[t]]]
  <2>1. /\ npz' = {obj \in npz : obj.tick # tick} \cup {new}
        /\ Writing /\ Writing' /\ phase' = phase /\ UNCHANGED <<tick, stamp>>
    BY <1>2 DEF UploadNpz, Writing
  <2>2. new.tick = tick /\ \A t \in Saved : new.of[t] = tick
    BY <2>1 DEF SavedInv
  <2> HIDE DEF new
  <2>3. CheckpointIsOfItsTick'
    BY <2>1, <2>2 DEF SavedInv, CheckpointIsOfItsTick
  <2>4. QED
    BY <2>1, <2>3 DEF SavedInv, Writing
<1>3. CASE UploadParquet
  <2>1. /\ Writing /\ next' = 1 /\ UNCHANGED <<tick, stamp, npz>>
        /\ phase' \in {"returned", "closeLog", "tick"}
    BY <1>3 DEF UploadParquet, AfterCheckpoint
  <2>2. QED
    BY <2>1 DEF SavedInv, CheckpointIsOfItsTick, Writing
<1>4. CASE Mechanism
  <2>1. /\ phase = "tick" /\ phase' = "tick" /\ next \in 1 .. 12 /\ next' = next + 1
        /\ stamp' = [stamp EXCEPT ![Calls[next].writes] = tick + 1]
        /\ UNCHANGED <<tick, npz>>
    BY <1>4, CallsFacts DEF Mechanism
  <2>2. /\ Calls[1].writes = "personal_affinity"
        /\ Calls[2].writes = "candidate_moves"
        /\ Calls[3].writes = "grid_positions"
    BY DEF Calls, Call, ComputePersonalAffinity, ComputeCandidateMoves, ResolveCollisions
  <2>3. \A t \in Tensors : stamp'[t] = stamp[t] \/ stamp'[t] = tick + 1
    BY <1>1, <2>1
  <2>4. next = 1 => stamp'["personal_affinity"] = tick + 1
    BY <1>1, <2>1, <2>2 DEF Tensors
  <2>5. /\ next = 2 => stamp'["candidate_moves"] = tick + 1
        /\ next = 3 => stamp'["grid_positions"] = tick + 1
    BY <1>1, <2>1, <2>2 DEF Tensors
  <2>6. QED
    BY <1>1, <2>1, <2>3, <2>4, <2>5
       DEF SavedInv, CheckpointIsOfItsTick, Writing, Tensors
<1>5. CASE EndTick
  <2>1. /\ phase = "tick" /\ next = 13 /\ next' = 1 /\ tick' = tick + 1
        /\ UNCHANGED <<stamp, npz>>
        /\ phase' \in {"checkpoint", "closeLog", "tick"}
    BY <1>5, CallsFacts DEF EndTick
  <2>2. \A t \in Saved : stamp[t] = tick + 1
    BY <2>1 DEF SavedInv, Saved
  <2>3. QED
    BY <2>1, <2>2 DEF SavedInv, CheckpointIsOfItsTick
<1>6. CASE MechanismRaises \/ CloseLog \/ Dies
  BY <1>6 DEF MechanismRaises, CloseLog, Dies, SavedInv, CheckpointIsOfItsTick, Writing
<1>7. CASE UNCHANGED vars
  BY <1>7 DEF vars, SavedInv, CheckpointIsOfItsTick, Writing
<1>8. QED
  BY <1>2, <1>3, <1>4, <1>5, <1>6, <1>7 DEF Next

\* SavedInv holds in every reachable state.
LEMMA SavedInvariance == Spec => []SavedInv
<1>1. Init => SavedInv
  BY DEF Init, SavedInv, CheckpointIsOfItsTick, Writing, Saved, Tensors
<1>2. QED
  BY <1>1, NextSaved, CountInvariance, PTL DEF Spec

\* A checkpoint never holds the state in the middle of a tick, although run_tick
\* assigns the state in place.
THEOREM CheckpointsAreOfTheirTick == Spec => []CheckpointIsOfItsTick
<1>1. SavedInv => CheckpointIsOfItsTick
  BY DEF SavedInv
<1>2. QED
  BY <1>1, SavedInvariance, PTL

\* Which call comes before which other: what the recomputed parts are read by.
LEMMA ReadsFacts ==
  ASSUME NEW i \in 1 .. 12
  PROVE  /\ "personal_affinity" \in Calls[i].reads => i > 1
         /\ "candidate_moves" \in Calls[i].reads => i > 2
         /\ Calls[i].name \in {"trigger_discovery", "build_communication_matrix"} => i > 3
BY DEF Calls, Call, ComputePersonalAffinity, ComputeCandidateMoves,
       ResolveCollisions, TriggerDiscovery, BuildCommunicationMatrix, ApplyAlphaFlux,
       ApplyForwardFlow, ApplyOmegaFlux, ApplyPsiFlux, ApplyFallacyExtensions,
       DeriveCompositeTrust, ApplyAdHominemHaloLeak

\* What NothingStaleIsRead says of a single step.
ReadsFresh ==
  phase = "tick" /\ next' = next + 1 =>
    \A part \in Calls[next].reads :
      \/ part \in {"personal_affinity", "candidate_moves"}
      \/ /\ part = "grid_positions"
         /\ Calls[next].name \in {"trigger_discovery", "build_communication_matrix"}
      => stamp[part] = tick + 1

\* Only a mechanism moves on to the next call, and by its index it is known what
\* the calls before it have assigned.
LEMMA FreshStep == CountInv /\ SavedInv /\ [Next]_vars => [ReadsFresh]_vars
<1> SUFFICES ASSUME CountInv, SavedInv, Next, phase = "tick", next' = next + 1
             PROVE  \A part \in Calls[next].reads :
                      \/ part \in {"personal_affinity", "candidate_moves"}
                      \/ /\ part = "grid_positions"
                         /\ Calls[next].name
                              \in {"trigger_discovery", "build_communication_matrix"}
                      => stamp[part] = tick + 1
  BY DEF ReadsFresh
<1>1. next \in 1 .. 13
  BY CallsFacts DEF CountInv, TypeOK
<1>2. Mechanism
  BY <1>1 DEF Next, UploadNpz, UploadParquet, MechanismRaises, EndTick, CloseLog,
     Dies, Writing
<1>3. next \in 1 .. 12
  BY <1>2, CallsFacts DEF Mechanism
<1>4. QED
  BY <1>3, ReadsFacts DEF SavedInv

\* In no tick of any run does a mechanism read what the tick before it left of the
\* parts that run_tick recomputes.
THEOREM ReadsAreFresh == Spec => NothingStaleIsRead
<1>1. [ReadsFresh]_vars =>
        [phase = "tick" /\ next' = next + 1 =>
           \A part \in Calls[next].reads :
             \/ part \in {"personal_affinity", "candidate_moves"}
             \/ /\ part = "grid_positions"
                /\ Calls[next].name \in {"trigger_discovery", "build_communication_matrix"}
             => stamp[part] = tick + 1]_vars
  BY DEF ReadsFresh
<1>2. QED
  BY <1>1, FreshStep, CountInvariance, SavedInvariance, PTL DEF Spec, NothingStaleIsRead

-----------------------------------------------------------------------------
(* Which checkpoints exist *)

Names == {obj.tick : obj \in npz}

\* The checkpoints that are due at tick t.
Due(t) ==
  {c \in config.start .. t : c = config.start \/ c % config.interval = 0}

\* The objects by the statement that runs next: the npz of a checkpoint comes
\* first, and between two checkpoints what is there is what is due.
ObjectsInv ==
  /\ ParquetAfterNpz
  /\ phase = "startCheckpoint" => Names \subseteq {tick} /\ parquet = {}
  /\ phase \in {"tick", "closeLog"} => Names = Due(tick) /\ parquet = Due(tick)
  /\ phase = "checkpoint" =>
       Names \cup {tick} = Due(tick) /\ parquet = Due(tick) \ {tick}
  /\ phase = "endCheckpoint" =>
       Names \cup {tick} = Due(tick) \cup {tick} /\ parquet = Due(tick)
  /\ phase = "returned" => Names = Due(tick) \cup {tick} /\ parquet = Names
  /\ Writing /\ next = 2 => tick \in Names

\* What the two uploads do to the names.
LEMMA UploadNpzNames == UploadNpz => Names' = Names \cup {tick}
<1> SUFFICES ASSUME UploadNpz PROVE Names' = Names \cup {tick}
  OBVIOUS
<1> DEFINE new == [tick |-> tick, of |-> [t \in Saved |-> stamp[t]]]
<1>1. npz' = {obj \in npz : obj.tick # tick} \cup {new} /\ new.tick = tick
  BY DEF UploadNpz
<1> HIDE DEF new
<1>2. \A n : n \in Names' <=> \E obj \in npz' : obj.tick = n
  BY DEF Names
<1>3. \A n : n \in Names <=> \E obj \in npz : obj.tick = n
  BY DEF Names
<1>4. QED
  BY <1>1, <1>2, <1>3

\* Counting a tick makes a checkpoint due exactly when the interval divides it.
LEMMA DueNext ==
  ASSUME CountInv, config' = config, tick' = tick + 1
  PROVE  Due(tick') = IF tick' % config.interval = 0 THEN Due(tick) \cup {tick'}
                                                     ELSE Due(tick)
BY ConfigFields DEF CountInv, TypeOK, Due

\* At its start a run owes one checkpoint.
LEMMA DueStart == CountInv /\ iteration = 0 => Due(tick) = {tick}
BY ConfigFields DEF CountInv, TypeOK, Due

\* Every step keeps the objects in step with what is due.
LEMMA NextObjects == CountInv /\ ObjectsInv /\ [Next]_vars => ObjectsInv'
<1> SUFFICES ASSUME CountInv, ObjectsInv, [Next]_vars PROVE ObjectsInv'
  OBVIOUS
<1>1. /\ tick \in Nat /\ config.interval \in Nat \ {0} /\ config.start \in Nat
      /\ iteration \in Nat /\ tick = config.start + iteration
      /\ Writing => next \in {1, 2}
      /\ phase = "startCheckpoint" => iteration = 0
      /\ phase = "checkpoint" => tick \in Due(tick)
  BY ConfigFields DEF CountInv, TypeOK, Due
<1>2. CASE UploadNpz
  <2>1. /\ Names' = Names \cup {tick}
        /\ Writing /\ next = 1 /\ next' = 2
        /\ UNCHANGED <<config, tick, phase, parquet, Due(tick)>>
    BY <1>2, UploadNpzNames DEF UploadNpz, Due
  <2>2. QED
    BY <2>1 DEF ObjectsInv, ParquetAfterNpz, Names, Writing
<1>3. CASE UploadParquet
  <2>1. /\ Writing /\ next = 2 /\ next' = 1 /\ tick \in Names
        /\ parquet' = parquet \cup {tick}
        /\ UNCHANGED <<config, tick, npz, Names, Due(tick)>>
        /\ phase' = IF phase = "endCheckpoint" THEN "returned"
                    ELSE IF iteration = config.numTicks THEN "closeLog" ELSE "tick"
    BY <1>3 DEF UploadParquet, AfterCheckpoint, Due, Names, ObjectsInv
  <2>2. ParquetAfterNpz'
    BY <2>1 DEF ObjectsInv, ParquetAfterNpz, Names
  <2>3. CASE phase = "startCheckpoint"
    <3>1. Due(tick) = {tick}
      BY <1>1, <2>3, DueStart
    <3>2. QED
      BY <2>1, <2>2, <2>3, <3>1 DEF ObjectsInv, Writing
  <2>4. CASE phase = "checkpoint"
    BY <1>1, <2>1, <2>2, <2>4 DEF ObjectsInv, Writing
  <2>5. CASE phase = "endCheckpoint"
    BY <2>1, <2>2, <2>5 DEF ObjectsInv, Writing
  <2>6. QED
    BY <2>1, <2>3, <2>4, <2>5 DEF Writing
<1>4. CASE EndTick
  <2>1. /\ phase = "tick" /\ tick' = tick + 1 /\ next' = 1
        /\ UNCHANGED <<config, npz, parquet, Names>>
        /\ phase' \in {"checkpoint", "closeLog", "tick"}
        /\ phase' = "checkpoint" <=> tick' % config.interval = 0
    BY <1>4 DEF EndTick, Names
  <2>2. Due(tick') = IF phase' = "checkpoint" THEN Due(tick) \cup {tick'} ELSE Due(tick)
    BY <2>1, DueNext
  <2>3. Due(tick)' = Due(tick') /\ tick' \notin Due(tick)
    BY <1>1, <2>1 DEF Due
  <2>4. QED
    BY <2>1, <2>2, <2>3 DEF ObjectsInv, ParquetAfterNpz, Names, Writing
<1>5. CASE Mechanism \/ MechanismRaises \/ CloseLog \/ Dies
  <2>1. /\ UNCHANGED <<config, tick, npz, parquet, Names, Due(tick)>>
        /\ \/ phase' = "raised"
           \/ phase = "tick" /\ phase' = "tick"
           \/ phase = "closeLog" /\ phase' = "endCheckpoint" /\ next' = next
    BY <1>5 DEF Mechanism, MechanismRaises, CloseLog, Dies, Names, Due
  <2>2. phase = "closeLog" => next = 1
    BY DEF CountInv
  <2>3. QED
    BY <2>1, <2>2 DEF ObjectsInv, ParquetAfterNpz, Names, Writing
<1>6. CASE UNCHANGED vars
  BY <1>6 DEF vars, ObjectsInv, ParquetAfterNpz, Names, Due, Writing
<1>7. QED
  BY <1>2, <1>3, <1>4, <1>5, <1>6 DEF Next

\* ObjectsInv holds in every reachable state.
LEMMA ObjectsInvariance == Spec => []ObjectsInv
<1>1. Init => ObjectsInv
  BY DEF Init, ObjectsInv, ParquetAfterNpz, Names, Writing
<1>2. QED
  BY <1>1, NextObjects, CountInvariance, PTL DEF Spec

\* The parquet object of a checkpoint is never there without the npz.
THEOREM ParquetFollowsNpz == Spec => []ParquetAfterNpz
<1>1. ObjectsInv => ParquetAfterNpz  BY DEF ObjectsInv
<1>2. QED  BY <1>1, ObjectsInvariance, PTL

\* A run that returns has written the checkpoints of its start, of its end and of
\* every multiple of the interval between them, and no other.
THEOREM ReturnMeansComplete == Spec => []ReturnedRunIsComplete
<1>1. CountInv /\ ObjectsInv => ReturnedRunIsComplete
  <2> SUFFICES ASSUME CountInv, ObjectsInv, phase = "returned"
               PROVE  /\ Complete = RequiredCheckpoints
                      /\ tick = config.start + config.numTicks
                      /\ logClosed
    BY DEF ReturnedRunIsComplete
  <2>1. /\ tick = config.start + config.numTicks /\ logClosed
        /\ config.start \in Nat /\ config.numTicks \in Nat \ {0}
    BY ConfigFields DEF CountInv, TypeOK
  <2>2. Complete = Due(tick) \cup {tick}
    BY DEF ObjectsInv, Names, Complete
  <2>3. Due(tick) \cup {tick} = RequiredCheckpoints
    BY <2>1 DEF Due, RequiredCheckpoints
  <2>4. QED
    BY <2>1, <2>2, <2>3
<1>2. QED
  BY <1>1, CountInvariance, ObjectsInvariance, PTL

-----------------------------------------------------------------------------
(* Runs with a stub *)

\* A stub ends the run in its first tick.
StubInv ==
  (\E i \in 1 .. Len(Calls) : Calls[i].name \notin config.implemented) =>
    /\ iteration = 0
    /\ phase \in {"startCheckpoint", "tick", "raised"}
    /\ parquet \subseteq {config.start}

\* No tick ends while one of its calls is a stub.
LEMMA NextStub == CountInv /\ StubInv /\ [Next]_vars => StubInv'
<1> SUFFICES ASSUME CountInv, StubInv, [Next]_vars,
                    NEW i \in 1 .. Len(Calls), Calls[i].name \notin config'.implemented
             PROVE  /\ iteration' = 0
                    /\ phase' \in {"startCheckpoint", "tick", "raised"}
                    /\ parquet' \subseteq {config'.start}
  BY DEF StubInv
<1>1. UNCHANGED config
  BY DEF Next, vars, UploadNpz, UploadParquet, Mechanism, MechanismRaises, EndTick,
     CloseLog, Dies
<1>2. /\ iteration = 0 /\ phase \in {"startCheckpoint", "tick", "raised"}
      /\ parquet \subseteq {config.start}
      /\ tick = config.start /\ config.numTicks # 0
  BY <1>1, ConfigFields DEF StubInv, CountInv, TypeOK
<1>3. ~EndTick
  <2>1. phase = "tick" /\ next = Len(Calls) + 1 => i \in 1 .. next - 1
    BY CallsFacts
  <2>2. QED
    BY <2>1, <1>1 DEF EndTick, CountInv
<1>4. QED
  BY <1>1, <1>2, <1>3
     DEF Next, vars, UploadNpz, UploadParquet, AfterCheckpoint, Mechanism,
         MechanismRaises, CloseLog, Dies

\* As long as one mechanism is a stub, a run leaves its first checkpoint and none
\* of a tick it could not finish.
THEOREM StubsLeaveNoTick == Spec => []StubLeavesNoTick
<1>1. Init => StubInv
  BY DEF Init, StubInv
<1>2. StubInv => StubLeavesNoTick
  BY DEF StubInv, StubLeavesNoTick, Complete
<1>3. QED
  BY <1>1, <1>2, NextStub, CountInvariance, PTL DEF Spec
=============================================================================
