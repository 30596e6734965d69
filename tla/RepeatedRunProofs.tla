------------------------- MODULE RepeatedRunProofs -------------------------
(***************************************************************************)
(* What a run that is started again can rely on, for every number of       *)
(* attempts and whenever each of them dies.                                *)
(***************************************************************************)
EXTENDS RepeatedRun, SimulationRunProofs, FiniteSetTheorems

\* What is recorded of each object.
StoreTyped ==
  /\ attempt \in Nat \ {0}
  /\ npzBy \subseteq [tick : Nat, by : Nat]
  /\ parquetBy \subseteq [tick : Nat, by : Nat]

\* Own, by the record that both objects of a checkpoint have.
Mine == {c \in Nat : [tick |-> c, by |-> attempt] \in npzBy \cap parquetBy}

\* The two ways to say which checkpoints are the attempt's own.
LEMMA OwnIsMine == StoreTyped => Own = Mine
<1> SUFFICES ASSUME StoreTyped PROVE Own = Mine
  OBVIOUS
<1>1. \A c : c \in Own <=> \E o \in npzBy \cap parquetBy : o.by = attempt /\ o.tick = c
  BY DEF Own
<1>2. ASSUME NEW o \in npzBy \cap parquetBy
      PROVE  o = [tick |-> o.tick, by |-> o.by] /\ o.tick \in Nat
  BY DEF StoreTyped
<1>3. ASSUME NEW c \in Own PROVE c \in Mine
  <2>1. PICK o \in npzBy \cap parquetBy : o.by = attempt /\ o.tick = c
    BY <1>1, <1>3
  <2>2. QED
    BY <2>1, <1>2 DEF Mine
<1>4. ASSUME NEW c \in Mine PROVE c \in Own
  <2>1. [tick |-> c, by |-> attempt] \in npzBy \cap parquetBy
    BY <1>4 DEF Mine
  <2>2. QED
    BY <2>1, <1>1
<1>5. QED
  BY <1>3, <1>4

OwnWithin(d) == \E c \in Mine : c <= tick /\ tick - c <= d

\* As IInv for a single run, of the attempt's own objects; and who wrote what.
OwnInv ==
  /\ StoreTyped
  /\ config \in Configs
  /\ tick \in Nat
  /\ iteration \in Nat
  /\ phase = "startCheckpoint" => iteration = 0
  /\ phase \in {"tick", "closeLog", "endCheckpoint"} => OwnWithin(tick % config.interval)
  /\ phase = "checkpoint" => OwnWithin(config.interval)
  /\ iteration > 0 => OwnWithin(config.interval)
  /\ phase = "closeLog" => next = 1
  /\ Writing /\ next # 1 => [tick |-> tick, by |-> attempt] \in npzBy

\* An object replaced by the attempt stays one of its own.
LEMMA OverwriteKeeps ==
  ASSUME NEW objects, NEW c, [tick |-> c, by |-> attempt] \in objects
  PROVE  [tick |-> c, by |-> attempt] \in Overwrite(objects)
<1>1. CASE c = tick
  BY <1>1 DEF Overwrite
<1>2. CASE c # tick
  BY <1>2 DEF Overwrite
<1>3. QED
  BY <1>1, <1>2

\* Whatever replaces an object is recorded in the same way.
LEMMA NextTyped ==
  tick \in Nat /\ StoreTyped /\ [RepeatedNext]_repeatedVars => StoreTyped'
<1> SUFFICES ASSUME tick \in Nat, StoreTyped, [RepeatedNext]_repeatedVars
             PROVE  StoreTyped'
  OBVIOUS
<1> DEFINE Objects == [tick : Nat, by : Nat]
<1>1. [tick |-> tick, by |-> attempt] \in Objects
  BY DEF StoreTyped
<1>2. \A objects : objects \subseteq Objects => Overwrite(objects) \subseteq Objects
  BY <1>1 DEF Overwrite
<1>3. CASE WriteNpz
  BY <1>2, <1>3 DEF WriteNpz, StoreTyped
<1>4. CASE WriteParquet
  BY <1>2, <1>4 DEF WriteParquet, StoreTyped
<1>5. CASE Proceed \/ Rerun \/ UNCHANGED repeatedVars
  BY <1>5 DEF Proceed, Rerun, repeatedVars, attemptVars, StoreTyped
<1>6. QED
  BY <1>3, <1>4, <1>5 DEF RepeatedNext

\* Every step of an attempt keeps its checkpoints near, and a new attempt has
\* counted no tick.
LEMMA NextOwn == OwnInv /\ [RepeatedNext]_repeatedVars => OwnInv'
<1> SUFFICES ASSUME OwnInv, [RepeatedNext]_repeatedVars PROVE OwnInv'
  OBVIOUS
<1>1. config.interval \in Nat \ {0} /\ config.start \in Nat /\ tick \in Nat
  BY IntervalPositive DEF OwnInv
<1>0. StoreTyped'
  BY NextTyped DEF OwnInv
<1>2. CASE WriteNpz
  <2>1. /\ Writing /\ next = 1
        /\ UNCHANGED <<config, tick, iteration, phase, attempt, parquetBy>>
        /\ npzBy' = Overwrite(npzBy)
    BY <1>2 DEF WriteNpz, UploadNpz
  <2>2. Mine \subseteq Mine'
    BY <2>1, OverwriteKeeps DEF Mine
  <2>3. \A d : OwnWithin(d) => \E c \in Mine' : c <= tick /\ tick - c <= d
    BY <2>2 DEF OwnWithin
  <2>4. [tick |-> tick, by |-> attempt] \in npzBy'
    BY <2>1 DEF Overwrite
  <2>5. QED
    BY <1>0, <2>1, <2>3, <2>4 DEF OwnInv, OwnWithin, Writing
<1>3. CASE WriteParquet
  <2>1. /\ Writing /\ next = 2 /\ next' = 1 /\ phase' = AfterCheckpoint
        /\ UNCHANGED <<config, tick, iteration, attempt, npzBy>>
        /\ parquetBy' = Overwrite(parquetBy)
    BY <1>3 DEF WriteParquet, UploadParquet
  <2>2. tick \in Mine'
    BY <1>1, <2>1 DEF OwnInv, Mine, Overwrite
  <2>3. tick % config.interval \in Nat
    BY <1>1, NextRemainder
  <2>4. \A d \in Nat : \E c \in Mine' : c <= tick /\ tick - c <= d
    BY <1>1, <2>2
  <2>5. phase' \in {"returned", "closeLog", "tick"}
    BY <2>1 DEF AfterCheckpoint
  <2>6. QED
    BY <1>0, <1>1, <2>1, <2>3, <2>4, <2>5 DEF OwnInv, OwnWithin, Writing
<1>4. CASE Proceed /\ ~EndTick
  <2>1. /\ UNCHANGED <<config, tick, iteration, attempt, npzBy, parquetBy>>
        /\ \/ phase' = "raised"
           \/ phase = "tick" /\ phase' = "tick"
           \/ phase = "closeLog" /\ phase' = "endCheckpoint" /\ next' = next
    BY <1>4 DEF Proceed, Mechanism, MechanismRaises, CloseLog, Dies, attemptVars
  <2>2. UNCHANGED Mine
    BY <2>1 DEF Mine
  <2>3. QED
    BY <1>0, <2>1, <2>2 DEF OwnInv, OwnWithin, Writing
<1>5. CASE Proceed /\ EndTick
  <2>1. /\ phase = "tick" /\ tick' = tick + 1 /\ iteration' = iteration + 1 /\ next' = 1
        /\ UNCHANGED <<config, attempt, npzBy, parquetBy>>
        /\ phase' \in {"checkpoint", "closeLog", "tick"}
        /\ phase' # "checkpoint" => (tick + 1) % config.interval # 0
    BY <1>5 DEF Proceed, EndTick, attemptVars
  <2>2. PICK c \in Mine : c <= tick /\ tick - c <= tick % config.interval
    BY <2>1 DEF OwnInv, OwnWithin
  <2>3. c \in Mine' /\ c \in Nat
    BY <2>1, <2>2 DEF Mine
  <2>4. /\ tick % config.interval \in 0 .. config.interval - 1
        /\ (tick + 1) % config.interval # 0 =>
             (tick + 1) % config.interval = (tick % config.interval) + 1
    BY <1>1, NextRemainder
  <2>5. c <= tick' /\ tick' - c <= config.interval
    BY <1>1, <2>1, <2>2, <2>3, <2>4
  <2>6. phase' # "checkpoint" => tick' - c <= tick' % config.interval
    BY <1>1, <2>1, <2>2, <2>3, <2>4
  <2>7. QED
    BY <1>0, <1>1, <2>1, <2>3, <2>5, <2>6 DEF OwnInv, OwnWithin, Writing
<1>6. CASE Rerun
  BY <1>0, <1>1, <1>6 DEF Rerun, OwnInv, Writing
<1>7. CASE UNCHANGED repeatedVars
  BY <1>0, <1>7 DEF repeatedVars, vars, attemptVars, OwnInv, OwnWithin, Mine, Writing
<1>8. QED
  BY <1>2, <1>3, <1>4, <1>5, <1>6, <1>7 DEF RepeatedNext

\* OwnInv holds in every reachable state.
LEMMA OwnInvariance == RepeatedSpec => []OwnInv
<1>1. RepeatedInit => OwnInv
  BY IntervalPositive DEF RepeatedInit, Init, OwnInv, StoreTyped, Writing
<1>2. QED
  BY <1>1, NextOwn, PTL DEF RepeatedSpec

\* However often a run was started before, its death costs at most
\* checkpoint_interval_ticks ticks of what this attempt itself computed.
THEOREM OwnRollbackIsBounded == RepeatedSpec => []OwnCheckpointIsNear
<1>1. OwnInv => OwnCheckpointIsNear
  <2> SUFFICES ASSUME OwnInv, iteration > 0 PROVE OwnCheckpointIsNear
    BY DEF OwnCheckpointIsNear
  <2>1. PICK c \in Mine : c <= tick /\ tick - c <= config.interval
    BY DEF OwnInv, OwnWithin
  <2>2. QED
    BY <2>1, OwnIsMine DEF OwnInv, OwnCheckpointIsNear
<1>2. QED
  BY <1>1, OwnInvariance, PTL

-----------------------------------------------------------------------------
(* What holds of every attempt as of a single run *)

\* Who wrote the objects aside, an attempt takes the steps of a run.
LEMMA RepeatedStep == [RepeatedNext]_repeatedVars => [Next]_vars \/ Rerun
BY DEF RepeatedNext, WriteNpz, WriteParquet, Proceed, Next, repeatedVars

\* The invariants of a single run hold of every attempt: a new one starts as the
\* first one did, except for the objects it finds.
LEMMA RepeatedCount == RepeatedSpec => []CountInv
<1>1. CountInv /\ Rerun => CountInv'
  <2> SUFFICES ASSUME CountInv, Rerun PROVE CountInv'
    OBVIOUS
  <2>1. /\ config.start \in Nat /\ config.numTicks \in Nat \ {0}
        /\ stamp' = [t \in Tensors |-> config.start]
    BY ConfigFields DEF CountInv, TypeOK, Rerun
  <2>2. stamp' \in [Tensors -> Nat]
    BY <2>1
  <2>3. TypeOK'
    <3>1. 0 \in 0 .. config.numTicks /\ 1 \in 1 .. Len(Calls) + 1
      BY <2>1, CallsFacts
    <3>2. QED
      BY <2>1, <2>2, <3>1 DEF CountInv, TypeOK, Rerun
  <2>4. QED
    BY <2>1, <2>3 DEF CountInv, Rerun, Writing
<1>2. CountInv /\ [RepeatedNext]_repeatedVars => CountInv'
  BY <1>1, RepeatedStep, NextCount
<1>3. QED
  BY <1>2, InitCount, PTL DEF RepeatedSpec, RepeatedInit

\* Every variable of an attempt keeps its type.
THEOREM RepeatedTypeCorrect == RepeatedSpec => []TypeOK
<1>1. CountInv => TypeOK  BY DEF CountInv
<1>2. QED  BY <1>1, RepeatedCount, PTL

\* However often a run is started, the death of an attempt costs at most
\* checkpoint_interval_ticks ticks.
THEOREM RepeatedRollbackIsBounded == RepeatedSpec => []BoundedRollback
<1>1. IInv /\ Rerun => IInv'
  BY IntervalPositive DEF IInv, Rerun, Writing
<1>2. IInv /\ [RepeatedNext]_repeatedVars => IInv'
  BY <1>1, RepeatedStep, NextIInv
<1>3. IInv => BoundedRollback
  BY DEF IInv, Within, BoundedRollback
<1>4. QED
  BY <1>2, <1>3, InitIInv, PTL DEF RepeatedSpec, RepeatedInit

\* SavedInv holds in every reachable state of every attempt.
LEMMA RepeatedSaved == RepeatedSpec => []SavedInv
<1>1. RepeatedInit => SavedInv
  BY DEF RepeatedInit, Init, SavedInv, CheckpointIsOfItsTick, Writing, Saved, Tensors
<1>2. SavedInv /\ Rerun => SavedInv'
  BY DEF Rerun, SavedInv, CheckpointIsOfItsTick, Saved, Tensors
<1>3. CountInv /\ SavedInv /\ [RepeatedNext]_repeatedVars => SavedInv'
  BY <1>2, RepeatedStep, NextSaved
<1>4. QED
  BY <1>1, <1>3, RepeatedCount, PTL DEF RepeatedSpec

\* No checkpoint holds the state in the middle of a tick, whichever attempt wrote it.
THEOREM RepeatedCheckpointsAreOfTheirTick == RepeatedSpec => []CheckpointIsOfItsTick
<1>1. SavedInv => CheckpointIsOfItsTick  BY DEF SavedInv
<1>2. QED  BY <1>1, RepeatedSaved, PTL

\* No mechanism reads what the tick before it left of the parts that are recomputed,
\* nor what an earlier attempt left of them.
THEOREM RepeatedReadsAreFresh == RepeatedSpec => NothingStaleIsRead
<1>1. [ReadsFresh]_vars \/ Rerun =>
        [phase = "tick" /\ next' = next + 1 =>
           \A part \in Calls[next].reads :
             \/ part \in {"personal_affinity", "candidate_moves"}
             \/ /\ part = "grid_positions"
                /\ Calls[next].name \in {"trigger_discovery", "build_communication_matrix"}
             => stamp[part] = tick + 1]_vars
  BY DEF ReadsFresh, Rerun, Ended
<1>2. CountInv /\ SavedInv /\ [RepeatedNext]_repeatedVars => [ReadsFresh]_vars \/ Rerun
  BY RepeatedStep, FreshStep
<1>3. QED
  BY <1>1, <1>2, RepeatedCount, RepeatedSaved, PTL DEF RepeatedSpec, NothingStaleIsRead

\* As long as one mechanism is a stub, all attempts together leave the checkpoint
\* of the first tick and no other.
THEOREM RepeatedStubsLeaveNoTick == RepeatedSpec => []StubLeavesNoTick
<1>1. RepeatedInit => StubInv
  BY DEF RepeatedInit, Init, StubInv
<1>2. StubInv /\ Rerun => StubInv'
  BY DEF StubInv, Rerun
<1>3. CountInv /\ StubInv /\ [RepeatedNext]_repeatedVars => StubInv'
  BY <1>2, RepeatedStep, NextStub
<1>4. StubInv => StubLeavesNoTick
  BY DEF StubInv, StubLeavesNoTick, Complete
<1>5. QED
  BY <1>1, <1>3, <1>4, RepeatedCount, PTL DEF RepeatedSpec

-----------------------------------------------------------------------------
(* Torn checkpoints *)

\* Membership in Torn, without the nested set.
LEMMA TornDef ==
  \A t : t \in Torn <=>
    \E o \in npzBy, p \in parquetBy : o.tick = t /\ p.tick = t /\ p.by # o.by
BY DEF Torn

\* An attempt is between the two uploads of a checkpoint, or it died there.
HalfWritten == (Writing /\ next = 2) \/ phase = "raised"

\* The first attempt tears nothing.  Later, all torn checkpoints but one were torn
\* by the attempts between the first and this one, and the last is the one the
\* attempt is writing.
TornInv ==
  /\ attempt \in Nat \ {0}
  /\ \A o \in npzBy \cup parquetBy : o.by \in 1 .. attempt
  /\ Writing /\ next = 2 => \A o \in npzBy : o.tick = tick => o.by = attempt
  /\ attempt > 1 =>
       \E S : /\ IsFiniteSet(S) /\ Cardinality(S) <= attempt - 2
              /\ Torn \subseteq S \cup {tick}
              /\ ~HalfWritten => Torn \subseteq S

\* The first attempt has nothing to replace.
LEMMA FirstTearsNothing == TornInv /\ attempt = 1 => Torn = {}
<1> SUFFICES ASSUME TornInv, attempt = 1 PROVE Torn = {}
  OBVIOUS
<1>1. \A o \in npzBy \cup parquetBy : o.by = 1
  BY DEF TornInv
<1>2. QED
  BY <1>1, TornDef

\* What replaces an object of the checkpoint is the attempt's own.
LEMMA OverwriteDef ==
  ASSUME NEW objects
  PROVE  /\ \A o \in Overwrite(objects) :
              \/ o \in objects /\ o.tick # tick
              \/ o.tick = tick /\ o.by = attempt
BY DEF Overwrite

\* Only the first upload of a checkpoint tears it and the second one mends it; a
\* new attempt leaves behind what its predecessor was writing.
LEMMA NextTorn == OwnInv /\ TornInv /\ [RepeatedNext]_repeatedVars => TornInv'
<1> SUFFICES ASSUME OwnInv, TornInv, [RepeatedNext]_repeatedVars PROVE TornInv'
  OBVIOUS
<1>1. attempt \in Nat \ {0}
  BY DEF TornInv
<1>2. CASE WriteNpz
  <2>1. /\ Writing /\ next = 1 /\ next' = 2
        /\ UNCHANGED <<tick, phase, attempt, parquetBy>>
        /\ npzBy' = Overwrite(npzBy)
    BY <1>2 DEF WriteNpz, UploadNpz
  <2>2. ~HalfWritten /\ HalfWritten' /\ Writing'
    BY <2>1 DEF HalfWritten, Writing
  <2>3. \A t : t \in Torn' <=>
          \E o \in npzBy', p \in parquetBy' : o.tick = t /\ p.tick = t /\ p.by # o.by
    BY DEF Torn
  <2>4. Torn' \subseteq Torn \cup {tick}
    BY <2>1, <2>3, TornDef, OverwriteDef
  <2>5. /\ \A o \in npzBy' \cup parquetBy' : o.by \in 1 .. attempt
        /\ \A o \in npzBy' : o.tick = tick => o.by = attempt
    BY <1>1, <2>1, OverwriteDef DEF TornInv
  <2>6. QED
    BY <2>1, <2>2, <2>4, <2>5 DEF TornInv
<1>3. CASE WriteParquet
  <2>1. /\ Writing /\ next = 2 /\ next' = 1
        /\ UNCHANGED <<tick, attempt, npzBy>>
        /\ parquetBy' = Overwrite(parquetBy)
    BY <1>3 DEF WriteParquet, UploadParquet
  <2>2. \A t : t \in Torn' <=>
          \E o \in npzBy', p \in parquetBy' : o.tick = t /\ p.tick = t /\ p.by # o.by
    BY DEF Torn
  <2>3. Torn' \subseteq Torn \ {tick}
    BY <2>1, <2>2, TornDef, OverwriteDef DEF TornInv
  <2>4. \A o \in npzBy' \cup parquetBy' : o.by \in 1 .. attempt
    BY <1>1, <2>1, OverwriteDef DEF TornInv
  <2>5. QED
    BY <2>1, <2>3, <2>4 DEF TornInv
<1>4. CASE Proceed
  <2>1. /\ UNCHANGED <<attempt, npzBy, parquetBy>>
        /\ phase' = "raised" \/ phase \in {"tick", "closeLog"}
        /\ phase' # "raised" => ~HalfWritten /\ (Writing' => next' = 1)
        /\ phase' = "raised" => ~Writing' /\ HalfWritten' /\ tick' = tick
    BY <1>4 DEF Proceed, Mechanism, MechanismRaises, EndTick, CloseLog, Dies,
       attemptVars, Writing, HalfWritten, OwnInv
  <2>2. UNCHANGED Torn
    BY <2>1 DEF Torn
  <2>3. QED
    BY <2>1, <2>2 DEF TornInv
<1>5. CASE Rerun
  <2>1. /\ attempt' = attempt + 1 /\ next' = 1 /\ UNCHANGED <<npzBy, parquetBy>>
    BY <1>5 DEF Rerun
  <2>2. UNCHANGED Torn
    BY <2>1 DEF Torn
  <2>3. \E S : /\ IsFiniteSet(S) /\ Cardinality(S) <= attempt' - 2
               /\ Torn' \subseteq S
    <3>1. CASE attempt = 1
      <4>1. IsFiniteSet({}) /\ Cardinality({}) = 0
        BY FS_EmptySet
      <4>2. QED
        BY <2>1, <2>2, <3>1, <4>1, FirstTearsNothing
    <3>2. CASE attempt > 1
      <4>1. PICK S : /\ IsFiniteSet(S) /\ Cardinality(S) <= attempt - 2
                     /\ Torn \subseteq S \cup {tick}
        BY <3>2 DEF TornInv
      <4>2. /\ IsFiniteSet(S \cup {tick})
            /\ Cardinality(S \cup {tick}) \in {Cardinality(S), Cardinality(S) + 1}
            /\ Cardinality(S) \in Nat
        BY <4>1, FS_AddElement, FS_CardinalityType
      <4>3. Cardinality(S \cup {tick}) <= attempt' - 2
        BY <1>1, <2>1, <4>1, <4>2
      <4>4. QED
        BY <2>2, <4>1, <4>2, <4>3
    <3>3. QED
      BY <1>1, <3>1, <3>2
  <2>4. \A o \in npzBy' \cup parquetBy' : o.by \in 1 .. attempt'
    BY <1>1, <2>1 DEF TornInv
  <2>5. QED
    BY <1>1, <2>1, <2>3, <2>4 DEF TornInv
<1>6. CASE UNCHANGED repeatedVars
  <2>1. UNCHANGED <<attempt, npzBy, parquetBy, tick, next, phase, Torn, Writing>>
    BY <1>6 DEF repeatedVars, vars, attemptVars, Torn, Writing
  <2>2. QED
    BY <2>1 DEF TornInv, HalfWritten, Writing
<1>7. QED
  BY <1>2, <1>3, <1>4, <1>5, <1>6 DEF RepeatedNext

\* TornInv holds in every reachable state.
LEMMA TornInvariance == RepeatedSpec => []TornInv
<1>1. RepeatedInit => TornInv
  BY DEF RepeatedInit, Init, TornInv, Writing
<1>2. QED
  BY <1>1, NextTorn, OwnInvariance, PTL DEF RepeatedSpec

\* Each attempt but the first adds at most one checkpoint whose objects are of
\* two attempts.
THEOREM TornCheckpointsAreFew == RepeatedSpec => []OneTornPerRetry
<1>1. TornInv => OneTornPerRetry
  <2> SUFFICES ASSUME TornInv PROVE Cardinality(Torn) < attempt
    BY DEF OneTornPerRetry
  <2>1. CASE attempt = 1
    BY <2>1, FirstTearsNothing, FS_EmptySet
  <2>2. CASE attempt > 1
    <3>1. PICK S : /\ IsFiniteSet(S) /\ Cardinality(S) <= attempt - 2
                   /\ Torn \subseteq S \cup {tick}
      BY <2>2 DEF TornInv
    <3>2. /\ IsFiniteSet(S \cup {tick})
          /\ Cardinality(S \cup {tick}) \in {Cardinality(S), Cardinality(S) + 1}
          /\ Cardinality(S) \in Nat
      BY <3>1, FS_AddElement, FS_CardinalityType
    <3>3. Cardinality(Torn) <= Cardinality(S \cup {tick}) /\ Cardinality(Torn) \in Nat
      BY <3>1, <3>2, FS_Subset, FS_CardinalityType
    <3>4. QED
      BY <3>1, <3>2, <3>3 DEF TornInv
  <2>3. QED
    BY <2>1, <2>2 DEF TornInv
<1>2. QED
  BY <1>1, TornInvariance, PTL

-----------------------------------------------------------------------------
(* What a run that returns leaves in the bucket *)

\* One object of each name, with one author, and no object that a run does not owe.
\* ObjectsInv is not preserved by a new attempt, which finds the objects of all the
\* checkpoints that the attempts before it have written.
StoreInv ==
  /\ \A n : n \in Names <=> \E o \in npzBy : o.tick = n
  /\ \A n : n \in parquet <=> \E o \in parquetBy : o.tick = n
  /\ \A o \in npzBy, p \in npzBy : o.tick = p.tick => o = p
  /\ \A o \in parquetBy, p \in parquetBy : o.tick = p.tick => o = p
  /\ ParquetAfterNpz
  /\ Names \subseteq RequiredCheckpoints
  /\ Writing /\ next = 2 => tick \in Names

\* As ObjectsInv for a single run, of the attempt's own checkpoints: what is due is
\* there, the checkpoint that is being written excepted.
DueInv ==
  /\ phase \in {"tick", "closeLog", "endCheckpoint"} => Due(tick) \subseteq Mine
  /\ phase = "checkpoint" => Due(tick) \ {tick} \subseteq Mine
  /\ phase = "returned" => Due(tick) \cup {tick} \subseteq Mine

\* A checkpoint is only ever written at a tick that wants one.
LEMMA WritesAreRequired == CountInv /\ Writing => tick \in RequiredCheckpoints
<1> SUFFICES ASSUME CountInv, Writing PROVE tick \in RequiredCheckpoints
  OBVIOUS
<1>1. /\ config.start \in Nat /\ config.numTicks \in Nat \ {0}
      /\ iteration \in 0 .. config.numTicks /\ tick = config.start + iteration
  BY ConfigFields DEF CountInv, TypeOK
<1>2. CASE phase = "startCheckpoint"
  BY <1>1, <1>2 DEF CountInv, RequiredCheckpoints
<1>3. CASE phase = "checkpoint"
  <2>1. iteration > 0 /\ tick % config.interval = 0
    BY <1>3 DEF CountInv
  <2>2. tick \in config.start .. config.start + config.numTicks /\ tick # config.start
    BY <1>1, <2>1
  <2>3. QED
    BY <2>1, <2>2 DEF RequiredCheckpoints
<1>4. CASE phase = "endCheckpoint"
  BY <1>1, <1>4 DEF CountInv, RequiredCheckpoints
<1>5. QED
  BY <1>2, <1>3, <1>4 DEF Writing

\* An upload leaves one object of its name and those of all other names.
LEMMA OverwriteNames ==
  ASSUME NEW objects
  PROVE  /\ \A n : (\E o \in Overwrite(objects) : o.tick = n)
                     <=> (n = tick \/ \E o \in objects : o.tick = n)
         /\ (\A o \in objects, p \in objects : o.tick = p.tick => o = p) =>
              \A o \in Overwrite(objects), p \in Overwrite(objects) :
                o.tick = p.tick => o = p
<1> DEFINE new == [tick |-> tick, by |-> attempt]
<1>1. new.tick = tick /\ Overwrite(objects) = {o \in objects : o.tick # tick} \cup {new}
  BY DEF Overwrite
<1> HIDE DEF new
<1>2. QED
  BY <1>1

\* Every step, a new attempt included, keeps the bucket free of strays.
LEMMA NextStore == CountInv /\ StoreInv /\ [RepeatedNext]_repeatedVars => StoreInv'
<1> SUFFICES ASSUME CountInv, StoreInv, [RepeatedNext]_repeatedVars PROVE StoreInv'
  OBVIOUS
<1>1. UNCHANGED RequiredCheckpoints
  <2>1. UNCHANGED config
    BY DEF RepeatedNext, WriteNpz, WriteParquet, Proceed, Rerun, repeatedVars, vars,
       UploadNpz, UploadParquet, Mechanism, MechanismRaises, EndTick, CloseLog, Dies
  <2>2. QED
    BY <2>1 DEF RequiredCheckpoints
<1>2. CASE WriteNpz
  <2>1. /\ Writing /\ UNCHANGED <<tick, phase, parquet, parquetBy>>
        /\ Names' = Names \cup {tick}
        /\ npzBy' = Overwrite(npzBy)
    BY <1>2, UploadNpzNames DEF WriteNpz, UploadNpz
  <2>2. /\ \A n : n \in Names' <=> \E o \in npzBy' : o.tick = n
        /\ \A o \in npzBy', p \in npzBy' : o.tick = p.tick => o = p
    BY <2>1, OverwriteNames DEF StoreInv
  <2>3. Names' \subseteq RequiredCheckpoints
    BY <2>1, WritesAreRequired DEF StoreInv
  <2>4. ParquetAfterNpz'
    BY <2>1 DEF StoreInv, ParquetAfterNpz, Names
  <2>5. QED
    BY <1>1, <2>1, <2>2, <2>3, <2>4 DEF StoreInv
<1>3. CASE WriteParquet
  <2>1. /\ Writing /\ next = 2 /\ next' = 1 /\ UNCHANGED <<tick, npz, Names, npzBy>>
        /\ parquet' = parquet \cup {tick}
        /\ parquetBy' = Overwrite(parquetBy)
    BY <1>3 DEF WriteParquet, UploadParquet, Names
  <2>2. /\ \A n : n \in parquet' <=> \E o \in parquetBy' : o.tick = n
        /\ \A o \in parquetBy', p \in parquetBy' : o.tick = p.tick => o = p
    BY <2>1, OverwriteNames DEF StoreInv
  <2>3. ParquetAfterNpz'
    BY <2>1 DEF StoreInv, ParquetAfterNpz, Names
  <2>4. QED
    BY <1>1, <2>1, <2>2, <2>3 DEF StoreInv
<1>4. CASE Proceed \/ Rerun \/ UNCHANGED repeatedVars
  <2>1. /\ UNCHANGED <<npz, parquet, npzBy, parquetBy, Names>>
        /\ Writing' /\ next' = 2 => Writing /\ next = 2 /\ UNCHANGED tick
    BY <1>4 DEF Proceed, Rerun, repeatedVars, vars, attemptVars, Names, Writing, CountInv,
       Mechanism, MechanismRaises, EndTick, CloseLog, Dies
  <2>2. QED
    BY <1>1, <2>1 DEF StoreInv, ParquetAfterNpz, Names
<1>5. QED
  BY <1>2, <1>3, <1>4 DEF RepeatedNext

\* What an upload makes the attempt's own: nothing but the checkpoint it is writing,
\* and with the second object that checkpoint for certain.
LEMMA UploadsMakeOwn ==
  ASSUME OwnInv, WriteNpz \/ WriteParquet
  PROVE  /\ Mine \subseteq Mine' /\ Mine' \subseteq Mine \cup {tick}
         /\ WriteParquet => tick \in Mine'
<1> DEFINE new == [tick |-> tick, by |-> attempt]
<1>1. /\ UNCHANGED <<tick, attempt>>
      /\ npzBy' \in {npzBy, Overwrite(npzBy)}
      /\ parquetBy' \in {parquetBy, Overwrite(parquetBy)}
      /\ WriteParquet => npzBy' = npzBy /\ parquetBy' = Overwrite(parquetBy) /\ new \in npzBy
  BY DEF WriteNpz, WriteParquet, UploadNpz, UploadParquet, OwnInv
<1>2. \A objects, c : [tick |-> c, by |-> attempt] \in Overwrite(objects) =>
        c = tick \/ [tick |-> c, by |-> attempt] \in objects
  BY DEF Overwrite
<1>3. Mine \subseteq Mine'
  BY <1>1, OverwriteKeeps DEF Mine
<1>4. Mine' \subseteq Mine \cup {tick}
  BY <1>1, <1>2 DEF Mine
<1>5. new \in Overwrite(parquetBy) /\ tick \in Nat
  BY DEF Overwrite, OwnInv
<1>6. QED
  BY <1>1, <1>3, <1>4, <1>5 DEF Mine

\* Every step keeps what is due among the attempt's own checkpoints; a new attempt
\* owes nothing yet.
LEMMA NextDue ==
  OwnInv /\ CountInv /\ DueInv /\ [RepeatedNext]_repeatedVars => DueInv'
<1> SUFFICES ASSUME OwnInv, CountInv, DueInv, [RepeatedNext]_repeatedVars PROVE DueInv'
  OBVIOUS
<1>1. /\ tick \in Nat /\ config.interval \in Nat \ {0} /\ config.start \in Nat
      /\ iteration \in Nat /\ tick = config.start + iteration
      /\ phase = "startCheckpoint" => iteration = 0
  BY ConfigFields DEF CountInv, TypeOK
<1>2. CASE WriteNpz
  <2>1. UNCHANGED <<config, tick, phase, Due(tick)>> /\ Mine \subseteq Mine'
    BY <1>2, UploadsMakeOwn DEF WriteNpz, UploadNpz, Due
  <2>2. QED
    BY <2>1 DEF DueInv
<1>3. CASE WriteParquet
  <2>1. /\ Writing /\ UNCHANGED <<config, tick, Due(tick)>>
        /\ Mine \cup {tick} \subseteq Mine'
        /\ phase' = IF phase = "endCheckpoint" THEN "returned"
                    ELSE IF iteration = config.numTicks THEN "closeLog" ELSE "tick"
    BY <1>3, UploadsMakeOwn DEF WriteParquet, UploadParquet, AfterCheckpoint, Due
  <2>2. Due(tick) \subseteq Mine \cup {tick}
    BY <1>1, <2>1, DueStart DEF DueInv, Writing
  <2>3. QED
    BY <2>1, <2>2 DEF DueInv
<1>4. CASE Proceed /\ EndTick
  <2>1. /\ phase = "tick" /\ tick' = tick + 1
        /\ UNCHANGED <<config, attempt, npzBy, parquetBy, Mine>>
        /\ phase' \in {"checkpoint", "closeLog", "tick"}
        /\ phase' = "checkpoint" <=> tick' % config.interval = 0
    BY <1>4 DEF Proceed, EndTick, attemptVars, Mine
  <2>2. Due(tick') = IF phase' = "checkpoint" THEN Due(tick) \cup {tick'} ELSE Due(tick)
    BY <2>1, DueNext
  <2>3. Due(tick)' = Due(tick')
    BY <2>1 DEF Due
  <2>4. QED
    BY <2>1, <2>2, <2>3 DEF DueInv
<1>5. CASE (Proceed /\ ~EndTick) \/ UNCHANGED repeatedVars
  <2>1. /\ UNCHANGED <<config, tick, Mine, Due(tick)>>
        /\ \/ phase' = "raised"
           \/ phase' = phase
           \/ phase = "closeLog" /\ phase' = "endCheckpoint"
    BY <1>5 DEF Proceed, Mechanism, MechanismRaises, CloseLog, Dies, attemptVars,
       repeatedVars, vars, Mine, Due
  <2>2. QED
    BY <2>1 DEF DueInv
<1>6. CASE Rerun
  BY <1>6 DEF Rerun, DueInv
<1>7. QED
  BY <1>2, <1>3, <1>4, <1>5, <1>6 DEF RepeatedNext

\* StoreInv and DueInv hold in every reachable state.
LEMMA StoreInvariance == RepeatedSpec => [](StoreInv /\ DueInv)
<1>1. RepeatedInit => StoreInv /\ DueInv
  BY DEF RepeatedInit, Init, StoreInv, DueInv, ParquetAfterNpz, Names, Writing
<1>2. QED
  BY <1>1, NextStore, NextDue, RepeatedCount, OwnInvariance, PTL DEF RepeatedSpec

\* No attempt takes away an npz whose parquet object is there, or puts one there
\* before it.
THEOREM RepeatedParquetFollowsNpz == RepeatedSpec => []ParquetAfterNpz
<1>1. StoreInv => ParquetAfterNpz  BY DEF StoreInv
<1>2. QED  BY <1>1, StoreInvariance, PTL

\* What is there when an attempt returns.
LEMMA ReturnedStore ==
  ASSUME OwnInv, CountInv, StoreInv, DueInv, phase = "returned"
  PROVE  Complete = Own /\ Complete = RequiredCheckpoints
<1>1. /\ tick = config.start + config.numTicks
      /\ config.start \in Nat /\ config.numTicks \in Nat \ {0}
  BY ConfigFields DEF CountInv, TypeOK
<1>2. Due(tick) \cup {tick} = RequiredCheckpoints
  BY <1>1 DEF Due, RequiredCheckpoints
<1>3. RequiredCheckpoints \subseteq Own
  BY <1>2, OwnIsMine DEF DueInv, OwnInv
<1>4. Own \subseteq Complete
  <2>1. \A c \in Own : \E o \in npzBy \cap parquetBy : o.tick = c
    BY DEF Own
  <2>2. QED
    BY <2>1 DEF StoreInv, Complete, Names
<1>5. Complete \subseteq RequiredCheckpoints
  BY DEF StoreInv, Complete, Names
<1>6. QED
  BY <1>3, <1>4, <1>5

\* A run that returns, at whatever attempt, has the required checkpoints and no other.
THEOREM RepeatedReturnMeansComplete == RepeatedSpec => []ReturnedRunIsComplete
<1>1. OwnInv /\ CountInv /\ StoreInv /\ DueInv => ReturnedRunIsComplete
  BY ReturnedStore, ConfigFields DEF ReturnedRunIsComplete, CountInv, TypeOK
<1>2. QED
  BY <1>1, RepeatedCount, OwnInvariance, StoreInvariance, PTL

\* A run that returns has mended what all the attempts before it have torn.
THEOREM ReturnMeansWhole == RepeatedSpec => []ReturnedRunIsWhole
<1>1. OwnInv /\ CountInv /\ StoreInv /\ DueInv => ReturnedRunIsWhole
  <2> SUFFICES ASSUME OwnInv, CountInv, StoreInv, DueInv, phase = "returned"
               PROVE  Torn = {} /\ Complete = Own
    BY DEF ReturnedRunIsWhole
  <2>1. Complete = Own
    BY ReturnedStore
  <2>2. ASSUME NEW t \in Torn PROVE FALSE
    <3>1. PICK o \in npzBy, p \in parquetBy : o.tick = t /\ p.tick = t /\ p.by # o.by
      BY <2>2, TornDef
    <3>2. t \in Complete
      BY <3>1 DEF StoreInv, Names, Complete
    <3>3. PICK own \in npzBy \cap parquetBy : own.tick = t
      BY <2>1, <3>2 DEF Own
    <3>4. own = o /\ own = p
      BY <3>1, <3>3 DEF StoreInv
    <3>5. QED
      BY <3>1, <3>4
  <2>3. QED
    BY <2>1, <2>2
<1>2. QED
  BY <1>1, RepeatedCount, OwnInvariance, StoreInvariance, PTL

-----------------------------------------------------------------------------
(* The promise of periodic checkpoints *)

\* Every attempt implements PeriodicCheckpoints: an upload saves the tick it is at or
\* nothing, a tick is only counted within an interval of what is saved, a new attempt
\* starts over, and everything else is a stutter.
THEOREM CheckpointsArePeriodic == RepeatedSpec => ImplementsPeriodicCheckpoints
<1> DEFINE mapped == <<config.start, config.interval, tick, Own>>
<1>1. RepeatedInit => Periodic!Init
  <2>1. npzBy = {} => Own = {}
    BY DEF Own
  <2>2. QED
    BY <2>1, IntervalPositive DEF RepeatedInit, Init, Periodic!Init
<1>2. (StoreTyped => Own = Mine)'
  BY OwnIsMine, PTL
<1>3. OwnInv /\ OwnInv' /\ TornInv /\ [RepeatedNext]_repeatedVars =>
        [Periodic!Next]_mapped
  <2> SUFFICES ASSUME OwnInv, OwnInv', TornInv, [RepeatedNext]_repeatedVars
               PROVE  [Periodic!Next]_mapped
    OBVIOUS
  <2>1. /\ Own = Mine /\ Own' = Mine'
        /\ tick \in Nat /\ config.interval \in Nat \ {0} /\ config.start \in Nat
    BY <1>2, OwnIsMine, IntervalPositive DEF OwnInv
  <2>2. CASE WriteNpz \/ WriteParquet
    <3>1. UNCHANGED <<config, tick>>
      BY <2>2 DEF WriteNpz, WriteParquet, UploadNpz, UploadParquet
    <3>2. Own' = Own \/ Own' = Own \cup {tick}
      BY <2>1, <2>2, UploadsMakeOwn
    <3>3. QED
      BY <3>1, <3>2 DEF Periodic!Next, Periodic!Save
  <2>3. CASE Proceed /\ EndTick
    <3>1. /\ phase = "tick" /\ tick' = tick + 1 /\ UNCHANGED <<config, Own>>
      BY <2>3 DEF Proceed, EndTick, attemptVars, Own
    <3>2. PICK c \in Own : c <= tick /\ tick - c <= tick % config.interval
      BY <2>1, <3>1 DEF OwnInv, OwnWithin
    <3>3. c \in Nat /\ tick % config.interval \in 0 .. config.interval - 1
      BY <2>1, NextRemainder DEF Mine
    <3>4. tick + 1 - c <= config.interval
      BY <2>1, <3>2, <3>3
    <3>5. QED
      BY <3>1, <3>2, <3>4 DEF Periodic!Next, Periodic!Tick
  <2>4. CASE (Proceed /\ ~EndTick) \/ UNCHANGED repeatedVars
    BY <2>4 DEF Proceed, Mechanism, MechanismRaises, CloseLog, Dies, attemptVars,
       repeatedVars, vars, Own
  <2>5. CASE Rerun
    <3>1. /\ tick' = config.start /\ attempt' = attempt + 1
          /\ UNCHANGED <<config, npzBy, parquetBy>>
      BY <2>5 DEF Rerun
    <3>2. \A o \in npzBy : o.by \in 1 .. attempt
      BY DEF TornInv
    <3>3. attempt + 1 \notin 1 .. attempt
      BY DEF OwnInv, StoreTyped
    <3>4. Own' = {}
      BY <3>1, <3>2, <3>3 DEF Own
    <3>5. QED
      BY <3>1, <3>4 DEF Periodic!Next, Periodic!Restart
  <2>6. QED
    BY <2>2, <2>3, <2>4, <2>5 DEF RepeatedNext
<1>4. QED
  BY <1>1, <1>3, OwnInvariance, TornInvariance, PTL
     DEF RepeatedSpec, ImplementsPeriodicCheckpoints, Periodic!Spec
=============================================================================
