------------------------ MODULE ConfiguredRunProofs ------------------------
(***************************************************************************)
(* What holds of the schema for every document, and of the path of the     *)
(* config for every set of documents, invocations and faults.              *)
(***************************************************************************)
EXTENDS ConfiguredRun, OrchestratorProofs

-----------------------------------------------------------------------------
(* The schema *)

\* What the schema accepts is a function on the fields with admitted values.
LEMMA LoadedFields ==
  ASSUME NEW doc, LoadRunConfig(doc) # Invalid
  PROVE  /\ LoadRunConfig(doc) = Completed(doc)
         /\ Required \subseteq DOMAIN doc
         /\ \A f \in Fields : Completed(doc)[f] \in Admitted(f)
         /\ ValidRanges(Completed(doc))
BY DEF LoadRunConfig

\* A RunConfig that is written to JSON and read back is the same RunConfig when
\* its floats are finite; otherwise it is refused and never altered.
THEOREM RoundTrip ==
  ASSUME NEW doc, LoadRunConfig(doc) # Invalid
  PROVE  /\ LoadRunConfig(ToJson(LoadRunConfig(doc))) \in {LoadRunConfig(doc), Invalid}
         /\ Finite(LoadRunConfig(doc)) =>
              LoadRunConfig(ToJson(LoadRunConfig(doc))) = LoadRunConfig(doc)
<1> DEFINE c == Completed(doc)
<1>1. /\ LoadRunConfig(doc) = c
      /\ \A f \in Fields : c[f] \in Admitted(f)
      /\ ValidRanges(c)
  BY LoadedFields
<1>2. c = [f \in Fields |-> c[f]]
  BY DEF Completed
<1>4. /\ \A r \in Ranges : r \in Fields /\ c[r] \in Int \X Int
      /\ "tau_still" \in Fields /\ c["tau_still"] \in Int
      /\ "beta_shape" \in Fields /\ c["beta_shape"] \in {Null} \cup BetaShape
  BY <1>1 DEF Admitted, Fields, Required, Ranges
<1> HIDE DEF c
<1>3. /\ ToJson(c) = [f \in Fields |-> JsonValue(f, c[f])]
      /\ Completed(ToJson(c)) = ToJson(c)
      /\ DOMAIN ToJson(c) = Fields
  <2>1. ToJson(c) = [f \in Fields |-> JsonValue(f, c[f])]
    BY DEF ToJson
  <2>2. \A f \in Fields : Parsed(f, JsonValue(f, c[f])) = JsonValue(f, c[f])
    <3>1. SUFFICES Parsed("beta_shape", JsonValue("beta_shape", c["beta_shape"]))
                     = JsonValue("beta_shape", c["beta_shape"])
      BY DEF Parsed
    <3>2. CASE c["beta_shape"] = Null
      BY <3>2 DEF JsonValue, Parsed, Ranges
    <3>3. CASE c["beta_shape"] # Null
      BY <3>3 DEF JsonValue, Parsed, Ranges
    <3>4. QED
      BY <3>2, <3>3
  <2>3. Completed(ToJson(c)) = [f \in Fields |-> Parsed(f, JsonValue(f, c[f]))]
    BY <2>1 DEF Completed
  <2>4. QED
    BY <2>1, <2>2, <2>3
<1>5. ASSUME Finite(c)
      PROVE  LoadRunConfig(ToJson(c)) = c
  <2>1. ASSUME NEW r \in Ranges
        PROVE  JsonValue(r, c[r]) = c[r]
    <3>1. JsonValue(r, c[r]) = <<JsonNumber(c[r][1]), JsonNumber(c[r][2])>>
      BY DEF JsonValue, Ranges
    <3>2. JsonNumber(c[r][1]) = c[r][1] /\ JsonNumber(c[r][2]) = c[r][2]
      BY <1>5 DEF Finite, JsonNumber
    <3>3. <<c[r][1], c[r][2]>> = c[r]
      <4>1. c[r] \in Int \X Int
        BY <1>4
      <4>2. QED
        BY <4>1
    <3>4. QED
      BY <3>1, <3>2, <3>3
  <2>2. JsonValue("tau_still", c["tau_still"]) = c["tau_still"]
    BY <1>5 DEF Finite, JsonValue, JsonNumber, Ranges
  <2>3. JsonValue("beta_shape", c["beta_shape"]) = c["beta_shape"]
    <3>1. CASE c["beta_shape"] = Null
      BY <3>1 DEF JsonValue, Ranges
    <3>2. CASE c["beta_shape"] # Null
      <4>1. c["beta_shape"] \in [alpha : Nat \ {0}, beta : Nat \ {0}]
        BY <1>4, <3>2 DEF BetaShape
      <4>2. [alpha |-> c["beta_shape"].alpha, beta |-> c["beta_shape"].beta]
              = c["beta_shape"]
        BY <4>1
      <4>3. /\ JsonNumber(c["beta_shape"].alpha) = c["beta_shape"].alpha
            /\ JsonNumber(c["beta_shape"].beta) = c["beta_shape"].beta
        BY <1>5, <3>2 DEF Finite, JsonNumber
      <4>4. JsonValue("beta_shape", c["beta_shape"])
              = [alpha |-> JsonNumber(c["beta_shape"].alpha),
                 beta |-> JsonNumber(c["beta_shape"].beta)]
        BY <3>2 DEF JsonValue, Ranges
      <4>5. QED
        BY <4>2, <4>3, <4>4
    <3>3. QED
      BY <3>1, <3>2
  <2>4. \A f \in Fields : JsonValue(f, c[f]) = c[f]
    BY <2>1, <2>2, <2>3 DEF JsonValue
  <2>5. ToJson(c) = c
    BY <1>2, <1>3, <2>4
  <2>6. QED
    BY <1>1, <1>3, <2>5 DEF LoadRunConfig, Fields
<1>6. ASSUME LoadRunConfig(ToJson(c)) # Invalid
      PROVE  Finite(c)
  <2>1. \A f \in Fields : ToJson(c)[f] \in Admitted(f)
    BY <1>3, <1>6, LoadedFields
  <2>2. \A f \in Fields : JsonValue(f, c[f]) \in Admitted(f)
    BY <1>3, <2>1
  <2>3. ASSUME NEW r \in Ranges
        PROVE  c[r][1] # Infinity /\ c[r][2] # Infinity
    <3> DEFINE text == <<JsonNumber(c[r][1]), JsonNumber(c[r][2])>>
    <3>1. JsonValue(r, c[r]) = text
      BY DEF JsonValue, Ranges
    <3>2. Admitted(r) = Int \X Int
      BY DEF Admitted, Ranges
    <3>3. text \in Int \X Int
      BY <1>4, <2>2, <3>1, <3>2
    <3>4. JsonNumber(c[r][1]) \in Int /\ JsonNumber(c[r][2]) \in Int
      BY <3>3
    <3>5. QED
      BY <3>4, RunConfigAssumption DEF JsonNumber
  <2>4. c["tau_still"] # Infinity
    <3>1. JsonNumber(c["tau_still"]) \in Int
      BY <1>4, <2>2 DEF JsonValue, Admitted, Ranges
    <3>2. QED
      BY <3>1, RunConfigAssumption DEF JsonNumber
  <2>5. ASSUME c["beta_shape"] # Null
        PROVE  c["beta_shape"].alpha # Infinity /\ c["beta_shape"].beta # Infinity
    <3> DEFINE text == [alpha |-> JsonNumber(c["beta_shape"].alpha),
                        beta |-> JsonNumber(c["beta_shape"].beta)]
    <3>1. text \in {Null} \cup BetaShape
      BY <1>4, <2>2, <2>5 DEF JsonValue, Admitted, Ranges
    <3>2. text # Null
      <4>1. c["beta_shape"] \in [alpha : Nat \ {0}, beta : Nat \ {0}]
        BY <1>4, <2>5 DEF BetaShape
      <4>2. /\ JsonNumber(c["beta_shape"].alpha) \in Int \cup {Null}
            /\ JsonNumber(c["beta_shape"].beta) \in Int \cup {Null}
        BY <4>1 DEF JsonNumber
      <4>3. text \in [alpha : Int \cup {Null}, beta : Int \cup {Null}]
        BY <4>2
      <4>4. QED
        BY <4>3, RunConfigAssumption
    <3>3. text.alpha \in Nat /\ text.beta \in Nat
      BY <3>1, <3>2 DEF BetaShape
    <3>4. JsonNumber(c["beta_shape"].alpha) \in Nat /\ JsonNumber(c["beta_shape"].beta) \in Nat
      BY <3>3
    <3>5. QED
      BY <3>4, RunConfigAssumption DEF JsonNumber
  <2>6. QED
    BY <2>3, <2>4, <2>5 DEF Finite
<1>7. QED
  BY <1>1, <1>5, <1>6

-----------------------------------------------------------------------------
(* The path of the config is a refinement of the orchestrator *)

\* Every step of the configured run is a step of Orchestrator, or one of Redis
\* and of the engine's memory that Orchestrator does not see; a process that
\* fails to load its config is one that exits.
LEMMA StepIsOrchestrated ==
  ASSUME [ConfiguredNext]_allVars
  PROVE  [Next]_vars
<1>1. CASE \E d \in Documents : Submit(d)
  BY <1>1 DEF Submit, Next, Environment
<1>2. CASE \E o \in Orchestrators : ConfiguredStep(o)
  BY <1>2 DEF ConfiguredStep, ReadConfig, WarmConfig, OtherStep, Step, Next
<1>3. CASE Expire \/ Repopulate \/ OtherEngineCaches
  BY <1>3 DEF Expire, Repopulate, OtherEngineCaches
<1>4. CASE LoadCached \/ LoadRegistered
  <2>1. PICK doc : Load(doc)
    BY <1>4 DEF LoadCached, LoadRegistered
  <2>2. CASE UNCHANGED engine
    BY <2>1, <2>2 DEF Load, vars, cloudVars
  <2>3. CASE engine' = "exited"
    BY <2>1, <2>3 DEF Load, Next, Environment, EngineExits
  <2>4. QED
    BY <2>1, <2>2, <2>3 DEF Load
<1>5. CASE WriteSummary
  BY <1>5 DEF WriteSummary, Next, Environment
<1>6. CASE CommandDies \/ EngineEnds \/ CloudStep
  BY <1>6 DEF CommandDies, EngineEnds, CloudStep, Next, Environment
<1>7. CASE UNCHANGED allVars
  BY <1>7 DEF allVars
<1>8. QED
  BY <1>1, <1>2, <1>3, <1>4, <1>5, <1>6, <1>7 DEF ConfiguredNext

\* The configured run implements the orchestrator, so every theorem about the
\* orchestrator holds of it.
THEOREM ConfiguredRunIsOrchestrated == ConfiguredSpec => Spec
<1>1. ConfiguredInit => Init
  BY DEF ConfiguredInit
<1>2. QED
  BY <1>1, StepIsOrchestrated, PTL DEF ConfiguredSpec, Spec

-----------------------------------------------------------------------------
(* The config that Redis and the engine hold *)

\* The row has a document, and an engine accepts it.
ValidRow == RowExists /\ LoadRunConfig(document) # Invalid

\* Without a row there is no document.  An invocation that is about to fill Redis holds
\* the row's document; Redis holds it or what an engine wrote after loading it, or
\* loading a clone; an engine runs the one or the other.  A summary comes from such an
\* engine.
ConfigInv ==
  /\ DOMAIN held = Orchestrators
  /\ ~RowExists => document = Null
  /\ RowExists => document \in Documents
  /\ \A o \in Orchestrators : pc[o] = "putConfig" => RowExists /\ held[o] = document
  /\ \/ cache = Null
     \/ RowExists /\ cache = document
     \/ ValidRow /\ cache = ToJson(LoadRunConfig(document))
     \/ \E d \in Clones : cache = ToJson(LoadRunConfig(d))
  /\ \/ loaded = Null
     \/ ValidRow /\ loaded = LoadRunConfig(document)
     \/ \E d \in Clones : loaded = LoadRunConfig(d)
  /\ hasSummary => ValidRow \/ Clones # {}

\* A step that touches no document keeps ConfigInv when the row stays, no summary
\* appears, nobody comes to putConfig and the engine at most forgets.
LEMMA QuietStep ==
  ASSUME ConfigInv,
         UNCHANGED <<document, held, cache>>,
         loaded' \in {loaded, Null},
         RowExists <=> RowExists',
         hasSummary' => hasSummary,
         \A o \in Orchestrators : pc'[o] = "putConfig" => pc[o] = "putConfig"
  PROVE  ConfigInv'
<1>1. (RowExists <=> RowExists') /\ (ValidRow <=> ValidRow')
  BY DEF ValidRow
<1>2. QED
  BY <1>1 DEF ConfigInv

\* What an engine makes of the document in the row, or of the value in Redis: nothing,
\* the submitted config, or that of a clone.
LEMMA DocumentsRead ==
  ASSUME ConfigInv, NEW doc, \/ RowExists /\ doc = document
                             \/ cache # Null /\ doc = cache
  PROVE  \/ LoadRunConfig(doc) = Invalid
         \/ ValidRow /\ LoadRunConfig(doc) = LoadRunConfig(document)
         \/ \E d \in Clones : LoadRunConfig(doc) = LoadRunConfig(d)
<1>1. CASE RowExists /\ doc = document
  BY <1>1 DEF ValidRow
<1>2. CASE ValidRow /\ doc = ToJson(LoadRunConfig(document))
  BY <1>2, RoundTrip DEF ValidRow
<1>3. ASSUME NEW d \in Clones, doc = ToJson(LoadRunConfig(d))
      PROVE  LoadRunConfig(doc) \in {LoadRunConfig(d), Invalid}
  BY <1>3, RoundTrip DEF Clones
<1>4. QED
  BY <1>1, <1>2, <1>3 DEF ConfigInv

\* A statement that sets a status never takes the row away or adds a summary.
LEMMA StatusStatement ==
  ASSUME NEW s \in Statuses, NEW name, MarkRunStatus(s, name)
  PROVE  RowExists /\ RowExists' /\ hasSummary' = hasSummary
BY DEF MarkRunStatus, RowExists, Statuses, NoRow

\* The calls of an invocation after PutConfig.
LEMMA LaterCalls ==
  ASSUME IInv, NEW o \in Orchestrators, Step(o), pc[o] \notin {"getRunConfig", "putConfig"}
  PROVE  /\ RowExists <=> RowExists'
         /\ hasSummary' = hasSummary
         /\ \A q \in Orchestrators : pc'[q] = "putConfig" => pc[q] = "putConfig"
<1>1. pc \in [Orchestrators -> Labels]
  BY DEF IInv, TypeOK
<1> USE <1>1 DEF Goto, registryVars, RowExists
<1>2. CASE MarkProvisioning(o) \/ MarkCreateFailed(o) \/ MarkRunning(o)
           \/ MarkCompleted(o) \/ MarkFailed(o)
  <2>1. {"provisioning", "running", "completed", "failed"} \subseteq Statuses
    BY DEF Statuses
  <2>2. PICK s \in Statuses, next \in Labels \ {"putConfig"} :
          /\ MarkRunStatus(s, InstanceName) \/ UNCHANGED registryVars
          /\ pc' = [pc EXCEPT ![o] = next]
    BY <1>2, <2>1
       DEF MarkProvisioning, MarkCreateFailed, MarkRunning, MarkCompleted, MarkFailed,
           Exec, Labels
  <2>3. QED
    BY <2>2, StatusStatement
<1>3. CASE InsertInstance(o) \/ InsertWait(o) \/ HasRunSummary(o) \/ GetInstance(o)
           \/ DeleteInstance(o) \/ DeleteWait(o)
  BY <1>3 DEF InsertInstance, InsertWait, HasRunSummary, GetInstance, DeleteInstance,
     DeleteWait
<1>4. QED
  BY <1>2, <1>3 DEF Step, GetRunConfig, PutConfig

\* Nothing changes the document of a row, and nobody fills Redis with anything else.
LEMMA NextConfig ==
  ASSUME IInv, ConfigInv, [ConfiguredNext]_allVars
  PROVE  ConfigInv'
<1>0. pc \in [Orchestrators -> Labels]
  BY DEF IInv, TypeOK
<1>1. CASE \E d \in Documents : Submit(d)
  <2>1. /\ ~RowExists /\ RowExists' /\ document' \in Documents
        /\ UNCHANGED <<pc, held, cache, loaded, hasSummary>>
    BY <1>1 DEF Submit, SubmitRun, CreateRun, RowExists, NoRow
  <2>2. ~ValidRow
    BY <2>1 DEF ValidRow
  <2>3. QED
    BY <2>1, <2>2 DEF ConfigInv
<1>2. ASSUME NEW o \in Orchestrators, ReadConfig(o)
      PROVE  ConfigInv'
  <2>1. /\ UNCHANGED <<registryVars, document, cache, loaded>>
        /\ held' = [held EXCEPT ![o] = document]
        /\ pc'[o] = "putConfig" => RowExists
        /\ \A q \in Orchestrators \ {o} : pc'[q] = pc[q]
    BY <1>2, <1>0 DEF ReadConfig, GetRunConfig, Goto
  <2>2. QED
    BY <2>1 DEF ConfigInv, ValidRow, registryVars, RowExists
<1>3. ASSUME NEW o \in Orchestrators, WarmConfig(o)
      PROVE  ConfigInv'
  <2>1. /\ pc[o] = "putConfig"
        /\ UNCHANGED <<registryVars, document, held, loaded>>
        /\ cache' \in {cache, held[o]}
        /\ \A q \in Orchestrators : pc'[q] = "putConfig" => pc[q] = "putConfig"
    BY <1>3, <1>0 DEF WarmConfig, PutConfig, Goto
  <2>2. QED
    BY <2>1 DEF ConfigInv, ValidRow, registryVars, RowExists
<1>4. ASSUME NEW o \in Orchestrators, OtherStep(o)
      PROVE  ConfigInv'
  <2>1. /\ UNCHANGED <<document, held, cache>>
        /\ loaded' \in {loaded, Null}
    BY <1>4 DEF OtherStep, Forget
  <2>2. QED
    BY <1>4, <2>1, LaterCalls, QuietStep DEF OtherStep
<1>5. CASE Expire \/ OtherEngineCaches
  <2>1. /\ cache' = Null \/ \E d \in Clones : cache' = ToJson(LoadRunConfig(d))
        /\ UNCHANGED <<registryVars, pc, document, held, loaded>>
    BY <1>5 DEF Expire, OtherEngineCaches, vars
  <2>2. QED
    BY <2>1 DEF ConfigInv, ValidRow, registryVars, RowExists
<1>6. CASE LoadCached \/ LoadRegistered
  <2>1. PICK doc : /\ Load(doc)
                   /\ \/ RowExists /\ doc = document
                      \/ cache # Null /\ doc = cache
    BY <1>6 DEF LoadCached, LoadRegistered
  <2>2. /\ UNCHANGED <<registryVars, pc, document, held, cache>>
        /\ loaded' = loaded \/ (loaded' = LoadRunConfig(doc) /\ loaded' # Invalid)
    BY <2>1 DEF Load
  <2>3. QED
    BY <2>1, <2>2, DocumentsRead DEF ConfigInv, ValidRow, registryVars, RowExists
<1>7. CASE Repopulate
  <2>1. /\ loaded # Null /\ cache' \in {cache, ToJson(loaded)}
        /\ UNCHANGED <<registryVars, pc, document, held, loaded>>
    BY <1>7 DEF Repopulate, vars
  <2>2. QED
    BY <2>1 DEF ConfigInv, ValidRow, registryVars, RowExists
<1>8. CASE WriteSummary
  <2>1. /\ loaded # Null /\ UNCHANGED <<status, pc, document, held, cache, loaded>>
    BY <1>8 DEF WriteSummary, EngineWritesSummary, WriteRunSummary, configVars
  <2>2. QED
    BY <2>1 DEF ConfigInv, ValidRow, RowExists
<1>9. CASE CommandDies
  BY <1>0, <1>9, QuietStep
     DEF CommandDies, Crash, Goto, configVars, registryVars, RowExists
<1>10. CASE EngineEnds
  <2>1. UNCHANGED <<document, held, cache>> /\ loaded' \in {loaded, Null}
    BY <1>10 DEF EngineEnds, Forget
  <2>2. CASE EngineMarksStatus
    <3>1. PICK s \in Statuses : MarkRunStatus(s, NoName)
      BY <2>2 DEF EngineMarksStatus, Terminal, Statuses
    <3>2. (RowExists <=> RowExists') /\ hasSummary' = hasSummary /\ pc' = pc
      BY <2>2, <3>1, StatusStatement DEF EngineMarksStatus
    <3>3. QED
      BY <2>1, <3>2, QuietStep
  <2>3. CASE EngineExits
    BY <2>1, <2>3, QuietStep DEF EngineExits, registryVars, RowExists
  <2>4. QED
    BY <1>10, <2>2, <2>3 DEF EngineEnds
<1>11. CASE CloudStep
  <2>1. UNCHANGED <<document, held, cache>> /\ loaded' \in {loaded, Null}
    BY <1>11 DEF CloudStep, Forget
  <2>2. UNCHANGED <<registryVars, pc>>
    BY <1>11 DEF CloudStep, Cloud, VmStopping, VmStopped, VmDeleted, VmVanishes
  <2>3. QED
    BY <2>1, <2>2, QuietStep DEF registryVars, RowExists
<1>12. CASE UNCHANGED allVars
  BY <1>12, QuietStep DEF allVars, vars, configVars, registryVars, RowExists
<1>13. QED
  BY <1>1, <1>2, <1>3, <1>4, <1>5, <1>6, <1>7, <1>8, <1>9, <1>10, <1>11, <1>12
     DEF ConfiguredNext, ConfiguredStep

\* ConfigInv holds in every reachable state.
LEMMA ConfigInvariance == ConfiguredSpec => [](IInv /\ ConfigInv)
<1>1. ConfiguredInit => ConfigInv
  BY DEF ConfiguredInit, Init, RegistryInit, ConfigInv, RowExists
<1>2. QED
  BY <1>1, NextConfig, ConfiguredRunIsOrchestrated, Invariance, PTL DEF ConfiguredSpec

\* Whatever other runs' documents say: an engine runs the exact meaning of one document of
\* the registry, its own row's or one that names this run.
THEOREM EngineRunsOneDocument == ConfiguredSpec => []EngineRunsConfigOfSomeRow
<1>1. ConfigInv => EngineRunsConfigOfSomeRow
  BY DEF ConfigInv, ValidRow, EngineRunsConfigOfSomeRow
<1>2. QED
  BY <1>1, ConfigInvariance, PTL

\* As long as no valid document of another run names this run, Redis never disagrees with
\* the registry, however many of the run's invocations and engines fill it, whatever expires
\* and whichever call fails after its effect.
THEOREM CacheIsTrue ==
  ASSUME Clones = {}
  PROVE  ConfiguredSpec => []CacheAgreesWithRegistry
<1>1. ConfigInv => CacheAgreesWithRegistry
  <2> SUFFICES ASSUME ConfigInv, cache # Null
               PROVE  RowExists /\ LoadRunConfig(cache) = LoadRunConfig(document)
    BY DEF CacheAgreesWithRegistry
  <2>1. CASE RowExists /\ cache = document
    BY <2>1
  <2>2. CASE ValidRow /\ cache = ToJson(LoadRunConfig(document))
    <3>1. RowExists /\ document \in Documents /\ LoadRunConfig(document) # Invalid
      BY <2>2 DEF ConfigInv, ValidRow
    <3>2. Finite(LoadRunConfig(document))
      BY <3>1, DocumentsAssumption
    <3>3. QED
      BY <2>2, <3>1, <3>2, RoundTrip
  <2>3. QED
    BY <2>1, <2>2 DEF ConfigInv
<1>2. QED
  BY <1>1, ConfigInvariance, PTL

\* As long as no valid document of another run names this run, every engine runs the config
\* that was submitted, from whichever store it read it and whoever put it there.
THEOREM EngineIsConfigured ==
  ASSUME Clones = {}
  PROVE  ConfiguredSpec => []EngineRunsSubmittedConfig
<1>1. ConfigInv => EngineRunsSubmittedConfig
  BY DEF ConfigInv, ValidRow, EngineRunsSubmittedConfig
<1>2. QED
  BY <1>1, ConfigInvariance, PTL

\* As long as no valid document of another run names this run, it does not complete with
\* an inverted range or an interval of no ticks.
THEOREM CompletedRunsAreValid ==
  ASSUME Clones = {}
  PROVE  ConfiguredSpec => []CompletedRunIsValid
<1>1. IInv /\ ConfigInv => CompletedRunIsValid
  <2> DEFINE interval == "checkpoint_interval_ticks"
  <2> SUFFICES ASSUME IInv, ConfigInv, status = "completed"
               PROVE  /\ \A r \in Ranges :
                           r \in DOMAIN document /\ document[r][1] <= document[r][2]
                      /\ interval \in DOMAIN document => document[interval] > 0
    BY DEF CompletedRunIsValid
  <2>1. LoadRunConfig(document) # Invalid
    BY DEF IInv, CompletedHasSummary, ConfigInv, ValidRow
  <2>2. ASSUME NEW f \in Fields, f # "beta_shape", f \in DOMAIN document
        PROVE  Completed(document)[f] = document[f] /\ document[f] \in Admitted(f)
    BY <2>1, <2>2, LoadedFields DEF Completed, Parsed
  <2>3. ASSUME NEW r \in Ranges
        PROVE  r \in DOMAIN document /\ document[r][1] <= document[r][2]
    <3>1. r \in Fields /\ r \in DOMAIN document /\ r # "beta_shape"
      BY <2>1, LoadedFields DEF Required, Fields, Ranges
    <3>2. QED
      BY <2>1, <2>2, <3>1, LoadedFields DEF ValidRanges
  <2>4. Admitted(interval) = Nat \ {0, Infinity} /\ interval \in Fields
    BY DEF Admitted, Ranges, Fields
  <2>5. QED
    BY <2>2, <2>3, <2>4
<1>2. QED
  BY <1>1, ConfigInvariance, PTL

-----------------------------------------------------------------------------
(* The abstract register *)

\* A step that only fills or empties Redis copies the register or expires the copy.
LEMMA CacheStep ==
  ASSUME Clones = {}, ConfigInv, ConfigInv', UNCHANGED <<document, loaded>>
  PROVE  Register!Cache \/ Register!Expire
<1>1. CASE cache' = Null
  BY <1>1 DEF Register!Expire, Meaning
<1>2. CASE cache' # Null
  <2>1. /\ document \in Documents /\ document # Null
        /\ \/ cache' = document
           \/ /\ LoadRunConfig(document) # Invalid
              /\ cache' = ToJson(LoadRunConfig(document))
    BY <1>2, DocumentsAssumption DEF ConfigInv, ValidRow
  <2>2. LoadRunConfig(document) # Invalid => Finite(LoadRunConfig(document))
    BY <2>1, DocumentsAssumption
  <2>3. LoadRunConfig(cache') = LoadRunConfig(document)
    BY <2>1, <2>2, RoundTrip
  <2>4. QED
    BY <1>2, <2>1, <2>3 DEF Register!Cache, Meaning
<1>3. QED
  BY <1>1, <1>2

\* A step that at most ends a process empties the reader or changes nothing.
LEMMA ReaderStep ==
  ASSUME UNCHANGED <<document, cache>>, loaded' \in {loaded, Null}
  PROVE  [Register!Next]_(Register!vars)
BY DEF Register!Next, Register!Stop, Register!vars, Meaning

\* Without clones, every step of the configured run is a step of the register or none.
LEMMA StepIsRegister ==
  ASSUME Clones = {}, IInv, ConfigInv, ConfigInv', [ConfiguredNext]_allVars
  PROVE  [Register!Next]_(Register!vars)
<1>1. ASSUME NEW d \in Documents, Submit(d)
      PROVE  Register!Submit
  <2>1. /\ document = Null /\ document' = d /\ d # Null
        /\ UNCHANGED <<cache, loaded>>
    BY <1>1, DocumentsAssumption DEF Submit, SubmitRun, CreateRun, ConfigInv
  <2>2. QED
    BY <2>1 DEF Register!Submit, Meaning
<1>2. ASSUME NEW o \in Orchestrators, ReadConfig(o) \/ OtherStep(o)
      PROVE  UNCHANGED <<document, cache>> /\ loaded' \in {loaded, Null}
  BY <1>2 DEF ReadConfig, OtherStep, Forget
<1>3. ASSUME \/ \E o \in Orchestrators : WarmConfig(o)
             \/ Expire \/ Repopulate \/ OtherEngineCaches
      PROVE  Register!Cache \/ Register!Expire
  BY <1>3, CacheStep DEF WarmConfig, Expire, Repopulate, OtherEngineCaches
<1>4. ASSUME LoadCached \/ LoadRegistered
      PROVE  [Register!Next]_(Register!vars)
  <2>1. PICK doc : /\ Load(doc)
                   /\ \/ RowExists /\ doc = document
                      \/ cache # Null /\ doc = cache
    BY <1>4 DEF LoadCached, LoadRegistered
  <2>2. UNCHANGED <<document, cache>> /\ loaded = Null
    BY <2>1 DEF Load
  <2>3. CASE UNCHANGED loaded
    BY <2>2, <2>3, ReaderStep
  <2>4. CASE LoadRunConfig(doc) # Invalid /\ loaded' = LoadRunConfig(doc)
    <3>1. RowExists /\ LoadRunConfig(doc) = LoadRunConfig(document)
      BY <2>1, <2>4, DocumentsRead DEF ValidRow
    <3>2. document \in Documents /\ document # Null
      BY <3>1, DocumentsAssumption DEF ConfigInv
    <3>3. QED
      BY <2>2, <2>4, <3>1, <3>2 DEF Register!Start, Register!Next, Meaning
  <2>5. QED
    BY <2>1, <2>3, <2>4 DEF Load
<1>5. ASSUME \/ WriteSummary \/ CommandDies \/ EngineEnds \/ CloudStep
             \/ UNCHANGED allVars
      PROVE  UNCHANGED <<document, cache>> /\ loaded' \in {loaded, Null}
  BY <1>5 DEF WriteSummary, CommandDies, EngineEnds, CloudStep, Forget, allVars, configVars
<1>6. QED
  BY <1>1, <1>2, <1>3, <1>4, <1>5, ReaderStep
     DEF ConfiguredNext, ConfiguredStep, Register!Next

\* As long as no valid document of another run names this run: however many of its
\* invocations and engines read and fill the two stores, whatever expires and whatever
\* fails, they implement a register that is written once.
THEOREM ConfigIsRegister ==
  ASSUME Clones = {}
  PROVE  ConfiguredSpec => ImplementsConfigRegister
<1>1. ConfiguredInit => Register!Init
  BY DEF ConfiguredInit, Register!Init, Meaning
<1>2. IInv /\ ConfigInv /\ ConfigInv' /\ [ConfiguredNext]_allVars
        => [Register!Next]_(Register!vars)
  BY StepIsRegister
<1>3. QED
  BY <1>1, <1>2, ConfigInvariance, PTL DEF ConfiguredSpec, ImplementsConfigRegister,
     Register!Spec

\* With one invocation and a silent engine, a run with its config implements the life
\* of a run: a document that no engine accepts ends like any other engine that dies.
THEOREM ConfiguredRunImplementsLifecycle ==
  ASSUME NEW me, Orchestrators = {me}, EngineReports = FALSE
  PROVE  ConfiguredSpec => ImplementsLifecycle
BY ConfiguredRunIsOrchestrated, OrchestratorImplementsLifecycle, PTL
=============================================================================
