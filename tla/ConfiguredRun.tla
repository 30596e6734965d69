--------------------------- MODULE ConfiguredRun ---------------------------
(***************************************************************************)
(* The path of a run's config document: from whoever submits the run into  *)
(* the registry, through the invocations of the orchestrator into Redis,   *)
(* and from either store into the engine (storage/config_cache.py,         *)
(* get_run_config and load_run_config).  It adds the documents to          *)
(* Orchestrator, whose steps it refines.                                   *)
(*                                                                         *)
(* The row and its key in Redis go by the run_id they were created with;   *)
(* ConfigCache.put_config goes by the one inside the document, and nothing *)
(* compares the two.  So the engines of other runs are in the model as far *)
(* as they write this run's key.                                           *)
(*                                                                         *)
(* The entry point that would call the two stores is a stub, so the engine *)
(* may read either of them first and may put what it loaded into Redis     *)
(* whenever PRD 5 lets it.                                                 *)
(***************************************************************************)
EXTENDS Orchestrator, RunConfig

CONSTANTS
  RunId,           \* the id of this run
  Documents,       \* the config documents that may be submitted for it
  OtherDocuments   \* the config documents in the rows of other runs

\* create_run writes a document with json.dumps, and jsonb refuses its Infinity.
ASSUME DocumentsAssumption ==
  /\ Null \notin Documents
  /\ \A d \in Documents \cup OtherDocuments :
       LoadRunConfig(d) # Invalid => Finite(LoadRunConfig(d))

\* What some engine may put under this run's key without this run's document: the valid
\* documents of other runs that name this run, like a copy whose run_id nobody changed.
Clones ==
  {d \in OtherDocuments :
     LoadRunConfig(d) # Invalid /\ LoadRunConfig(d)["run_id"] = RunId}

VARIABLES
  document,   \* runs.config, or Null before the run is submitted
  held,       \* runConfig of every invocation
  cache,      \* the value at run:<run_id>:config, or Null
  loaded      \* the RunConfig of the engine, or Null

configVars == <<document, held, cache, loaded>>
allVars == <<vars, configVars>>

ConfiguredInit ==
  /\ Init
  /\ document = Null
  /\ held = [o \in Orchestrators |-> Null]
  /\ cache = Null
  /\ loaded = Null

\* A process that ends loses what it loaded.
Forget == loaded' = IF engine' = "running" THEN loaded ELSE Null

\* create_run stores the document as it is: nothing validates it here.
Submit(d) ==
  /\ SubmitRun
  /\ document' = d
  /\ UNCHANGED <<held, cache, loaded>>

ReadConfig(o) ==
  /\ GetRunConfig(o)
  /\ held' = [held EXCEPT ![o] = document]
  /\ UNCHANGED <<document, cache, loaded>>

\* The invocation puts the raw document; a SET that fails may be applied.
WarmConfig(o) ==
  /\ PutConfig(o)
  /\ \/ cache' = held[o]
     \/ pc'[o] = "fatal" /\ UNCHANGED cache
  /\ UNCHANGED <<document, held, loaded>>

OtherStep(o) ==
  /\ pc[o] \notin {"getRunConfig", "putConfig"}
  /\ Step(o)
  /\ Forget
  /\ UNCHANGED <<document, held, cache>>

ConfiguredStep(o) == ReadConfig(o) \/ WarmConfig(o) \/ OtherStep(o)

\* The 24 hours are over, or Redis is restarted.
Expire ==
  /\ cache # Null
  /\ cache' = Null
  /\ UNCHANGED <<vars, document, held, loaded>>

\* The engine parses a document; a ValidationError ends the process.
Load(doc) ==
  /\ engine = "running" /\ loaded = Null
  /\ LET c == LoadRunConfig(doc)
     IN  IF c = Invalid THEN engine' = "exited" /\ UNCHANGED loaded
                        ELSE loaded' = c /\ UNCHANGED engine
  /\ UNCHANGED <<registryVars, pc, vm, warmed, document, held, cache>>

\* ConfigCache.get_config; a miss leaves the engine to the registry.
LoadCached == cache # Null /\ Load(cache)

\* get_run_config and load_run_config, after a miss or with Redis unreachable.
LoadRegistered == RowExists /\ Load(document)

\* ConfigCache.put_config; a config that names another run goes to that run's key.
Repopulate ==
  /\ engine = "running" /\ loaded # Null
  /\ cache' = IF loaded["run_id"] = RunId THEN ToJson(loaded) ELSE cache
  /\ UNCHANGED <<vars, document, held, loaded>>

\* ConfigCache.put_config by the engine of another run.
OtherEngineCaches ==
  /\ \E d \in Clones : cache' = ToJson(LoadRunConfig(d))
  /\ UNCHANGED <<vars, document, held, loaded>>

\* The summary is that of a run, so it needs the run's config.
WriteSummary ==
  /\ loaded # Null
  /\ EngineWritesSummary
  /\ UNCHANGED configVars

CommandDies ==
  /\ \E o \in Orchestrators : Crash(o)
  /\ UNCHANGED configVars

\* The engine's process ends, with a verdict of its own or without.
EngineEnds ==
  /\ EngineMarksStatus \/ EngineExits
  /\ Forget
  /\ UNCHANGED <<document, held, cache>>

CloudStep ==
  /\ Cloud
  /\ Forget
  /\ UNCHANGED <<document, held, cache>>

ConfiguredNext ==
  \/ \E d \in Documents : Submit(d)
  \/ \E o \in Orchestrators : ConfiguredStep(o)
  \/ Expire \/ OtherEngineCaches
  \/ LoadCached \/ LoadRegistered \/ Repopulate \/ WriteSummary
  \/ CommandDies \/ EngineEnds \/ CloudStep

ConfiguredSpec == ConfiguredInit /\ [][ConfiguredNext]_allVars

\* As in Orchestrator: the poll loop goes on and the cloud finishes its work.
ConfiguredFairSpec ==
  /\ ConfiguredSpec
  /\ \A o \in Orchestrators : WF_allVars(ConfiguredStep(o))
  /\ WF_allVars(CloudStep /\ VmStopped)
  /\ WF_allVars(CloudStep /\ VmDeleted)

-----------------------------------------------------------------------------
(* Properties *)

\* The cache never disagrees with its source (PRD 2, principle 5): what Redis
\* holds means what the row means, whichever of the run's invocations and engines put
\* it there and however late.
CacheAgreesWithRegistry ==
  cache # Null => RowExists /\ LoadRunConfig(cache) = LoadRunConfig(document)

\* Whichever store the engine read, and whoever filled Redis before, it runs the
\* config that was submitted.
EngineRunsSubmittedConfig ==
  loaded # Null => RowExists /\ loaded = LoadRunConfig(document)

\* Also when other runs' documents name this run: what the engine runs is, exactly, the
\* meaning of one document that is in the registry.  No order of loads, writes back, late
\* SETs and expiries combines two of them or loses a field on the way.
EngineRunsConfigOfSomeRow ==
  loaded # Null =>
    \/ RowExists /\ loaded = LoadRunConfig(document)
    \/ \E d \in Clones : loaded = LoadRunConfig(d)

\* No run completes with an inverted range, or with an interval of no ticks (run_simulation
\* computes tick % config.checkpoint_interval_ticks), although nothing looks at a document
\* before an engine loads it (create_run takes any document).
CompletedRunIsValid ==
  status = "completed" =>
    /\ \A r \in Ranges : r \in DOMAIN document /\ document[r][1] <= document[r][2]
    /\ "checkpoint_interval_ticks" \in DOMAIN document =>
         document["checkpoint_interval_ticks"] > 0

Meaning(doc) == IF doc = Null THEN Null ELSE LoadRunConfig(doc)

\* Registry, Redis and engine together are a register that is written once, with a copy:
\* no submission replaces the config of a run, whatever is put into Redis is a copy of
\* it in meaning, and an engine takes its config once and never another one, unless
\* the document of another run names this one.
Register ==
  INSTANCE ConfigRegister
    WITH None <- Null, Refused <- Invalid,
         Values <- {LoadRunConfig(d) : d \in Documents},
         value <- Meaning(document), cached <- Meaning(cache), running <- loaded

ImplementsConfigRegister == Register!Spec
=============================================================================
