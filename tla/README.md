# FREE WILL simulation platform: TLA+ verification

This directory holds TLA+ models of the programs that run one FREE WILL
simulation on Google Cloud, the TLC configurations that check them on small
instances, and TLAPS proofs of what holds for every value of the constants.
Paths in this file are relative to the repository. The models are translated
from the code; a doc is quoted only where the code disagrees with it.

    tlc -config orch_pair.cfg MCConfiguredRun.tla     # model-check one configuration
    tlc -config simulation.cfg MCRepeatedRun.tla
    tlapm OrchestratorProofs.tla                      # check one module of proofs

## 1. The system

A run of the experiment matrix is one row in Cloud SQL, one preemptible Compute
Engine instance, one engine process with a log shipper beside it, and one prefix
in Cloud Storage.

    submitter --create_run--> Cloud SQL: runs, run_summaries, checkpoints
                                 ^    ^                     ^
                       statuses, |    | get_run_config      | write_run_summary,
                       summary?  |    |                     | mark_run_status
     orchestrator (Go) ----------+    |                  engine (Python)
       | PutConfig                    |                   |          |
       v                              |                   | record   | write_checkpoint
     Redis <--------- ConfigCache.get_config              v          v
       | insert, get, delete                        staging file   Cloud Storage
       v                                                  |          ^
     Compute Engine: freewill-run-<run_id>                v          | batches
                                                     log shipper ----+--> Cloud Logging

| Component | Source | State | Operations | Talks to |
|---|---|---|---|---|
| Run registry | `src/go/internal/cloudsql`, `src/python/freewill/storage/run_registry.py`, `src/infra/sql/schema.sql` | tables `runs`, `run_summaries`, `checkpoints` | create, read config, mark status, summary present / write, record checkpoint | orchestrator, engine, submitter; each statement commits by itself |
| Orchestrator | `src/go/cmd/orchestrator/main.go`, `src/go/internal/compute` | only its place in `runOne`; all else is in the registry and the cloud | provision, poll, tear down | registry, Redis, Compute Engine |
| Config cache | `src/go/internal/rediscache`, `src/python/freewill/storage/config_cache.py` | Redis keys with a time to live | put / get config, domain tensors, publish a tick | orchestrator writes, engine reads with a fallback to the registry |
| Event log buffer | `src/python/freewill/storage/event_log.py` | `_pending`, the staging file | `record`, `flush`, `close` | staging file |
| Log shipper | `src/go/cmd/logshipper/main.go`, `src/go/internal/gcs` | `offset`, `batchSeq`, in memory only | poll, ship new lines | staging file, Cloud Logging, Cloud Storage |
| Tick loop | `src/python/freewill/engine` | `SimulationState`, assigned in place | `run_simulation`, `run_tick` | mechanisms, checkpoint store, event log |
| Checkpoint store | `src/python/freewill/storage/checkpoint_store.py` | two objects per checkpoint: npz and parquet | write, read | Cloud Storage |
| Run configuration | `src/python/freewill/config/params.py` | none (frozen) | parse, validate | engine |
| Engine entry point | `src/python/freewill/__main__.py` | none | `main` raises `NotImplementedError` | would connect engine, registry, cache |
| Mechanisms | `src/python/freewill/mechanisms` | none | twelve functions called by `run_tick`, stubs that raise `NotImplementedError` | tick loop |
| Metrics and validation | `src/python/freewill/{metrics,validation}` | none | stubs | nothing yet |
| Infrastructure | `src/infra/terraform` | none | declarations | all |

### What makes each part hard, and what makes it correct

* **Registry.** No statement is conditional on the status it replaces and no two
  statements share a transaction, so a later writer always wins. Correct when a
  completed run has its summary and `ended_at` agrees with the status.
* **Orchestrator.** Some dozen remote calls in a row, none of them undone when
  a later one fails; a call that reports an error may have had its effect; the
  command may die or be repeated; the instance may stop, vanish or be preempted
  between any two calls. Correct when nothing runs that the registry does not
  name, nothing is torn down before the verdict is committed, a normal exit leaves
  no instance, the end of a run is noticed.
* **Event log buffer and shipper.** Two processes share a file without a lock. The
  reader may come in the middle of a write. Uploads are retried after failures that
  may have stored the object; after a restart the names of the objects are used
  again. Correct when a crash costs at most one batch, no event is passed over,
  nothing is taken out of the archive again, and a closed log is archived.
* **Tick loop, mechanisms, checkpoints.** The instance is preemptible, a checkpoint
  is two objects, the state is assigned in place by a dozen calls, a repeated run
  replaces the objects of the earlier ones. Correct when at any death a complete
  checkpoint of this attempt is at most one interval behind and holds the state of
  one tick, and when no mechanism reads a value of the tick before that is
  recomputed in every tick.
* **Configuration and cache.** A document goes from the submitter to the engine through
  two stores, several conversions and several writers, and nobody validates it before an
  instance is paid for. The row and the readers of Redis go by the run's id, one of the
  writers by the id inside the document. Correct when the cache means what the row means,
  the engine runs what was submitted, and no invalid run completes.
* **All on one instance.** The command deletes the machine on which the shipper still
  works. Correct when a closed log is archived whatever becomes of the command; see
  section 6 for what the teardown does to it.

## 2. Modules

| Module | Models | Extends or instantiates |
|---|---|---|
| `RunRegistry` | the rows of one run and each SQL statement on them | |
| `Orchestrator` | `runOne`, `waitForCompletion`, the instance and the engine as seen from the cloud | `RunRegistry`; implements `RunLifecycle` |
| `RunLifecycle` | abstract: the life of a run as the experimenter sees it | |
| `RunConfig` | the schema of `params.py`, as operators on documents | |
| `ConfiguredRun` | the config document on its way from the submitter to the engine | `Orchestrator`, `RunConfig`; implements `Orchestrator`, `ConfigRegister` |
| `ConfigRegister` | abstract: a value written once, a copy of it, a reader | |
| `StagingFile` | byte positions in the JSON-lines file | |
| `EventLogBuffer` | the writer of the file | `StagingFile` |
| `LogShipper` | the reader of the file and its two sinks | `StagingFile` |
| `EventPipeline` | writer and reader together | `EventLogBuffer`, `LogShipper`; implements `DurableLog` |
| `DurableLog` | abstract: an append-only log with a durable copy | |
| `RunPlatform` | command, instance, engine, buffer and shipper together | `EventPipeline`, `O == INSTANCE Orchestrator`; implements `Orchestrator` and `DurableLog` |
| `SimulationRun` | `run_simulation`, `run_tick`, the mechanism calls, `write_checkpoint` | |
| `RepeatedRun` | several attempts of one run that overwrite each other's checkpoints | `SimulationRun`; implements `PeriodicCheckpoints` |
| `PeriodicCheckpoints` | abstract: progress that is never far from what is saved | |
| `MC*` | values of the constants for TLC | one of the above |
| `*Proofs` | theorems | one of the above, `TLAPS` |

Definitions marked "Mutant" are deliberately broken variants of the definition
that follows them. None is used by a specification; each one, put in the
place of the original, makes a run fail, which shows that the run's property
depends on that piece of the code.

### RunRegistry and Orchestrator

Every SQL statement of both clients names one `run_id`, so the model has the rows of one run:
`status` (with `NoRow` before `create_run`), `computeInstance`, `endedAt` (only
whether it is set) and `hasSummary`. `MarkRunStatus(s, name)` is the UPDATE that
the Go and the Python client share: the status is replaced without a condition,
the name only when one is given (COALESCE), `ended_at` is stamped on a terminal
status and never cleared.

An invocation of the command is its `pc`, named for the remote call it makes
next. Everything the code does between two remote calls belongs to the action
of the call before. Several invocations may exist for the one run.

| Action | Code (`src/go/cmd/orchestrator/main.go` unless said otherwise) |
|---|---|
| `GetRunConfig` | opening the clients, `GetRunConfig`; `pgx.ErrNoRows` is an error |
| `PutConfig` | `rediscache.PutConfig` |
| `MarkProvisioning`, `MarkRunning`, `MarkCreateFailed` | the UPDATEs of `runOne`; the error of the last is dropped |
| `InsertInstance`, `InsertWait` | `compute.CreateInstance`: the request, then the wait for its operation |
| `HasRunSummary`, `GetInstance` | the two halves of one poll |
| `MarkCompleted`, `MarkFailed` | the UPDATE that ends the polling |
| `DeleteInstance`, `DeleteWait` | `compute.DeleteInstance`: the request, then the wait |
| `Crash` | the process dies; the context is `context.Background()`, nothing cancels it |

`Faults` says which services may fail. A call that fails may have had its
effect: an UPDATE may have been committed, a SET applied, an insert or a delete
accepted. The environment is nondeterministic: somebody submits the run, the
engine writes its summary at any time while it lives, may report its own verdict
(`EngineReports`; `run_registry.mark_run_status` offers it, `__main__` is a stub),
may exit with the instance still up; the instance may be preempted
(`VmStopping`, `VmStopped`) or removed by somebody else (`VmVanishes`).
Preemptible instances do not restart by themselves (`src/go/cmd/orchestrator/main.go:123`;
`automatic_restart = false` in `src/infra/terraform/compute.tf:13`).

`RunLifecycle` is what all of this amounts to: a status that advances along one path or
to a verdict, a machine that comes up only while the row announces it, a summary
that only the machine produces. The refinement mapping takes `vm # "absent"` for the
machine and `hasSummary` for the report. One call never moves the row and the
machine at once.

### RunConfig and ConfiguredRun

`RunConfig` has the fields of `params.py` with their bounds (`Admitted`), the
defaults (`Completed`), the model validator (`ValidRanges`) and the two conversions:
`LoadRunConfig` is `model_validate` (missing key, value out of bounds, inverted range:
`Invalid`; unknown keys are dropped, and by `Parsed` those inside `beta_shape` too),
`ToJson` is `to_json`, which writes every field.
Documents are functions from keys to values. Floats are counted in tenths, and one
integer stands for the infinite float: pydantic writes it as `null`.

`ConfiguredRun` gives the steps of `Orchestrator` a document each: `Submit` stores it
unvalidated (`create_run`), `ReadConfig` and `WarmConfig` take it through an invocation
into Redis, `Expire` is the 24-hour time to live, `LoadCached` and `LoadRegistered` are
the engine's two sources. The entry point that would call the two stores is a stub, so the
engine may read either first and may write Redis whenever it has loaded; what it reads and
what it writes to the registry is taken to be that of the run it is started for. A
`ValidationError` ends the process. `CommandDies`, `EngineEnds` and `CloudStep` are what
else happens in `Orchestrator`; the last two make the engine forget its config.

`ConfigCache.put_config` names its key after the `run_id` inside the config, and
`create_run` stores a document under a `run_id` that it does not compare with that one. So
`Repopulate` writes this run's key only when the config says `RunId`, and
`OtherEngineCaches` is the engine of another run whose config says so: `OtherDocuments` are
the documents of other runs, `Clones` the valid ones among them that name this run, like a
copy in which nobody changed the id. A config of this run that names another run goes to
that run's key, which the model does not have.

Documents whose loaded form has an infinite float are excluded by `DocumentsAssumption`:
`create_run` writes with `json.dumps`, and `jsonb` refuses the `Infinity` it produces.

`ConfigRegister` is what the two stores promise together: a value that is written once, a
copy that may be made and lost at any time and never differs from it, a reader that takes
the value or nothing, once in its life, and never a refused one. They keep the promise as
long as `Clones` is empty; `orch_copied_config` shows that they break it otherwise, and
`EngineRunsConfigOfSomeRow` says what is left. The mapping reads both
stores through `Meaning`, what a document loads as, since Redis holds the submitted text or
the one an engine wrote.

### StagingFile, EventLogBuffer, LogShipper, EventPipeline

The n-th line of the file is the n-th event recorded, so a byte position is a
pair: whole lines, and bytes of the next line. `LineWidth` bytes are the JSON text
and one byte is the newline. That is enough to tell apart a whole line, a
line whose newline is missing (Go's scanner returns it and it parses) and a torn
line (the scanner returns it and it does not parse).

`Record` appends to `_pending` and starts a flush at `flush_every`. A flush is
`Write` (the file grows to any place where a write may stop) until everything is
there, then `EndFlush`. `TornVisible` chooses the platform: FALSE means that the
file is seen to end only where `f.write` hands over a string (after a JSON text or
after a newline); TRUE means that any prefix may be seen, which is what a write
larger than the text layer's buffer gives. `Crash` is the death of the process,
or an event that `to_json` cannot serialize, in the middle of a flush or outside.

The shipper's poll is `Scan`, `FlushLogs` and `Upload`, with
`FlushLogsFails` and `UploadFails` (the object may exist all the same) leading
back to the poll loop with the old offset. `AfterScan` has the code's arithmetic:
one byte for the newline after every token, also after a last token that has
none. A poll in which nothing parses leaves the offset where it is. `Restart` loses
`offset` and `batchSeq`. `Rejected` are the events whose line Go refuses: Python's
`json.dumps` writes `NaN` and `Infinity`, `json.Unmarshal` does not take them.
`TooLong` are the events whose line is above the scanner's 1 MB: a scan that meets one
whole must fail (`Jams`), one that meets a piece of it may (`MayJam`), and then
`ScanFails`: the offset stays, although Cloud Logging may already have what was read.

`DurableLog` is the promise: a log that only grows, and a copy that is at every moment
complete up to some event and never smaller than before. It is implemented with
`length <- WholeLines` and `kept <- Archived`; objects, names, offsets, retries and
restarts disappear.

### RunPlatform

The command and the cloud (`PlatformStep`), the engine's buffer (`Simulate`), the shipper
beside it (`Ship`) and the summary (`Summarize`). Three things couple the parts: a process
that ends, for whatever reason, takes the buffer with it (`BufferFollows`); the staging
file is on the boot disk, which goes with the instance (`DiskFollows`; `AutoDelete` in
`src/go/internal/compute`); and the shipper works only while the instance is up. The engine
closes its buffer before it writes its summary: the entry point is a stub, and this is the
order that treats the log best. There is at most one invocation, hence one instance and
one staging file (`RunPlatformAssumption`).

Once the disk is gone the file says nothing of what was recorded, so what holds of
`EventPipeline` is said of the platform in two parts: while there is an instance a dead
process costs at most one batch (`LossIsBounded`), and at all times the archive is the
durable copy of a log of what was *recorded*, which does not shrink when the disk goes
(`RunLog`, with `length <- recorded`).

### SimulationRun and RepeatedRun

Each of the twelve mechanisms is a record: what it reads of the state, what its result is
assigned to. `Calls` lists the calls of `run_tick` in order; `stamp` records the tick each
part of the state belongs to. A mechanism that is not implemented raises, and nothing
catches it. `phase` is the statement of `run_simulation`; `UploadNpz` and `UploadParquet`
are the two uploads of `write_checkpoint`. `Dies` covers preemption and every failed
upload. The npz holds grid positions and personal affinity only: the code leaves B and T to do.

`RepeatedRun` starts the same run again after each end (`Rerun`): nothing looks for a
checkpoint to go on from, and `upload_from_file` replaces the objects of earlier attempts
one by one. The generator of the engine gets no seed from the configuration, so two
attempts compute different states, and `npzBy` and `parquetBy` remember who wrote what.
`Torn` are the checkpoints from which `read_checkpoint` would return tensors of
one attempt and coefficients of another, `Own` those whose two objects the present attempt
wrote.

`PeriodicCheckpoints` is the promise of the pair of `run_simulation` and
`write_checkpoint`: an attempt counts a tick only when that leaves it within one interval of
something it saved, saves only the tick it is at, and loses nothing of that until the next
attempt. It is implemented with `progress <- tick` and `saved <- Own`; mechanisms, the two
objects and what earlier attempts left disappear.

## 3. Runs

| Run | Constants | Properties | Shows | States |
|---|---|---|---|---|
| `orch_single` | 1 invocation, all faults, silent engine, 2 documents, another run whose document names this one | `DoneMeansReclaimed`, `EndedAtAgreesWithStatus`, `StatusMovesForward`, `TeardownAfterVerdict`, `ImplementsLifecycle` | one invocation, whatever fails, writes a consistent row, tears down only after the verdict, and implements `RunLifecycle` | 1514 |
| `orch_pair` | 2 invocations, all faults, reporting engine, 2 documents, another run whose document names this one, symmetric | `TypeOK`, `CompletedHasSummary`, `InstanceIsRegistered`, `EngineRunsConfigOfSomeRow`, `TeardownIsRecorded` | overlapping invocations do not break what the analysis and a clean-up by hand rely on, none tears an instance down before its run has an end time, and no order of writes to Redis makes a config that nobody submitted | 41499 |
| `orch_live` | 2 invocations, 6 documents (3 invalid, 1 naming another run), other runs that name themselves, failing and expiring Redis, fair | `CacheAgreesWithRegistry`, `EngineRunsSubmittedConfig`, `CompletedRunIsValid`, `EndIsNoticed`, `ImplementsConfigRegister` | the engine runs what was submitted, the stores implement `ConfigRegister`, and a run that ends while it is polled is torn down | 37386 |
| `events_whole` | 6 events, flush every 2, event 2 rejected, event 6 too long, 1 restart, whole writes, fair | `BoundedCrashLoss`, `NothingSkipped`, `ArchiveIsOrdered`, `QuietMeansArchived`, `ClosedLogIsArchived`, `ImplementsDurableLog` | no event is passed over; nothing is archived twice before a restart; a crash costs at most a batch; a closed log is archived, and is so when the shipper finds nothing more; the pipeline implements `DurableLog` | 16835 |
| `events_restart` | 5 events, flush every 2, lines of 3 bytes, event 2 rejected, event 5 too long, 2 restarts, torn writes | `TypeOK`, `ArchivedIsLogged`, `OneSkipPerObject`, `ArchiveStable` | retries and restarts with the same object names never lose an archived event, and torn reads pass over at most one event for every object but the first | 28623 |
| `simulation` | starts 0..2, lengths 1..5, intervals 1..4, three runs with a stub, 3 attempts each | `TypeOK`, `BoundedRollback`, `CheckpointIsOfItsTick`, `ParquetAfterNpz`, `ReturnedRunIsComplete`, `StubLeavesNoTick`, `OneTornPerRetry`, `OwnCheckpointIsNear`, `ReturnedRunIsWhole`, `NothingStaleIsRead`, `ImplementsPeriodicCheckpoints` | which checkpoints exist when an attempt returns, raises or dies, which mix two attempts, that an attempt that returns has mended them all, and that no mechanism reads a stale value | 106454 |
| `platform_log` | 1 invocation, all faults, 3 events, flush every 2, 1 restart of the shipper, fair | `LossIsBounded`, `ImplementsRunLog`, `LogOutlivesCommand`, `ArchiveIsFinal` | a dead process costs at most one batch while the instance exists; the archive is a durable copy also after the disk is gone; a closed log is archived whatever becomes of the command, unless the instance goes first; after an exit without error nobody writes the archive any more | 103211 |
| `orch_copied_config`, `orch_failed_with_summary`, `orch_orphan`, `events_torn`, `platform_teardown` | see the cfg | one each | section 6: TLC's counterexample to what a comment or a document says | |

### Bounds, and why they are enough

* The runs of the command that pass are runs of `ConfiguredRun`, whose behaviours are
  behaviours of `Orchestrator` (`ConfiguredRunIsOrchestrated`); the documents add an engine
  that cannot finish without a valid config.
* *Two invocations.* The only coupling between invocations is through the registry,
  the instance and Redis, each of which holds one value. Two are enough for an
  overlap and for an invocation after the crash of another; a third one could only
  repeat what the second does. The proofs do not have the bound.
* *One run.* No SQL statement, instance name, object name or reader of Redis mentions two
  runs. The one thing that does is the key of `ConfigCache.put_config`; what other runs do
  to this one through it is in the model (`OtherDocuments`, `OtherEngineCaches`).
* *Six documents* (`SomeDocuments`). Only required fields; all fields with two at their
  bounds and unknown keys outside and inside `beta_shape`; an inverted range; an interval of
  no ticks; a missing field; one that names another run. Loading and writing them takes
  every branch of the schema that the model has. `orch_pair` and `orch_copied_config` need
  two, one that names this run and one that does not, and a third document of another run
  that differs from both (`WithCopy`). `Infinity` is 1000 so that it is above every bound.
* *`LineWidth` 1, 2 and 3.* Two gives an empty prefix, a torn one and a complete one
  without newline; three gives two different torn ones; one suffices where torn writes are off.
* *`FlushEvery` 2, `MaxEvents` 3 to 6.* A batch and a last one that is not full; more than
  two batches, and batches of the shipper that span flushes, where the pipeline is by itself.
* *`MaxRestarts` 1 and 2.* Two give a restart in the middle of reshipping.
* *Starts, lengths, intervals.* An interval that divides the start, the end, both
  or neither; one longer than the run.
* *Three attempts.* Two torn checkpoints at once need three.
* Object names are numbers: `events-%06d` is injective and the model needs no more.

Deadlock checking is off everywhere because the programs end: the command exits, the
engine closes its log and the shipper finds nothing new, the last attempt ends.

### Fairness

* `Orchestrator`, `ConfiguredRun`: weak fairness of each invocation's next call. The loop is driven by
  a ticker and each call returns. `VmStopped` and `VmDeleted` are weakly fair: the
  cloud finishes a stop or a deletion that it has begun. The engine, the submitter, faults,
  preemption and the expiry in Redis get none.
* `EventPipeline`: weak fairness of `Write`, `EndFlush` (a flush that has begun is
  ordinary code) and `Scan` (the ticker). `FlushLogs` and `Upload` are strongly fair:
  they are tried at every poll, and a service that is tried for ever does not refuse
  for ever. The engine may stop recording and need not close the log.
* `RunPlatform`: the same for `Scan`, `FlushLogs` and `Upload`, conjoined with `Ship` and so
  only as long as the instance is up. The command and the engine get no fairness at all:
  `LogOutlivesCommand` must not depend on them.
* `SimulationRun` and `RepeatedRun` have safety properties only.

## 4. Proofs

The proof modules hold for every value of the constants that the named assumptions admit.

| Theorem | Says | Assumes |
|---|---|---|
| `OrchestratorProofs!TypeCorrect` | `[]TypeOK` | `OrchestratorAssumption` |
| `CompletedRunsHaveSummaries` | `[]CompletedHasSummary` | the same |
| `InstancesAreRegistered` | `[]InstanceIsRegistered` | the same |
| `ExitMeansReclaimed` | `[]DoneMeansReclaimed` | one invocation |
| `TeardownFollowsVerdict` | `TeardownAfterVerdict` | one invocation |
| `TeardownsAreRecorded` | `TeardownIsRecorded` | `OrchestratorAssumption` |
| `EndTimeAgrees` | `[]EndedAtAgreesWithStatus` | one invocation, silent engine |
| `StatusOnlyMovesForward` | `StatusMovesForward` | one invocation, silent engine |
| `OrchestratorImplementsLifecycle` | `Spec => ImplementsLifecycle` | one invocation, silent engine |
| `ConfiguredRunProofs!RoundTrip` | a config written to JSON and loaded again is the same, or, with an infinite float, refused | `RunConfigAssumption` |
| `ConfiguredRunIsOrchestrated` | `ConfiguredSpec => Spec` of `Orchestrator` | |
| `EngineRunsOneDocument` | `[]EngineRunsConfigOfSomeRow` | `DocumentsAssumption` |
| `CacheIsTrue` | `[]CacheAgreesWithRegistry` | `DocumentsAssumption`, `Clones = {}` |
| `EngineIsConfigured` | `[]EngineRunsSubmittedConfig` | the same |
| `CompletedRunsAreValid` | `[]CompletedRunIsValid` | the same |
| `ConfigIsRegister` | `ConfiguredSpec => ImplementsConfigRegister` | the same |
| `ConfiguredRunImplementsLifecycle` | `ConfiguredSpec => ImplementsLifecycle` | one invocation, silent engine |
| `EventPipelineProofs!TypeCorrect` | `[]TypeOK` | the assumptions of `EventPipeline` |
| `CrashLossIsBounded` | `[]BoundedCrashLoss` | the same |
| `ArchivedEventsAreLogged` | `[]ArchivedIsLogged` | the same |
| `ArchiveNeverShrinks` | `ArchiveStable` | the same (torn writes, any number of restarts) |
| `ArchiveStaysOrdered` | `[]ArchiveIsOrdered` | the same |
| `SkipsAreFew` | `[]OneSkipPerObject` | the same (torn writes, any number of restarts) |
| `NothingIsSkipped` | `[]NothingSkipped` | `~TornVisible` |
| `QuietPipelineIsDone` | `[]QuietMeansArchived` | `~TornVisible` |
| `PipelineImplementsDurableLog` | `Spec => ImplementsDurableLog` | `~TornVisible` |
| `RunPlatformProofs!PlatformImplementsOrchestrator` | `PlatformSpec => O!Spec` | |
| `PlatformLossIsBounded` | `[]LossIsBounded` | the assumptions of `EventPipeline`, `RunPlatformAssumption` |
| `PlatformSkipsAreFew` | `[]OneSkipPerObject` of the platform | the same |
| `PlatformArchiveNeverShrinks` | `ArchiveStable` of the platform | the same |
| `PlatformImplementsRunLog` | `PlatformSpec => ImplementsRunLog` | the same, `~TornVisible` |
| `ArchiveEndsWithCommand` | `ArchiveIsFinal` | `RunPlatformAssumption` (at most one invocation) |
| `SimulationRunProofs!TypeCorrect` | `[]TypeOK` | `ConfigsAssumption` |
| `RollbackIsBounded` | `[]BoundedRollback` | the same |
| `CheckpointsAreOfTheirTick` | `[]CheckpointIsOfItsTick` | the same |
| `ReadsAreFresh` | `NothingStaleIsRead` | the same |
| `ParquetFollowsNpz` | `[]ParquetAfterNpz` | the same |
| `ReturnMeansComplete` | `[]ReturnedRunIsComplete` | the same |
| `StubsLeaveNoTick` | `[]StubLeavesNoTick` | the same |
| `RepeatedRunProofs!OwnRollbackIsBounded` | `[]OwnCheckpointIsNear` | `ConfigsAssumption`, `MaxAttemptsAssumption` |
| `TornCheckpointsAreFew` | `[]OneTornPerRetry` | the same |
| `ReturnMeansWhole` | `[]ReturnedRunIsWhole` | the same |
| `CheckpointsArePeriodic` | `RepeatedSpec => ImplementsPeriodicCheckpoints` | the same |
| `RepeatedTypeCorrect`, `RepeatedRollbackIsBounded`, `RepeatedCheckpointsAreOfTheirTick`, `RepeatedReadsAreFresh`, `RepeatedStubsLeaveNoTick`, `RepeatedParquetFollowsNpz`, `RepeatedReturnMeansComplete` | the properties of `SimulationRun` under `RepeatedSpec`, across any number of attempts | the same |

**Orchestrator.** `CompletedHasSummary` alone is not inductive: the UPDATE to
`completed` comes one call after the poll that saw the summary, so the invariant says
that an invocation at `markCompleted` still finds it (`SummarySeen`; no statement
deletes a summary). `InstanceIsRegistered` needs what each invocation has
established before its insert (`Warmed`, `Named`), and that the COALESCE keeps the
name. For one invocation two more invariants are layered on top: `VerdictInv`
(what holds at `delete`, `deleteWait` and `done`) and `RowInv` (which status the row
has at each call). Both fail with two invocations, see section 5. What is left of `TeardownAfterVerdict`
for any number of them is `TeardownIsRecorded`: the status may be taken back, the end time
may not (`EndedAtStays`), so an invocation at `delete` or behind it still finds the stamp
of its own UPDATE (`RecordedInv`). The refinement uses
`RowInv` for the row, and `EngineIsOnVm` for the summary: only an engine on an existing
instance writes one.

**ConfiguredRun.** `StepIsOrchestrated` maps each step to one of `Orchestrator` or a
stutter, so the theorems above hold with documents too. `ConfigInv` follows the document:
an invocation about to fill Redis holds the row's document; Redis holds that document, what
an engine that loaded it wrote, or what an engine wrote for one of `Clones`; and a summary
comes from an engine whose document is valid. It is inductive whatever `Clones` is, which
gives `EngineRunsOneDocument`; with `Clones = {}` there is one document to choose from, and
the four theorems behind it follow. The clause about summaries carries `CompletedRunIsValid` together with `CompletedHasSummary`;
that what an engine wrote to Redis still means what the row means is `RoundTrip`. The
refinement of `ConfigRegister` needs no more than `ConfigInv` before and after a step: what
Redis holds afterwards is nothing (`Expire`) or means what the row means (`Cache`).

**EventPipeline.** `WriterInv` bounds what is not in the file by `_pending`.
`ArchiveStable` needs the whole of `IInv`. An upload replaces an object of the same
name, so an archived event is safe only if either its object will not be named again
or the event lies behind the offset and is shipped again (`KeptInv`), and then it
must be in the batch at hand (`BatchInv`), which holds because an archived line was
whole when it was scanned and lines stay whole (`ArchiveInv`). `NothingIsSkipped`
adds that without torn writes the offset is at the start of a line whose
predecessors are whole (`WholeInv`), `ArchiveStaysOrdered` that the objects before
`batchSeq` hold what lies behind the offset (`OrderInv`), and the refinement that archive
and batch are each complete up to some event (`PrefixInv`).
`OneSkipPerObject` is proved through a finite set that covers whatever the offset has
passed without archiving it, with fewer members than `batchSeq` (`SkipInv`). Only an
upload that succeeds moves the offset, and it adds at most the line in which the poll began
(`UploadSkips`): the lines behind that one are in the batch or rejected
(`AfterScanInBatch`).
`QuietMeansArchived` needs that a closed buffer has nothing pending (`FlushedInv`) and that
an offset at the last line leaves no event behind (`WholeInv`).

**RunPlatform.** As long as there is an instance, a step of the platform is a step of the
pipeline or none, the end of a process being a `Crash` of the buffer (`StepIsPipeline`). The
end of the instance is not one: the file is gone, and no step of the pipeline takes it away.
So `DiskInv` says that the pipeline's invariants hold while the instance exists, and that
nothing has been recorded or shipped before it first does; with a single invocation it exists
once, and nothing but the archive counts afterwards (`LogSteps`, which needs that the file never
holds more than was recorded, `FileBehindRecord`). `ArchiveIsFinal`
is about both at once: an invocation that is done has waited for the deletion
(`DoneMeansReclaimed`), nothing boots an instance after it because it is the only one, and
the shipper takes no step without an instance. With a second invocation it would be false.

**SimulationRun.** `Within(d)` says that a complete checkpoint is at most `d` behind.
Between checkpoints the distance is bounded by `tick % interval`, which grows by
one or wraps to zero exactly when a checkpoint is due (`NextRemainder`). An upload
never takes a complete checkpoint away (`UploadsKeep`). `CountInv` says how `tick`,
`iteration` and `phase` go together; on it stand `SavedInv` (the saved parts belong to the
tick that is counted, except between their assignment and the end of the tick),
`ObjectsInv` (between two checkpoints the objects are exactly those that are due) and
`StubInv` (a stub ends the run in its first tick).

**RepeatedRun.** `OwnInv` repeats the argument of `IInv` for the objects that the attempt
itself wrote. `TornInv` counts: all torn checkpoints but one were torn by the attempts
between the first and this one, and the last is the one whose upload is at hand or was
when the attempt died. Completing a checkpoint makes it the attempt's own.

The properties of `SimulationRun` are proved again for `RepeatedSpec`, where the bucket is
not empty at the start. Two of them need more than before: that every object is of a tick
the run owes a checkpoint for, and has one author, is now said of all attempts at once
(`StoreInv`); and what a return promises rests on the present attempt having written
everything due up to its tick itself (`DueInv`), so that what the others left is replaced
(`UploadsMakeOwn`). The refinement of `PeriodicCheckpoints` maps an upload to `Save` when it
makes the checkpoint the attempt's own, to a stutter otherwise, and the end of a tick to
`Tick`, whose guard is the bound in `OwnInv`.

*Model-checked only:* the liveness properties `EndIsNoticed`, `ClosedLogIsArchived` and
`LogOutlivesCommand`. Liveness under fairness and `ENABLED` are out of the prover's reach.
The runs are fair where they check one of these; no theorem needs
fairness. The theorems about `SimulationRun` by itself are for one attempt that finds an empty
bucket; those of `RepeatedRunProofs` are for the specification that the run `simulation`
checks. `QuietMeansArchived`, `NothingSkipped` and `ImplementsDurableLog` are proved, as they
are checked, for a reader that sees no torn line; with one they are false (finding 4). `BoundedCrashLoss` is
about the death of the process, as `EventLogBuffer` can promise it; what the end of the
instance costs is everything that is not archived, and `ImplementsRunLog` says no more.

## 5. Where the properties say "one invocation" or "silent engine"

Each of these qualifications is a fact about the code. No call checks
the status it replaces, and the name of the instance is the same for every
invocation of a run:

* Two invocations: the second one's insert is refused because the name is taken
  (`src/go/internal/compute/compute.go:94-96`), and `main.go:130` then marks the run
  `failed` while the first one's instance runs. `ended_at` is stamped by that and
  stays (`src/go/internal/cloudsql/cloudsql.go:97`) when the status moves on. Any later
  invocation's UPDATE to `provisioning` may replace a committed verdict.
* A reporting engine: `main.go:133` writes `running` after the engine may already
  have reported its verdict.

## 6. Findings

TLC shows a counterexample for each of these:

1. `orch_failed_with_summary`: a poll asks for the summary first and for the
   instance second (`src/go/cmd/orchestrator/main.go:164-177`). An engine that writes its
   summary in between, on an instance that then stops or vanishes, has its run marked
   `failed` with the summary in the registry. The header (line 12-13) reserves `failed` for
   "the instance disappears without a summary row".
2. `orch_orphan`: an error of any call after the insert (for instance the UPDATE to `running`,
   line 133) ends the command without `DeleteInstance`. The header lists "tear the instance
   down" among the duties (line 14).
3. `orch_copied_config`: `put_config` goes by the `run_id` inside the config
   (`src/python/freewill/storage/config_cache.py:33`), its readers and the Go client by the
   run's own, and `create_run` (`src/python/freewill/storage/run_registry.py:54-63`) does not
   compare the two. The engine of a run whose document was copied from another one, id
   included, replaces that one's cached config, and the next engine of that run loads it.
   The header (line 4-5) says that "every value here must be reconstructable from Cloud SQL
   (config)"; `src/python/freewill/config/params.py:8-9` calls the `config` column "the source
   of truth for a submitted run". A valid document of another run in the cache also
   completes a run whose own document is invalid.
4. `events_torn`: with a torn last line behind whole ones the offset moves into the line
   being written (`src/go/cmd/logshipper/main.go:140`), and that event is never shipped,
   although the header calls the archive "full-fidelity".
5. `platform_teardown`: nothing fails, and the instance of a completed run is deleted
   (`src/go/cmd/orchestrator/main.go:141`), with the staging file on its boot disk, before the
   shipper has shipped the last events. The summary is enough for the teardown, the shipper
   polls every five seconds, and neither knows of the other.

Seen in the code, without a run of their own:

* Every error of `Get`, not only 404, is taken for a vanished instance
  (`src/go/cmd/orchestrator/main.go:173-175`, "Instance is gone with no summary written"); a
  transient one fails a healthy run and deletes its instance. `GetInstance` has this step.
* The comment of `waitForCompletion` (`main.go:144-145`) says that polling ends when the run's
  row reaches a terminal status set by the engine. The loop never reads `runs.status`: an
  engine that reports a failure and exits on an instance that stays up is polled for ever.
* A summary of an earlier attempt completes a new attempt at its first poll
  (`main.go:168`).
* `src/go/cmd/logshipper/main.go:56` parses a batch size that nothing reads; line 7 promises a
  tick label that the entries do not have; a line above 1 MB (line 134) stops all
  shipping behind it (`ClosedLogIsArchived` excepts such logs); a `NaN` in an event makes
  its line malformed for Go.
* A `RunConfig` with an infinite `tau_still`, range bound or shape is valid, but `to_json`
  writes `null` for it and `from_json` refuses that (`RoundTrip`). No such document reaches
  the registry, whose `jsonb` column refuses it first.
* `src/go/cmd/orchestrator/main.go:8` says that the domain's DAG is warmed in Redis; only
  the config is.
* Checkpoints lack B and T (`src/python/freewill/engine/tick_loop.py:112-123`), and nothing calls
  `record_checkpoint`.

## 7. Not modelled, and why

* What nothing calls: `record_checkpoint` and `list_checkpoints` with the `checkpoints`
  table, the domain tensors and the live-tick channel of the config cache, `to_dict`,
  `smoothstep`, `reluctance`, `fuzzy_resolution`. A model would invent their callers.
* The mathematics of the mechanisms, metrics, validation: every function raises
  `NotImplementedError`, so there is nothing to translate beyond
  the order of the calls and what they are given.
* The entry point's order of calls: `main` raises. The models leave the order open
  (`ConfiguredRun`) or take the one kindest to the property (`RunPlatform`).
* Terraform: declarations. What they imply is in the environment of `Orchestrator`.
* Payloads: event fields, labels, tensors, SQL text, JSON layout; pydantic's coercions between
  types, NaN and negative infinity in a document; connections and credentials.
* The second flush after an event that `to_json` cannot serialize: `run_simulation` lets
  the exception end the run, so nothing reaches it.

## 8. Plan

Done: orchestrator, registry and life cycle; event pipeline and durable log; configuration
and cache; simulation, checkpoints and repeated runs; the platform as a whole; theorems
about each of them.

Left, and worth doing once the code has it:

1. The entry point: replace the open order of the engine's calls by the one `main`
   implements, and compose `SimulationRun` with the platform.
2. Resuming from a checkpoint: `Rerun` would start from `read_checkpoint`, and
   `OneTornPerRetry` becomes a question of what is resumed from.
3. The index in the `checkpoints` table with its UNIQUE (run_id, tick), as soon as something
   calls `record_checkpoint`; `run_simulation` writes its last checkpoint twice when the
   interval divides its last tick.
4. Several runs submitted as a batch, which `main.go` leaves to do.
