-------------------------- MODULE RunPlatformProofs --------------------------
(***************************************************************************)
(* The platform implements the orchestrator.  It does not implement the    *)
(* pipeline, because the staging file goes with the instance; what of the  *)
(* pipeline holds until then, and what holds of the archive after it.      *)
(***************************************************************************)
EXTENDS RunPlatform, EventPipelineProofs

\* What is proved of the orchestrator, for the command that has an instance of its own.
OP == INSTANCE OrchestratorProofs WITH engine <- process

\* While there is a disk, the log's path takes only steps of EventPipeline: the end of a
\* process, however it comes about, is a crash of the buffer or changes nothing.
LEMMA StepIsPipeline ==
  ASSUME IInv, vm' # "absent", [PlatformNext]_allVars
  PROVE  [Next]_vars
<1>1. CASE PlatformStep
  <2>1. UNCHANGED <<file, recorded, pending, shipperVars>>
    BY <1>1 DEF PlatformStep, DiskFollows
  <2>2. CASE engine' = engine
    BY <2>1, <2>2 DEF vars, bufferVars
  <2>3. CASE engine' # engine
    <3>1. engine # "closed" /\ engine' = "crashed"
      BY <1>1, <2>3 DEF PlatformStep, BufferFollows
    <3>2. engine \in {"running", "flushing", "closing"}
      BY <2>3, <3>1 DEF IInv, TypeOK, BufferTypeOK
    <3>3. Crash
      BY <2>1, <3>1, <3>2 DEF Crash
    <3>4. QED
      BY <2>1, <3>3 DEF BufferNext, Next
  <2>4. QED
    BY <2>2, <2>3
<1>2. CASE Summarize
  BY <1>2 DEF Summarize
<1>3. CASE Simulate
  BY <1>3 DEF Simulate, BufferNext, Next
<1>4. CASE Ship
  BY <1>4 DEF Ship, Next
<1>5. CASE UNCHANGED allVars
  BY <1>5 DEF allVars
<1>6. QED
  BY <1>1, <1>2, <1>3, <1>4, <1>5 DEF PlatformNext

\* The command and the cloud take only steps of Orchestrator.
LEMMA StepIsOrchestrator ==
  ASSUME [PlatformNext]_allVars
  PROVE  [O!Next]_cloudVars
<1>1. CASE PlatformStep
  BY <1>1 DEF PlatformStep, O!Next, O!Environment
<1>2. CASE Summarize
  BY <1>2 DEF Summarize, O!Next, O!Environment
<1>3. CASE Simulate \/ Ship \/ UNCHANGED allVars
  BY <1>3 DEF Simulate, Ship, allVars
<1>4. QED
  BY <1>1, <1>2, <1>3 DEF PlatformNext

\* The command on the platform implements the orchestrator: what runs on the instance it
\* boots adds nothing to what the orchestrator reckons with.
THEOREM PlatformImplementsOrchestrator == PlatformSpec => O!Spec
<1>1. PlatformInit => O!Init
  BY DEF PlatformInit
<1>2. [PlatformNext]_allVars => [O!Next]_(O!vars)
  BY StepIsOrchestrator DEF cloudVars, O!vars, O!registryVars, O!cloudVars
<1>3. QED
  BY <1>1, <1>2, PTL DEF PlatformSpec, O!Spec

-----------------------------------------------------------------------------
(* The log, until the instance goes and after *)

\* The command has not asked for the instance yet.
Fresh ==
  \A o \in Orchestrators :
    pc[o] \in {"getRunConfig", "putConfig", "markProvisioning", "insert"}

\* Before the instance nothing is recorded; without an instance no process runs; as long as
\* there is one, the pipeline is in a state it could have reached by itself.
DiskInv ==
  /\ DOMAIN pc = Orchestrators
  /\ Fresh => Init /\ vm = "absent"
  /\ vm = "absent" => process = "off"
  /\ vm # "absent" => IInv

\* A command that is fresh after a step was so before, and has no instance yet; an
\* instance that comes up does so before anything is recorded; a process needs one.
LEMMA PlatformSteps ==
  ASSUME DiskInv, PlatformStep
  PROVE  /\ DOMAIN pc' = Orchestrators
         /\ Fresh' => Fresh /\ vm' = "absent" /\ process' = "off"
         /\ vm = "absent" /\ vm' # "absent" => Fresh
         /\ vm' = "absent" => process' = "off"
<1> USE DEF DiskInv
<1>1. ASSUME NEW o \in Orchestrators, O!Step(o)
      PROVE  /\ DOMAIN pc' = Orchestrators
             /\ Fresh' => Fresh /\ vm' = "absent" /\ process' = "off"
             /\ vm = "absent" /\ vm' # "absent" => Fresh
             /\ vm' = "absent" => process' = "off"
  <2> DEFINE before == {"getRunConfig", "putConfig", "markProvisioning", "insert"}
  <2>1. Fresh <=> pc[o] \in before
    BY RunPlatformAssumption DEF Fresh
  <2>2. /\ DOMAIN pc' = Orchestrators
        /\ Fresh' <=> pc'[o] \in before
    <3>1. PICK label : pc' = [pc EXCEPT ![o] = label]
      BY <1>1 DEF O!Step, O!Goto, O!Exec, O!GetRunConfig, O!PutConfig, O!MarkProvisioning,
         O!InsertInstance, O!InsertWait, O!MarkCreateFailed, O!MarkRunning,
         O!HasRunSummary, O!GetInstance, O!MarkCompleted, O!MarkFailed,
         O!DeleteInstance, O!DeleteWait
    <3>2. QED
      BY <3>1, RunPlatformAssumption DEF Fresh
  <2>3. CASE O!GetRunConfig(o) \/ O!PutConfig(o) \/ O!MarkProvisioning(o)
    <3>1. UNCHANGED <<vm, process>> /\ pc[o] \in before
      BY <2>3 DEF O!GetRunConfig, O!PutConfig, O!MarkProvisioning, O!cloudVars
    <3>2. QED
      BY <3>1, <2>1, <2>2
  <2>4. CASE O!InsertInstance(o)
    <3>1. pc[o] = "insert" /\ pc'[o] \in {"insertWait", "markCreateFailed"}
      BY <2>4 DEF O!InsertInstance, O!Goto
    <3>2. UNCHANGED <<vm, process>> \/ vm' = "running"
      BY <2>4 DEF O!InsertInstance, O!Boot
    <3>3. QED
      BY <3>1, <3>2, <2>1, <2>2
  <2>5. CASE \/ O!InsertWait(o) \/ O!MarkCreateFailed(o) \/ O!MarkRunning(o)
             \/ O!HasRunSummary(o) \/ O!GetInstance(o) \/ O!MarkCompleted(o)
             \/ O!MarkFailed(o) \/ O!DeleteWait(o)
    <3>1. UNCHANGED <<vm, process>> /\ pc'[o] \notin before
      BY <2>5 DEF O!InsertWait, O!MarkCreateFailed, O!MarkRunning, O!HasRunSummary,
         O!GetInstance, O!MarkCompleted, O!MarkFailed, O!DeleteWait, O!Exec, O!Goto,
         O!cloudVars
    <3>2. QED
      BY <3>1, <2>1, <2>2
  <2>6. CASE O!DeleteInstance(o)
    <3>1. /\ process' = process /\ pc'[o] \notin before
          /\ vm' = vm \/ (vm # "absent" /\ vm' = "deleting")
      BY <2>6 DEF O!DeleteInstance, O!Goto
    <3>2. QED
      BY <3>1, <2>1, <2>2
  <2>7. QED
    BY <1>1, <2>3, <2>4, <2>5, <2>6 DEF O!Step
<1>2. CASE \E o \in Orchestrators : O!Crash(o)
  BY <1>2, RunPlatformAssumption DEF O!Crash, O!Goto, O!cloudVars, Fresh
<1>3. CASE O!SubmitRun \/ O!EngineMarksStatus \/ O!EngineExits
  BY <1>3 DEF O!SubmitRun, O!EngineMarksStatus, O!EngineExits, O!cloudVars, Fresh
<1>4. CASE O!Cloud
  BY <1>4 DEF O!Cloud, O!VmStopping, O!VmStopped, O!VmDeleted, O!VmVanishes, Fresh
<1>5. QED
  BY <1>1, <1>2, <1>3, <1>4 DEF PlatformStep

\* DiskInv is inductive.
LEMMA NextDisk ==
  ASSUME DiskInv, [PlatformNext]_allVars
  PROVE  DiskInv'
<1>1. CASE PlatformStep
  <2>1. ASSUME Fresh
        PROVE  UNCHANGED vars /\ Init
    <3>1. Init /\ process = "off" /\ file = Start
      BY <2>1 DEF DiskInv, Init, BufferInit
    <3>2. QED
      BY <1>1, <3>1 DEF PlatformStep, BufferFollows, DiskFollows, vars, bufferVars
  <2>2. ASSUME Fresh
        PROVE  Init'
    BY <2>1, <2>2 DEF Init, BufferInit, ShipperInit, vars, bufferVars, shipperVars
  <2>3. ASSUME vm' # "absent"
        PROVE  IInv'
    <3>1. IInv
      BY <1>1, <2>3, <2>1, PlatformSteps, InitIInv DEF DiskInv
    <3>2. QED
      BY <2>3, <3>1, StepIsPipeline, NextIInv
  <2>4. QED
    BY <1>1, <2>2, <2>3, PlatformSteps DEF DiskInv
<1>2. CASE Summarize \/ Simulate \/ Ship \/ UNCHANGED allVars
  <2>1. /\ UNCHANGED <<pc, vm>>
        /\ process' = process
    BY <1>2 DEF Summarize, O!EngineWritesSummary, O!cloudVars, Simulate, Ship, cloudVars,
       allVars
  <2>2. CASE vm = "absent"
    <3>1. UNCHANGED vars
      BY <1>2, <2>2 DEF DiskInv, Summarize, O!EngineWritesSummary, Simulate, Ship,
         InstanceUp, allVars
    <3>2. Init => Init'
      BY <3>1 DEF Init, BufferInit, ShipperInit, vars, bufferVars, shipperVars
    <3>3. QED
      BY <2>1, <2>2, <3>2 DEF DiskInv, Fresh
  <2>3. CASE vm # "absent"
    <3>1. IInv'
      BY <2>1, <2>3, StepIsPipeline, NextIInv DEF DiskInv
    <3>2. QED
      BY <2>1, <2>3, <3>1 DEF DiskInv, Fresh
  <2>4. QED
    BY <2>2, <2>3
<1>3. QED
  BY <1>1, <1>2 DEF PlatformNext

\* DiskInv holds in every reachable state.
LEMMA DiskInvariance == PlatformSpec => []DiskInv
<1>1. PlatformInit => DiskInv
  BY DEF PlatformInit, O!Init, DiskInv
<1>2. QED
  BY <1>1, NextDisk, PTL DEF PlatformSpec

\* What a step of the platform is to the log: one of the pipeline while there is a disk, at
\* whose beginning the pipeline is at its own, and otherwise nothing to the shipper and to
\* what is recorded.
LEMMA LogSteps ==
  ASSUME DiskInv, [PlatformNext]_allVars
  PROVE  \/ /\ IInv /\ vm' # "absent" /\ [Next]_vars
            /\ vm # "absent" \/ Init
         \/ vm' = "absent" /\ UNCHANGED <<shipperVars, recorded>>
<1>1. CASE vm # "absent" /\ vm' # "absent"
  BY <1>1, StepIsPipeline DEF DiskInv
<1>2. CASE vm = "absent" /\ vm' # "absent"
  <2>1. PlatformStep
    BY <1>2 DEF PlatformNext, Summarize, O!EngineWritesSummary, O!cloudVars, Simulate, Ship,
       cloudVars, allVars
  <2>2. Init
    BY <1>2, <2>1, PlatformSteps DEF DiskInv
  <2>3. QED
    BY <1>2, <2>2, InitIInv, StepIsPipeline
<1>3. CASE vm' = "absent"
  <2>1. CASE PlatformStep \/ Summarize \/ UNCHANGED allVars
    BY <1>3, <2>1 DEF PlatformStep, Summarize, vars, bufferVars, allVars
  <2>2. CASE Simulate \/ Ship
    BY <1>3, <2>2 DEF DiskInv, Simulate, Ship, InstanceUp, cloudVars
  <2>3. QED
    BY <2>1, <2>2 DEF PlatformNext
<1>4. QED
  BY <1>1, <1>2, <1>3

\* As long as the instance is up, at most one batch of what was recorded is missing from the
\* staging file, whoever ended the engine.
THEOREM PlatformLossIsBounded == PlatformSpec => []LossIsBounded
<1>1. DiskInv => LossIsBounded
  BY FileLacksOneBatch DEF DiskInv, LossIsBounded, InstanceUp
<1>2. QED
  BY <1>1, DiskInvariance, PTL

\* Nothing that is archived is lost when the instance goes, or by a retry or a restart
\* before it, with torn lines too.
THEOREM PlatformArchiveNeverShrinks == PlatformSpec => ArchiveStable
<1>1. DiskInv /\ [PlatformNext]_allVars => [Archived \subseteq Archived']_vars
  BY LogSteps, StepKeepsArchive DEF shipperVars, Archived
<1>2. QED
  BY <1>1, DiskInvariance, PTL DEF PlatformSpec, ArchiveStable

\* Every object but the first passes over at most one event, also when the instance
\* goes in the middle of a poll.
THEOREM PlatformSkipsAreFew == PlatformSpec => []OneSkipPerObject
<1> DEFINE Counted == vm # "absent" => SkipInv
<1>1. PlatformInit => Counted /\ OneSkipPerObject
  BY InitSkip, InitIInv, SkipsCounted DEF PlatformInit
<1>2. DiskInv /\ Counted /\ [PlatformNext]_allVars => Counted'
  BY LogSteps, NextSkip, InitSkip
<1>3. DiskInv /\ Counted /\ vm # "absent" => OneSkipPerObject
  BY SkipsCounted DEF DiskInv
<1>4. DiskInv /\ OneSkipPerObject /\ [PlatformNext]_allVars
        => (vm # "absent")' \/ OneSkipPerObject'
  <2>1. UNCHANGED shipperVars /\ OneSkipPerObject => OneSkipPerObject'
    BY DEF OneSkipPerObject, Skipped, Archived, shipperVars
  <2>2. QED
    BY <2>1, LogSteps
<1> HIDE DEF Counted
<1>5. QED
  BY <1>1, <1>2, <1>3, <1>4, DiskInvariance, PTL DEF PlatformSpec

\* The file never runs ahead of what is recorded, its last line without newline included.
LEMMA FileBehindRecord ==
  ASSUME IInv, WholeLines <= recorded, [Next]_vars
  PROVE  WholeLines' <= recorded'
<1> USE LineWidthAssumption
<1>1. /\ file.line \in Nat /\ recorded \in Nat
      /\ WholeLines \in {file.line, file.line + 1}
  BY DEF IInv, TypeOK, BufferTypeOK, Position, WholeLines
<1>2. CASE Write
  <2>1. PICK n \in file.line .. recorded, k \in Stops :
          /\ n = recorded => k = 0
          /\ file' = At(n, k)
          /\ recorded' = recorded
    BY <1>2 DEF Write
  <2>2. QED
    BY <1>1, <2>1 DEF WholeLines, At
<1>3. CASE file' = file /\ recorded' \in {recorded, recorded + 1}
  BY <1>1, <1>3 DEF WholeLines
<1>4. QED
  BY <1>2, <1>3
     DEF Next, BufferNext, Record, Close, EndFlush, Crash, vars, bufferVars

\* As long as no torn line is visible: whoever ends the instance and whatever fails, the
\* archive is the durable copy of a log of all that was recorded, complete up to some event
\* at every moment and never smaller than before.
THEOREM PlatformImplementsRunLog ==
  ASSUME ~TornVisible
  PROVE  PlatformSpec => ImplementsRunLog
<1> DEFINE Shipped == vm # "absent" => WholeInv /\ PrefixInv /\ WholeLines <= recorded
<1>1. Init => WholeInv /\ PrefixInv /\ WholeLines <= recorded
  BY InitWhole, InitEmpty, LineWidthAssumption
     DEF Init, BufferInit, Start, At, WholeLines
<1>2. PlatformInit => Shipped /\ RunLog!Init
  BY <1>1, InitEmpty DEF PlatformInit, Init, BufferInit, RunLog!Init
<1>3. ASSUME DiskInv, Shipped, [PlatformNext]_allVars, vm' # "absent"
      PROVE  /\ IInv /\ [Next]_vars
             /\ WholeInv' /\ PrefixInv' /\ WholeLines' <= recorded'
  <2>1. /\ IInv /\ [Next]_vars
        /\ WholeInv /\ PrefixInv /\ WholeLines <= recorded
    BY <1>1, <1>3, LogSteps
  <2>2. QED
    BY <2>1, NextWhole, NextPrefix, FileBehindRecord
<1>4. DiskInv /\ Shipped /\ [PlatformNext]_allVars => Shipped'
  BY <1>3
<1>5. DiskInv /\ DiskInv' /\ Shipped /\ [PlatformNext]_allVars
        => [RunLog!Next]_<<recorded, Archived>>
  <2> SUFFICES ASSUME DiskInv, DiskInv', Shipped, [PlatformNext]_allVars
               PROVE  [RunLog!Next]_<<recorded, Archived>>
    OBVIOUS
  <2>1. CASE vm' = "absent"
    BY <2>1, LogSteps DEF shipperVars, Archived
  <2>2. CASE vm' # "absent"
    <3>1. /\ IInv /\ [Next]_vars
          /\ PrefixInv' /\ WholeLines' <= recorded'
      BY <2>2, <1>3
    <3>2. /\ WholeLines' \in Nat /\ recorded \in Nat
          /\ recorded' \in {recorded, recorded + 1}
          /\ recorded' # recorded => UNCHANGED archive
      <4>1. recorded \in Nat
        BY <3>1 DEF IInv, TypeOK, BufferTypeOK
      <4>2. WholeLines' \in Nat
        BY <2>2, LineWidthAssumption
           DEF DiskInv, IInv, TypeOK, BufferTypeOK, Position, WholeLines
      <4>3. QED
        BY <3>1, <4>1, <4>2
           DEF Next, BufferNext, Record, Close, Write, EndFlush, Crash, vars, bufferVars,
               shipperVars
    <3>3. PICK n \in 0 .. WholeLines' : Archived' = (1 .. n) \ Rejected
      BY <3>1 DEF PrefixInv
    <3>4. Archived \subseteq Archived'
      BY <3>1, StepKeepsArchive
    <3>5. CASE recorded' = recorded
      <4>1. n \in 0 .. recorded
        BY <3>1, <3>2, <3>5
      <4>2. QED
        BY <3>3, <3>4, <3>5, <4>1 DEF RunLog!Next, RunLog!Keep
    <3>6. CASE recorded' # recorded
      BY <3>2, <3>6 DEF RunLog!Next, RunLog!Append, Archived
    <3>7. QED
      BY <3>5, <3>6
  <2>3. QED
    BY <2>1, <2>2
<1> HIDE DEF Shipped
<1>6. QED
  BY <1>2, <1>4, <1>5, DiskInvariance, PTL
     DEF PlatformSpec, ImplementsRunLog, RunLog!Spec

-----------------------------------------------------------------------------
(* The end of the command *)

\* OrchestratorProofs speaks of the same orchestrator as the platform.
LEMMA SameOrchestrator == O!Spec => OP!Spec
<1>1. O!Init => OP!Init
  BY DEF O!Init, OP!Init, O!RegistryInit, OP!RegistryInit, O!NoRow, OP!NoRow, O!NoName,
     OP!NoName
<1>2. [O!Next]_(O!vars) => [OP!Next]_(OP!vars)
  BY DEF O!Next, OP!Next, O!vars, OP!vars, O!registryVars, OP!registryVars,
     O!cloudVars, OP!cloudVars, O!Step, OP!Step, O!Crash, OP!Crash, O!Environment,
     OP!Environment, O!GetRunConfig, OP!GetRunConfig, O!PutConfig, OP!PutConfig,
     O!MarkProvisioning, OP!MarkProvisioning, O!InsertInstance, OP!InsertInstance,
     O!InsertWait, OP!InsertWait, O!MarkCreateFailed, OP!MarkCreateFailed,
     O!MarkRunning, OP!MarkRunning, O!HasRunSummary, OP!HasRunSummary, O!GetInstance,
     OP!GetInstance, O!MarkCompleted, OP!MarkCompleted, O!MarkFailed, OP!MarkFailed,
     O!DeleteInstance, OP!DeleteInstance, O!DeleteWait, OP!DeleteWait, O!Boot,
     OP!Boot, O!Exec, OP!Exec, O!Goto, OP!Goto, O!MarkRunStatus, OP!MarkRunStatus,
     O!CreateRun, OP!CreateRun, O!WriteRunSummary, OP!WriteRunSummary, O!RowExists,
     OP!RowExists, O!NoRow, OP!NoRow, O!NoName, OP!NoName, O!InstanceName,
     OP!InstanceName, O!Terminal, OP!Terminal, O!Exited, OP!Exited, O!SubmitRun,
     OP!SubmitRun, O!EngineWritesSummary, OP!EngineWritesSummary, O!EngineMarksStatus,
     OP!EngineMarksStatus, O!EngineExits, OP!EngineExits, O!Cloud, OP!Cloud,
     O!VmStopping, OP!VmStopping, O!VmStopped, OP!VmStopped, O!VmDeleted,
     OP!VmDeleted, O!VmVanishes, OP!VmVanishes
<1>3. QED
  BY <1>1, <1>2, PTL DEF O!Spec, OP!Spec

\* With an instance of its own, the command ends without error only when the instance
\* is gone.
LEMMA CommandReclaims == PlatformSpec => []O!DoneMeansReclaimed
<1>1. CASE Orchestrators = {}
  <2>1. O!DoneMeansReclaimed
    BY <1>1 DEF O!DoneMeansReclaimed
  <2>2. QED
    BY <2>1, PTL
<1>2. ASSUME NEW me \in Orchestrators
      PROVE  PlatformSpec => []O!DoneMeansReclaimed
  <2>1. Orchestrators = {me}
    BY RunPlatformAssumption
  <2>2. OP!Spec => []OP!DoneMeansReclaimed
    BY <2>1, RunPlatformAssumption, OP!ExitMeansReclaimed
       DEF O!OrchestratorAssumption, OP!OrchestratorAssumption
  <2>3. OP!DoneMeansReclaimed => O!DoneMeansReclaimed
    BY DEF OP!DoneMeansReclaimed, O!DoneMeansReclaimed, OP!Terminal, O!Terminal
  <2>4. QED
    BY <2>2, <2>3, SameOrchestrator, PlatformImplementsOrchestrator, PTL
<1>3. QED
  BY <1>1, <1>2

\* After an exit without error nobody writes the archive any more.
THEOREM ArchiveEndsWithCommand == PlatformSpec => ArchiveIsFinal
<1>1. O!DoneMeansReclaimed /\ [PlatformNext]_allVars =>
        [(\E o \in Orchestrators : pc[o] = "done") => UNCHANGED archive]_allVars
  <2> SUFFICES ASSUME O!DoneMeansReclaimed, PlatformNext,
                      NEW o \in Orchestrators, pc[o] = "done"
               PROVE  archive' = archive
    OBVIOUS
  <2>1. vm = "absent"
    BY DEF O!DoneMeansReclaimed
  <2>2. ~Ship
    BY <2>1 DEF Ship, InstanceUp
  <2>3. CASE Summarize
    BY <2>3 DEF Summarize, vars, shipperVars
  <2>4. CASE PlatformStep \/ Simulate
    BY <2>4 DEF PlatformStep, Simulate, shipperVars
  <2>5. QED
    BY <2>2, <2>3, <2>4 DEF PlatformNext
<1>2. QED
  BY <1>1, CommandReclaims, PTL DEF PlatformSpec, ArchiveIsFinal
=============================================================================
