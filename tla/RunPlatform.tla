----------------------------- MODULE RunPlatform -----------------------------
(***************************************************************************)
(* One instance of one run as a whole: the command of Orchestrator in its  *)
(* own place, and beside each other on the instance it boots and deletes   *)
(* the engine with its EventLogBuffer and the LogShipper.  The staging     *)
(* file is on the boot disk, which is deleted with the instance.           *)
(*                                                                         *)
(* The entry point is a stub; the engine's order here is the one that      *)
(* treats the log best: it closes the buffer before it writes its summary. *)
(***************************************************************************)
EXTENDS EventPipeline

CONSTANTS Orchestrators, Faults, EngineReports   \* as in Orchestrator

VARIABLES
  status, computeInstance, endedAt, hasSummary,   \* the registry
  pc, vm, warmed,                                 \* the command and the cloud
  process                                         \* the engine's process

O == INSTANCE Orchestrator WITH engine <- process

cloudVars ==
  <<status, computeInstance, endedAt, hasSummary, pc, vm, process, warmed>>
allVars == <<vars, cloudVars>>

\* One command boots at most one instance, so there is one staging file.
ASSUME RunPlatformAssumption ==
  /\ O!OrchestratorAssumption
  /\ \A o, p \in Orchestrators : o = p

PlatformInit == Init /\ O!Init

\* A process that ends takes its buffer with it.
BufferFollows ==
  engine' = IF process = "running" /\ process' # "running" /\ engine # "closed"
            THEN "crashed" ELSE engine

\* The staging file is on the boot disk, which is AutoDelete.
DiskFollows == file' = IF vm' = "absent" THEN Start ELSE file

\* The command, the cloud, and a process that ends by itself.
PlatformStep ==
  /\ \/ \E o \in Orchestrators : O!Step(o) \/ O!Crash(o)
     \/ O!SubmitRun \/ O!EngineMarksStatus \/ O!EngineExits \/ O!Cloud
  /\ BufferFollows
  /\ DiskFollows
  /\ UNCHANGED <<recorded, pending, shipperVars>>

\* The summary is computed from the state in which the run returned.
Summarize ==
  /\ engine = "closed"
  /\ O!EngineWritesSummary
  /\ UNCHANGED vars

Simulate ==
  /\ process = "running"
  /\ Record \/ Close \/ Write \/ EndFlush
  /\ UNCHANGED <<shipperVars, cloudVars>>

InstanceUp == vm \in {"running", "stopping", "deleting"}

\* The sidecar works until the instance has stopped or is gone.
Ship ==
  /\ InstanceUp
  /\ ShipperNext
  /\ UNCHANGED <<bufferVars, cloudVars>>

PlatformNext == PlatformStep \/ Summarize \/ Simulate \/ Ship

PlatformSpec == PlatformInit /\ [][PlatformNext]_allVars

\* As in EventPipeline: the poll loop goes on, here as long as the instance is up.
PlatformFairSpec ==
  /\ PlatformSpec
  /\ WF_allVars(Ship /\ Scan)
  /\ SF_allVars(Ship /\ FlushLogs)
  /\ SF_allVars(Ship /\ Upload)

-----------------------------------------------------------------------------
(* Properties *)

\* Whatever becomes of the command that booted the instance (it may fail or die at
\* any call and leave the instance alone), a closed log is archived in the end
\* unless the instance goes first.
LogOutlivesCommand ==
  engine = "closed" ~>
    \/ (1 .. recorded) \ Rejected \subseteq Archived
    \/ vm \in {"stopped", "absent"}

\* As long as the instance is up, the file that the shipper reads lacks at most one batch of
\* what the run has recorded, whoever ended the engine and whatever the command does.
LossIsBounded == InstanceUp => BoundedCrashLoss

\* With the instance goes its disk, with everything on it that no upload has reached.  What
\* is left is the archive, and to the run it is the durable copy of a log of all recorded
\* events: complete up to some event at every moment, and never smaller than before, also
\* when the instance goes in the middle of a flush, a poll or an upload.
RunLog == INSTANCE DurableLog WITH length <- recorded, kept <- Archived

ImplementsRunLog == RunLog!Spec

\* An exit without error is a moment after which nobody writes the archive any more:
\* whoever waits for the command may read the objects as they are (DeleteInstance
\* waits for its operation, and the shipper goes with the instance).
ArchiveIsFinal ==
  [][(\E o \in Orchestrators : pc[o] = "done") => UNCHANGED archive]_allVars

\* The archive is the durable copy (main.go), and nothing on the local disk of an
\* instance is (PRD 2, principle 5): when a command has ended a completed run,
\* and the instance with it, every event that parses is archived.
CompletedRunIsArchived ==
  status = "completed" /\ (\E o \in Orchestrators : pc[o] = "done") =>
    (1 .. recorded) \ Rejected \subseteq Archived
=============================================================================
