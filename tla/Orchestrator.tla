---------------------------- MODULE Orchestrator ----------------------------
(***************************************************************************)
(* go/cmd/orchestrator: the command that provisions the one Compute Engine *)
(* instance of a run, waits for the run to end and tears the instance      *)
(* down, together with the cloud it drives.  Several invocations of the    *)
(* command for the same run (an operator who repeats it, or a retry after  *)
(* a failure) may overlap.                                                 *)
(*                                                                         *)
(* One action is one remote call of runOne or waitForCompletion: between   *)
(* two calls the engine, the other invocations and the cloud take steps.   *)
(***************************************************************************)
EXTENDS Naturals, RunRegistry

CONSTANTS
  Orchestrators,   \* the invocations of the command for the run
  Faults,          \* the calls that may fail, and "crash"
  EngineReports    \* whether the engine calls mark_run_status itself

ASSUME OrchestratorAssumption ==
  /\ Faults \subseteq {"sql", "redis", "compute", "crash"}
  /\ EngineReports \in BOOLEAN

VARIABLES
  pc,       \* the call each invocation makes next
  vm,       \* the state of the instance freewill-run-<run_id>
  engine,   \* the simulation process on it
  warmed    \* the run's config has been put in Redis

cloudVars == <<vm, engine, warmed>>
vars == <<registryVars, pc, cloudVars>>

Labels == {"getRunConfig", "putConfig", "markProvisioning", "insert",
           "insertWait", "markCreateFailed", "markRunning", "hasRunSummary",
           "getInstance", "markCompleted", "markFailed", "delete",
           "deleteWait", "done", "fatal"}

Exited == {"done", "fatal"}

\* Every variable keeps its type; in particular every status that runOne writes
\* is one the CHECK constraint of runs admits, so no UPDATE is refused for it.
TypeOK ==
  /\ RegistryTypeOK
  /\ pc \in [Orchestrators -> Labels]
  /\ vm \in {"absent", "running", "stopping", "stopped", "deleting"}
  /\ engine \in {"off", "running", "exited"}
  /\ warmed \in BOOLEAN

Init ==
  /\ RegistryInit
  /\ pc = [o \in Orchestrators |-> "getRunConfig"]
  /\ vm = "absent"
  /\ engine = "off"
  /\ warmed = FALSE

-----------------------------------------------------------------------------
(* The calls of one invocation o *)

Goto(o, label) == pc' = [pc EXCEPT ![o] = label]

\* One SQL statement.  A failed call may still have committed, and its error
\* leads to the label onError.
Exec(o, statement, next, onError) ==
  \/ statement /\ Goto(o, next)
  \/ /\ "sql" \in Faults
     /\ statement \/ UNCHANGED registryVars
     /\ Goto(o, onError)

\* Opens the registry and the clients, then reads the run's config: a run that
\* nobody submitted is an error like any other.
GetRunConfig(o) ==
  /\ pc[o] = "getRunConfig"
  /\ \/ RowExists /\ Goto(o, "putConfig")
     \/ (~RowExists \/ Faults \cap {"sql", "compute"} # {}) /\ Goto(o, "fatal")
  /\ UNCHANGED <<registryVars, cloudVars>>

\* Warms the config.  The SET of a failed call may have been applied.
PutConfig(o) ==
  /\ pc[o] = "putConfig"
  /\ \/ warmed' = TRUE /\ Goto(o, "markProvisioning")
     \/ "redis" \in Faults /\ warmed' \in {warmed, TRUE} /\ Goto(o, "fatal")
  /\ UNCHANGED <<registryVars, vm, engine>>

MarkProvisioning(o) ==
  /\ pc[o] = "markProvisioning"
  /\ Exec(o, MarkRunStatus("provisioning", InstanceName), "insert", "fatal")
  /\ UNCHANGED cloudVars

Boot ==
  /\ vm' = "running"
  /\ engine' = "running"

\* The insert request.  The name is taken while an instance of the run exists
\* in any state; a request whose answer is lost may have been accepted.
InsertInstance(o) ==
  /\ pc[o] = "insert"
  /\ \/ vm = "absent" /\ Boot /\ Goto(o, "insertWait")
     \/ vm # "absent" /\ UNCHANGED <<vm, engine>> /\ Goto(o, "markCreateFailed")
     \/ /\ "compute" \in Faults
        /\ vm = "absent"
        /\ Boot \/ UNCHANGED <<vm, engine>>
        /\ Goto(o, "markCreateFailed")
  /\ UNCHANGED <<registryVars, warmed>>

InsertWait(o) ==
  /\ pc[o] = "insertWait"
  /\ \/ Goto(o, "markRunning")
     \/ "compute" \in Faults /\ Goto(o, "markCreateFailed")
  /\ UNCHANGED <<registryVars, cloudVars>>

\* Mutant: runOne does not return after the clean-up.
MarkCreateFailedNoReturn(o) ==
  /\ pc[o] = "markCreateFailed"
  /\ Exec(o, MarkRunStatus("failed", InstanceName), "markRunning", "markRunning")
  /\ UNCHANGED cloudVars

\* The error of this UPDATE is dropped: runOne returns the one of the insert.
MarkCreateFailed(o) ==
  /\ pc[o] = "markCreateFailed"
  /\ Exec(o, MarkRunStatus("failed", InstanceName), "fatal", "fatal")
  /\ UNCHANGED cloudVars

MarkRunning(o) ==
  /\ pc[o] = "markRunning"
  /\ Exec(o, MarkRunStatus("running", InstanceName), "hasRunSummary", "fatal")
  /\ UNCHANGED cloudVars

\* The first half of a poll.
HasRunSummary(o) ==
  /\ pc[o] = "hasRunSummary"
  /\ \/ hasSummary /\ Goto(o, "markCompleted")
     \/ ~hasSummary /\ Goto(o, "getInstance")
     \/ "sql" \in Faults /\ Goto(o, "fatal")
  /\ UNCHANGED <<registryVars, cloudVars>>

\* Mutant: a stopped instance is taken for a finished run.
GetInstanceStoppedIsCompleted(o) ==
  /\ pc[o] = "getInstance"
  /\ \/ vm \notin {"absent", "stopped"} /\ Goto(o, "hasRunSummary")
     \/ vm = "absent" /\ Goto(o, "markFailed")
     \/ vm = "stopped" /\ Goto(o, "markCompleted")
  /\ UNCHANGED <<registryVars, cloudVars>>

\* Mutant: TERMINATED is not among the statuses that end the wait.
GetInstanceMissesStopped(o) ==
  /\ pc[o] = "getInstance"
  /\ \/ vm # "absent" /\ Goto(o, "hasRunSummary")
     \/ vm = "absent" /\ Goto(o, "markFailed")
  /\ UNCHANGED <<registryVars, cloudVars>>

\* The second half of a poll: any error of Get counts as a vanished instance,
\* and an instance that is stopping or being deleted as one still running.
GetInstance(o) ==
  /\ pc[o] = "getInstance"
  /\ \/ vm \notin {"absent", "stopped"} /\ Goto(o, "hasRunSummary")
     \/ vm \in {"absent", "stopped"} /\ Goto(o, "markFailed")
     \/ "compute" \in Faults /\ Goto(o, "markFailed")
  /\ UNCHANGED <<registryVars, cloudVars>>

\* Mutant: a status that the CHECK constraint does not admit.
MarkCompletedMisspelt(o) ==
  /\ pc[o] = "markCompleted"
  /\ Exec(o, MarkRunStatus("complete", InstanceName), "delete", "fatal")
  /\ UNCHANGED cloudVars

MarkCompleted(o) ==
  /\ pc[o] = "markCompleted"
  /\ Exec(o, MarkRunStatus("completed", InstanceName), "delete", "fatal")
  /\ UNCHANGED cloudVars

\* Mutant: an error of the final UPDATE no longer stops the teardown.
MarkFailedIgnoresError(o) ==
  /\ pc[o] = "markFailed"
  /\ Exec(o, MarkRunStatus("failed", InstanceName), "delete", "delete")
  /\ UNCHANGED cloudVars

MarkFailed(o) ==
  /\ pc[o] = "markFailed"
  /\ Exec(o, MarkRunStatus("failed", InstanceName), "delete", "fatal")
  /\ UNCHANGED cloudVars

\* Mutant: the command returns when the request is accepted.
DeleteInstanceNoWait(o) ==
  /\ pc[o] = "delete"
  /\ \/ vm # "absent" /\ vm' = "deleting" /\ Goto(o, "done")
     \/ vm = "absent" /\ UNCHANGED vm /\ Goto(o, "fatal")
  /\ UNCHANGED <<registryVars, engine, warmed>>

\* The delete request.  An instance that is already gone is an error (404).
DeleteInstance(o) ==
  /\ pc[o] = "delete"
  /\ \/ vm # "absent" /\ vm' = "deleting" /\ Goto(o, "deleteWait")
     \/ vm = "absent" /\ UNCHANGED vm /\ Goto(o, "fatal")
     \/ "compute" \in Faults /\ vm # "absent" /\ vm' \in {vm, "deleting"} /\ Goto(o, "fatal")
  /\ UNCHANGED <<registryVars, engine, warmed>>

DeleteWait(o) ==
  /\ pc[o] = "deleteWait"
  /\ \/ vm # "deleting" /\ Goto(o, "done")
     \/ "compute" \in Faults /\ Goto(o, "fatal")
  /\ UNCHANGED <<registryVars, cloudVars>>

\* The process dies: the context is never cancelled, so nothing else ends it.
Crash(o) ==
  /\ "crash" \in Faults
  /\ pc[o] \notin Exited
  /\ Goto(o, "fatal")
  /\ UNCHANGED <<registryVars, cloudVars>>

Step(o) ==
  \/ GetRunConfig(o) \/ PutConfig(o) \/ MarkProvisioning(o)
  \/ InsertInstance(o) \/ InsertWait(o) \/ MarkCreateFailed(o)
  \/ MarkRunning(o) \/ HasRunSummary(o) \/ GetInstance(o)
  \/ MarkCompleted(o) \/ MarkFailed(o)
  \/ DeleteInstance(o) \/ DeleteWait(o)

-----------------------------------------------------------------------------
(* The engine, the cloud and whoever submits the experiment matrix *)

SubmitRun ==
  /\ CreateRun
  /\ UNCHANGED <<pc, cloudVars>>

EngineWritesSummary ==
  /\ engine = "running"
  /\ WriteRunSummary
  /\ UNCHANGED <<pc, cloudVars>>

\* The engine's own verdict, its last statement: success once a summary is in
\* the registry, failure at any time.  It passes no instance name.
EngineMarksStatus ==
  /\ EngineReports
  /\ engine = "running"
  /\ \E s \in Terminal :
       /\ s = "completed" => hasSummary
       /\ MarkRunStatus(s, NoName)
  /\ engine' = "exited"
  /\ UNCHANGED <<pc, vm, warmed>>

\* The process ends, by itself or by an exception; the instance stays up.
EngineExits ==
  /\ engine = "running"
  /\ engine' = "exited"
  /\ UNCHANGED <<registryVars, pc, vm, warmed>>

\* A preemption, or a shutdown from the inside.  The process lives on until
\* the instance has stopped.
VmStopping ==
  /\ vm = "running"
  /\ vm' = "stopping"
  /\ UNCHANGED <<registryVars, pc, engine, warmed>>

VmStopped ==
  /\ vm = "stopping"
  /\ vm' = "stopped"
  /\ engine' = "off"
  /\ UNCHANGED <<registryVars, pc, warmed>>

\* The end of a delete operation.
VmDeleted ==
  /\ vm = "deleting"
  /\ vm' = "absent"
  /\ engine' = "off"
  /\ UNCHANGED <<registryVars, pc, warmed>>

\* Somebody else deletes the instance: it disappears.
VmVanishes ==
  /\ vm # "absent"
  /\ vm' = "absent"
  /\ engine' = "off"
  /\ UNCHANGED <<registryVars, pc, warmed>>

Cloud == VmStopping \/ VmStopped \/ VmDeleted \/ VmVanishes

Environment ==
  \/ SubmitRun
  \/ EngineWritesSummary \/ EngineMarksStatus \/ EngineExits
  \/ Cloud

Next ==
  \/ \E o \in Orchestrators : Step(o) \/ Crash(o)
  \/ Environment

Spec == Init /\ [][Next]_vars

\* A live process makes its next call at every tick of its poll loop, and the
\* cloud finishes what it has started; nothing else is promised.
Fairness ==
  /\ \A o \in Orchestrators : WF_vars(Step(o))
  /\ WF_vars(VmStopped)
  /\ WF_vars(VmDeleted)

FairSpec == Spec /\ Fairness

-----------------------------------------------------------------------------
(* Properties *)

\* A run is reported completed only if its summary is in the registry: the
\* analysis plan reads run_summaries for exactly the completed runs
\* (waitForCompletion, mark_run_status).
CompletedHasSummary == status = "completed" => hasSummary

\* While an instance exists, in whatever state, the registry names it and its
\* config has been put in Redis, whichever calls failed (the order of
\* PutConfig, MarkRunStatus and CreateInstance in runOne; the COALESCE in both
\* UPDATEs).
InstanceIsRegistered ==
  vm # "absent" => computeInstance = InstanceName /\ warmed

\* For one invocation: an exit without error means that the run has a verdict
\* and that its instance is gone (runOne returns what DeleteInstance returns).
DoneMeansReclaimed ==
  \A o \in Orchestrators : pc[o] = "done" => status \in Terminal /\ vm = "absent"

\* For one invocation and a silent engine: the row has an end time exactly
\* while its status is terminal, although the UPDATE never clears ended_at.
EndedAtAgreesWithStatus == RowExists => (endedAt <=> status \in Terminal)

Rank(s) ==
  CASE s = NoRow -> 0
    [] s = "pending" -> 1
    [] s = "provisioning" -> 2
    [] s = "running" -> 3
    [] OTHER -> 4

\* For one invocation and a silent engine: the status only moves forward, and
\* a verdict is never replaced by the other one.
StatusMovesForward ==
  [][status' # status => Rank(status) < Rank(status')]_vars

\* For one invocation: the instance is torn down only after the run's verdict
\* is committed (runOne calls DeleteInstance after waitForCompletion).
TeardownAfterVerdict ==
  [][vm' = "deleting" /\ vm # "deleting" => status \in Terminal]_vars

\* However many invocations overlap and whatever the engine reports: the instance is
\* torn down by a command only when the run was given an end time, although a second
\* invocation may have put the status back to running (no UPDATE clears ended_at).
TeardownIsRecorded == [][vm' = "deleting" /\ vm # "deleting" => endedAt]_vars

Polling(o) == pc[o] \in {"hasRunSummary", "getInstance"}

\* Without faults, a run whose summary is written or whose instance stops
\* while an invocation waits for it is eventually torn down.
EndIsNoticed ==
  \A o \in Orchestrators :
    Polling(o) /\ (hasSummary \/ vm # "running") ~> vm = "absent"

\* For one invocation and a silent engine: whatever fails or dies, the calls
\* implement the life of a run.  No step moves the row and the machine at once,
\* no machine comes up for a row that does not announce it or has a verdict, and
\* a run completes only with what its machine reported.
Lifecycle == INSTANCE RunLifecycle WITH up <- (vm # "absent"), reported <- hasSummary

ImplementsLifecycle == Lifecycle!Spec

\* What the header of main.go says of "failed": the instance disappeared
\* without a summary row.
FailedHasNoSummary == status = "failed" => ~hasSummary

\* The last duty in the header of main.go: an invocation that ends leaves no
\* instance behind.
NoOrphanVm == \A o \in Orchestrators : pc[o] \in Exited => vm = "absent"

=============================================================================
