------------------------- MODULE OrchestratorProofs -------------------------
(***************************************************************************)
(* What holds of the orchestrator for every set of invocations, every set  *)
(* of faults and an engine of either kind.                                 *)
(***************************************************************************)
EXTENDS Orchestrator, TLAPS

\* From markProvisioning on, PutConfig has succeeded for the invocation.
Warmed ==
  \A o \in Orchestrators :
    pc[o] \in Labels \ {"getRunConfig", "putConfig", "fatal"} => warmed

\* From insert on, the registry names the instance; an engine that reports its
\* verdict without a name does not erase it.
Named ==
  \A o \in Orchestrators :
    pc[o] \in Labels \ {"getRunConfig", "putConfig", "markProvisioning", "fatal"}
      => computeInstance = InstanceName

\* A summary that a poll has seen is still there when the poll acts on it.
SummarySeen ==
  \A o \in Orchestrators : pc[o] = "markCompleted" => hasSummary

\* The inductive invariant.
IInv ==
  /\ TypeOK
  /\ Warmed
  /\ Named
  /\ SummarySeen
  /\ CompletedHasSummary
  /\ InstanceIsRegistered

\* The registry, the invocations and the cloud start in IInv: no row, no
\* instance, every invocation before its first call.
LEMMA InitIInv == Init => IInv
BY DEF Init, RegistryInit, IInv, TypeOK, RegistryTypeOK, Labels, Statuses, NoRow,
       NoName, InstanceName, Warmed, Named, SummarySeen, CompletedHasSummary,
       InstanceIsRegistered

\* Every call of an invocation, whether it succeeds, fails or fails after its
\* effect, preserves IInv.
LEMMA StepIInv ==
  ASSUME IInv, NEW o \in Orchestrators, Step(o)
  PROVE  IInv'
<1> USE OrchestratorAssumption
<1> USE DEF IInv, TypeOK, RegistryTypeOK, Labels, Statuses, NoRow, NoName,
            InstanceName, Warmed, Named, SummarySeen, CompletedHasSummary,
            InstanceIsRegistered, registryVars, cloudVars, Goto
<1>1. CASE GetRunConfig(o)  BY <1>1 DEF GetRunConfig
<1>2. CASE PutConfig(o)  BY <1>2 DEF PutConfig
<1>3. CASE MarkProvisioning(o)
  BY <1>3 DEF MarkProvisioning, Exec, MarkRunStatus
<1>4. CASE InsertInstance(o)  BY <1>4 DEF InsertInstance, Boot
<1>5. CASE InsertWait(o)  BY <1>5 DEF InsertWait
<1>6. CASE MarkCreateFailed(o)
  BY <1>6 DEF MarkCreateFailed, Exec, MarkRunStatus
<1>7. CASE MarkRunning(o)  BY <1>7 DEF MarkRunning, Exec, MarkRunStatus
<1>8. CASE HasRunSummary(o)  BY <1>8 DEF HasRunSummary
<1>9. CASE GetInstance(o)  BY <1>9 DEF GetInstance
<1>10. CASE MarkCompleted(o)  BY <1>10 DEF MarkCompleted, Exec, MarkRunStatus
<1>11. CASE MarkFailed(o)  BY <1>11 DEF MarkFailed, Exec, MarkRunStatus
<1>12. CASE DeleteInstance(o)  BY <1>12 DEF DeleteInstance
<1>13. CASE DeleteWait(o)  BY <1>13 DEF DeleteWait
<1>14. QED
  BY <1>1, <1>2, <1>3, <1>4, <1>5, <1>6, <1>7, <1>8, <1>9, <1>10, <1>11,
     <1>12, <1>13 DEF Step

\* So does every step of the engine, of the cloud and of the submitter.
LEMMA EnvironmentIInv ==
  ASSUME IInv, Environment
  PROVE  IInv'
<1> USE OrchestratorAssumption
<1> USE DEF IInv, TypeOK, RegistryTypeOK, Labels, Statuses, NoRow, NoName,
            InstanceName, Warmed, Named, SummarySeen, CompletedHasSummary,
            InstanceIsRegistered, registryVars, cloudVars
<1>1. CASE SubmitRun  BY <1>1 DEF SubmitRun, CreateRun
<1>2. CASE EngineWritesSummary
  BY <1>2 DEF EngineWritesSummary, WriteRunSummary
<1>3. CASE EngineMarksStatus
  <2>1. PICK s \in Terminal :
          /\ s = "completed" => hasSummary
          /\ MarkRunStatus(s, NoName)
    BY <1>3 DEF EngineMarksStatus
  <2>2. /\ status' = s
        /\ s \in {"completed", "failed"}
        /\ s = "completed" => hasSummary
        /\ UNCHANGED <<computeInstance, hasSummary>>
        /\ endedAt' \in BOOLEAN
    BY <2>1 DEF MarkRunStatus, Terminal
  <2>3. UNCHANGED <<pc, vm, warmed>> /\ engine' = "exited"
    BY <1>3 DEF EngineMarksStatus
  <2>4. QED
    BY <2>2, <2>3
<1>4. CASE EngineExits  BY <1>4 DEF EngineExits
<1>5. CASE Cloud
  BY <1>5 DEF Cloud, VmStopping, VmStopped, VmDeleted, VmVanishes
<1>6. QED
  BY <1>1, <1>2, <1>3, <1>4, <1>5 DEF Environment

\* IInv is inductive.
LEMMA NextIInv == IInv /\ [Next]_vars => IInv'
<1> SUFFICES ASSUME IInv, [Next]_vars PROVE IInv'
  OBVIOUS
<1>1. ASSUME NEW o \in Orchestrators, Step(o) PROVE IInv'
  BY <1>1, StepIInv
<1>2. ASSUME NEW o \in Orchestrators, Crash(o) PROVE IInv'
  BY <1>2 DEF Crash, Goto, IInv, TypeOK, RegistryTypeOK, Labels, Warmed, Named,
     SummarySeen, CompletedHasSummary, InstanceIsRegistered, registryVars, cloudVars
<1>3. CASE Environment
  BY <1>3, EnvironmentIInv
<1>4. CASE UNCHANGED vars
  BY <1>4 DEF vars, IInv, TypeOK, RegistryTypeOK, Warmed, Named, SummarySeen,
     CompletedHasSummary, InstanceIsRegistered, registryVars, cloudVars
<1>5. QED
  BY <1>1, <1>2, <1>3, <1>4 DEF Next

\* IInv holds in every reachable state.
THEOREM Invariance == Spec => []IInv
BY InitIInv, NextIInv, PTL DEF Spec

\* Every variable keeps its type; in particular every status the two clients
\* write is one the CHECK constraint of the table admits.
THEOREM TypeCorrect == Spec => []TypeOK
<1>1. IInv => TypeOK  BY DEF IInv
<1>2. QED  BY <1>1, Invariance, PTL

\* However many invocations overlap and whatever fails, a completed run has
\* its summary.
THEOREM CompletedRunsHaveSummaries == Spec => []CompletedHasSummary
<1>1. IInv => CompletedHasSummary  BY DEF IInv
<1>2. QED  BY <1>1, Invariance, PTL

\* However many invocations overlap and whatever fails, an instance that
\* exists is named by the registry and its config was put in Redis.
THEOREM InstancesAreRegistered == Spec => []InstanceIsRegistered
<1>1. IInv => InstanceIsRegistered  BY DEF IInv
<1>2. QED  BY <1>1, Invariance, PTL

-----------------------------------------------------------------------------
(* Any number of invocations, and an engine that reports its verdict *)

\* An invocation that has its verdict has stamped the end time of the run, and
\* nobody takes it back: not the other invocations, whose UPDATEs may undo the
\* status, not the engine and not a second submission.
RecordedInv ==
  \A o \in Orchestrators : pc[o] \in {"delete", "deleteWait", "done"} => endedAt

\* No statement clears the end time.
LEMMA EndedAtStays ==
  ASSUME [Next]_vars, endedAt
  PROVE  endedAt'
<1> USE DEF registryVars
<1>1. \A s, name : MarkRunStatus(s, name) => endedAt'
  BY DEF MarkRunStatus
<1>2. ASSUME NEW o \in Orchestrators, Step(o) \/ Crash(o)
      PROVE  endedAt'
  BY <1>1, <1>2
     DEF Step, Crash, Exec, GetRunConfig, PutConfig, MarkProvisioning, InsertInstance,
         InsertWait, MarkCreateFailed, MarkRunning, HasRunSummary, GetInstance,
         MarkCompleted, MarkFailed, DeleteInstance, DeleteWait
<1>3. ASSUME Environment PROVE endedAt'
  BY <1>1, <1>3
     DEF Environment, SubmitRun, CreateRun, EngineWritesSummary, WriteRunSummary,
         EngineMarksStatus, EngineExits, Cloud, VmStopping, VmStopped, VmDeleted, VmVanishes
<1>4. CASE UNCHANGED vars
  BY <1>4 DEF vars
<1>5. QED
  BY <1>2, <1>3, <1>4 DEF Next

\* A call goes on to the teardown only after an UPDATE that stamped the end time.
LEMMA NextRecorded == IInv /\ RecordedInv /\ [Next]_vars => RecordedInv'
<1> SUFFICES ASSUME IInv, RecordedInv, [Next]_vars,
                    NEW o \in Orchestrators, pc'[o] \in {"delete", "deleteWait", "done"}
             PROVE  endedAt'
  BY DEF RecordedInv
<1>1. pc \in [Orchestrators -> Labels]
  BY DEF IInv, TypeOK
<1>2. CASE pc[o] \in {"delete", "deleteWait", "done"}
  BY <1>2, EndedAtStays DEF RecordedInv
<1>3. CASE pc[o] \notin {"delete", "deleteWait", "done"}
  <2>1. pc' # pc
    BY <1>3
  <2>2. PICK other \in Orchestrators : Step(other) \/ Crash(other)
    BY <2>1 DEF Next, Environment, vars, SubmitRun, EngineWritesSummary, EngineMarksStatus,
       EngineExits, Cloud, VmStopping, VmStopped, VmDeleted, VmVanishes
  <2>3. other = o
    BY <1>1, <1>3, <2>2
       DEF Goto, Step, Crash, Exec, GetRunConfig, PutConfig, MarkProvisioning,
           InsertInstance, InsertWait, MarkCreateFailed, MarkRunning, HasRunSummary,
           GetInstance, MarkCompleted, MarkFailed, DeleteInstance, DeleteWait
  <2>4. MarkCompleted(o) \/ MarkFailed(o)
    BY <1>1, <1>3, <2>2, <2>3
       DEF Goto, Step, Crash, Exec, GetRunConfig, PutConfig, MarkProvisioning,
           InsertInstance, InsertWait, MarkCreateFailed, MarkRunning, HasRunSummary,
           GetInstance, DeleteInstance, DeleteWait
  <2>5. \A s \in Terminal : \A name : MarkRunStatus(s, name) => endedAt'
    BY DEF MarkRunStatus
  <2>6. QED
    BY <1>1, <1>3, <2>4, <2>5 DEF MarkCompleted, MarkFailed, Exec, Goto, Terminal
<1>4. QED
  BY <1>2, <1>3

\* However many invocations overlap, whatever fails and whatever the engine reports,
\* no command tears an instance down before its run was given an end time.
THEOREM TeardownsAreRecorded == Spec => TeardownIsRecorded
<1>1. Init => RecordedInv
  BY DEF Init, RecordedInv
<1>2. IInv /\ RecordedInv /\ [Next]_vars =>
        [vm' = "deleting" /\ vm # "deleting" => endedAt]_vars
  <2> SUFFICES ASSUME RecordedInv, Next, vm' = "deleting", vm # "deleting"
               PROVE  endedAt
    BY DEF vars
  <2>1. ASSUME NEW o \in Orchestrators, DeleteInstance(o)
        PROVE  endedAt
    BY <2>1 DEF DeleteInstance, RecordedInv
  <2>2. ASSUME NEW o \in Orchestrators, InsertInstance(o)
        PROVE  FALSE
    BY <2>2 DEF InsertInstance, Boot
  <2>3. ~Cloud
    BY DEF Cloud, VmStopping, VmStopped, VmDeleted, VmVanishes
  <2>4. QED
    BY <2>1, <2>2, <2>3
       DEF Next, Step, Environment, cloudVars, GetRunConfig, PutConfig, MarkProvisioning,
           InsertWait, MarkCreateFailed, MarkRunning, HasRunSummary, GetInstance,
           MarkCompleted, MarkFailed, DeleteWait, Crash, SubmitRun, EngineWritesSummary,
           EngineMarksStatus, EngineExits
<1>3. QED
  BY <1>1, <1>2, NextRecorded, Invariance, PTL DEF Spec, TeardownIsRecorded

-----------------------------------------------------------------------------
(* One invocation *)

\* What an invocation has achieved when it deletes the instance and when it
\* ends without an error.
VerdictInv ==
  \A o \in Orchestrators :
    /\ pc[o] \in {"delete", "deleteWait", "done"} => status \in Terminal
    /\ pc[o] = "deleteWait" => vm \in {"deleting", "absent"}
    /\ pc[o] = "done" => vm = "absent"

\* With one invocation every step preserves VerdictInv: nobody else writes a
\* status that is not terminal, and nobody else creates an instance.
LEMMA NextVerdict ==
  ASSUME NEW me, Orchestrators = {me}, IInv, VerdictInv, [Next]_vars
  PROVE  VerdictInv'
<1>1. pc \in [{me} -> Labels]
  BY DEF IInv, TypeOK
<1>2. /\ pc[me] \in {"delete", "deleteWait", "done"} => status \in Terminal
      /\ pc[me] = "deleteWait" => vm \in {"deleting", "absent"}
      /\ pc[me] = "done" => vm = "absent"
  BY DEF VerdictInv
<1>3. SUFFICES /\ pc'[me] \in {"delete", "deleteWait", "done"} => status' \in Terminal
               /\ pc'[me] = "deleteWait" => vm' \in {"deleting", "absent"}
               /\ pc'[me] = "done" => vm' = "absent"
  BY DEF VerdictInv
<1> USE <1>1, <1>2 DEF Goto, cloudVars, registryVars
<1>4. CASE GetRunConfig(me)  BY <1>4 DEF GetRunConfig
<1>5. CASE PutConfig(me)  BY <1>5 DEF PutConfig
<1>6. CASE MarkProvisioning(me)  BY <1>6 DEF MarkProvisioning, Exec
<1>7. CASE InsertInstance(me)  BY <1>7 DEF InsertInstance
<1>8. CASE InsertWait(me)  BY <1>8 DEF InsertWait
<1>9. CASE MarkCreateFailed(me)  BY <1>9 DEF MarkCreateFailed, Exec
<1>10. CASE MarkRunning(me)  BY <1>10 DEF MarkRunning, Exec
<1>11. CASE HasRunSummary(me)  BY <1>11 DEF HasRunSummary
<1>12. CASE GetInstance(me)  BY <1>12 DEF GetInstance
<1>13. CASE MarkCompleted(me)
  BY <1>13 DEF MarkCompleted, Exec, MarkRunStatus, Terminal
<1>14. CASE MarkFailed(me)
  BY <1>14 DEF MarkFailed, Exec, MarkRunStatus, Terminal
<1>15. CASE DeleteInstance(me)  BY <1>15 DEF DeleteInstance
<1>16. CASE DeleteWait(me)  BY <1>16 DEF DeleteWait
<1>17. CASE Crash(me)  BY <1>17 DEF Crash
<1>18. CASE SubmitRun \/ EngineMarksStatus
  BY <1>18 DEF SubmitRun, EngineMarksStatus, MarkRunStatus, CreateRun, RowExists, NoRow,
     Terminal
<1>19. CASE EngineWritesSummary \/ EngineExits \/ Cloud
  BY <1>19 DEF EngineWritesSummary, WriteRunSummary, EngineExits, Cloud, VmStopping,
     VmStopped, VmDeleted, VmVanishes
<1>20. CASE UNCHANGED vars
  BY <1>20 DEF vars
<1>21. QED
  BY <1>4, <1>5, <1>6, <1>7, <1>8, <1>9, <1>10, <1>11, <1>12, <1>13, <1>14, <1>15,
     <1>16, <1>17, <1>18, <1>19, <1>20 DEF Next, Step, Environment

\* With one invocation, whatever fails and whatever the engine reports, an exit
\* without error means that the run has its verdict and its instance is gone.
THEOREM ExitMeansReclaimed ==
  ASSUME NEW me, Orchestrators = {me}
  PROVE  Spec => []DoneMeansReclaimed
<1>1. Init => VerdictInv
  BY DEF Init, VerdictInv
<1>2. IInv /\ VerdictInv /\ [Next]_vars => VerdictInv'
  BY NextVerdict
<1>3. VerdictInv => DoneMeansReclaimed
  BY DEF VerdictInv, DoneMeansReclaimed
<1>4. QED
  BY <1>1, <1>2, <1>3, Invariance, PTL DEF Spec

\* With one invocation, the instance is torn down only after the verdict is
\* committed.
THEOREM TeardownFollowsVerdict ==
  ASSUME NEW me, Orchestrators = {me}
  PROVE  Spec => TeardownAfterVerdict
<1>1. Init => VerdictInv
  BY DEF Init, VerdictInv
<1>2. IInv /\ VerdictInv /\ [Next]_vars => VerdictInv'
  BY NextVerdict
<1>3. VerdictInv /\ [Next]_vars =>
        [vm' = "deleting" /\ vm # "deleting" => status \in Terminal]_vars
  <2> SUFFICES ASSUME VerdictInv, Next, vm' = "deleting", vm # "deleting"
               PROVE  status \in Terminal
    BY DEF vars
  <2>1. CASE DeleteInstance(me)
    BY <2>1 DEF DeleteInstance, VerdictInv
  <2>2. CASE InsertInstance(me)
    BY <2>2 DEF InsertInstance, Boot
  <2>3. CASE UNCHANGED vm
    BY <2>3
  <2>4. CASE Cloud
    BY <2>4 DEF Cloud, VmStopping, VmStopped, VmDeleted, VmVanishes
  <2>5. QED
    BY <2>1, <2>2, <2>3, <2>4
       DEF Next, Step, Environment, cloudVars, GetRunConfig, PutConfig, MarkProvisioning,
           InsertWait, MarkCreateFailed, MarkRunning, HasRunSummary, GetInstance,
           MarkCompleted, MarkFailed, DeleteWait, Crash, SubmitRun, EngineWritesSummary,
           EngineMarksStatus, EngineExits
<1>4. QED
  BY <1>1, <1>2, <1>3, Invariance, PTL DEF Spec, TeardownAfterVerdict

-----------------------------------------------------------------------------
(* One invocation and a silent engine *)

\* The row at each call of the one invocation, when nobody else writes to it.
RowInv ==
  /\ endedAt <=> status \in Terminal
  /\ \A o \in Orchestrators :
       /\ pc[o] = "getRunConfig" => status \in {NoRow, "pending"}
       /\ pc[o] \in {"putConfig", "markProvisioning"} => status = "pending"
       /\ pc[o] \in {"insert", "insertWait", "markCreateFailed", "markRunning"}
            => status = "provisioning"
       /\ pc[o] \in {"hasRunSummary", "getInstance", "markCompleted", "markFailed"}
            => status = "running"

\* A verdict stamps the end time.
LEMMA VerdictIsStamped ==
  ASSUME NEW s \in Terminal, NEW name, MarkRunStatus(s, name)
  PROVE  status' = s /\ endedAt'
BY DEF MarkRunStatus

\* A step leads from row to row and never moves the status back.
LEMMA NextRow ==
  ASSUME NEW me, Orchestrators = {me}, EngineReports = FALSE,
         IInv, RowInv, [Next]_vars
  PROVE  RowInv' /\ (status' # status => Rank(status) < Rank(status'))
<1> DEFINE RowAt(label, s) ==
      /\ label = "getRunConfig" => s \in {NoRow, "pending"}
      /\ label \in {"putConfig", "markProvisioning"} => s = "pending"
      /\ label \in {"insert", "insertWait", "markCreateFailed", "markRunning"}
           => s = "provisioning"
      /\ label \in {"hasRunSummary", "getInstance", "markCompleted", "markFailed"}
           => s = "running"
<1>1. /\ pc \in [{me} -> Labels]
      /\ endedAt \in BOOLEAN
  BY DEF IInv, TypeOK, RegistryTypeOK
<1>2. /\ endedAt <=> status \in Terminal
      /\ RowAt(pc[me], status)
  BY DEF RowInv
<1>3. SUFFICES /\ endedAt' <=> status' \in Terminal
               /\ RowAt(pc'[me], status')
               /\ status' # status => Rank(status) < Rank(status')
  BY DEF RowInv
<1> USE <1>1, <1>2 DEF Goto, cloudVars, registryVars, Terminal, NoRow
<1>4. CASE GetRunConfig(me)
  BY <1>4 DEF GetRunConfig, RowExists
<1>5. CASE PutConfig(me)
  BY <1>5 DEF PutConfig
<1>6. CASE MarkProvisioning(me)
  BY <1>6 DEF MarkProvisioning, Exec, MarkRunStatus, Rank
<1>7. CASE InsertInstance(me)
  BY <1>7 DEF InsertInstance
<1>8. CASE InsertWait(me)
  BY <1>8 DEF InsertWait
<1>9. CASE MarkCreateFailed(me)
  <2>1. MarkRunStatus("failed", InstanceName) => status' = "failed" /\ endedAt'
    BY VerdictIsStamped
  <2>2. QED
    BY <1>9, <2>1 DEF MarkCreateFailed, Exec, Rank
<1>10. CASE MarkRunning(me)
  BY <1>10 DEF MarkRunning, Exec, MarkRunStatus, Rank
<1>11. CASE HasRunSummary(me)
  BY <1>11 DEF HasRunSummary
<1>12. CASE GetInstance(me)
  BY <1>12 DEF GetInstance
<1>13. CASE MarkCompleted(me)
  <2>1. MarkRunStatus("completed", InstanceName) => status' = "completed" /\ endedAt'
    BY VerdictIsStamped
  <2>2. QED
    BY <1>13, <2>1 DEF MarkCompleted, Exec, Rank
<1>14. CASE MarkFailed(me)
  <2>1. MarkRunStatus("failed", InstanceName) => status' = "failed" /\ endedAt'
    BY VerdictIsStamped
  <2>2. QED
    BY <1>14, <2>1 DEF MarkFailed, Exec, Rank
<1>15. CASE DeleteInstance(me)
  BY <1>15 DEF DeleteInstance
<1>16. CASE DeleteWait(me)
  BY <1>16 DEF DeleteWait
<1>17. CASE Crash(me)
  BY <1>17 DEF Crash
<1>18. CASE SubmitRun
  BY <1>18 DEF SubmitRun, CreateRun, RowExists, Rank
<1>19. CASE EngineMarksStatus
  BY <1>19 DEF EngineMarksStatus
<1>20. CASE EngineWritesSummary \/ EngineExits \/ Cloud
  BY <1>20 DEF EngineWritesSummary, WriteRunSummary, EngineExits, Cloud, VmStopping,
     VmStopped, VmDeleted, VmVanishes
<1>21. CASE UNCHANGED vars
  BY <1>21 DEF vars
<1>22. QED
  BY <1>4, <1>5, <1>6, <1>7, <1>8, <1>9, <1>10, <1>11, <1>12, <1>13, <1>14, <1>15,
     <1>16, <1>17, <1>18, <1>19, <1>20, <1>21 DEF Next, Step, Environment

\* With one invocation and a silent engine, the end time in the row agrees with
\* the status, whichever calls fail.
THEOREM EndTimeAgrees ==
  ASSUME NEW me, Orchestrators = {me}, EngineReports = FALSE
  PROVE  Spec => []EndedAtAgreesWithStatus
<1>1. Init => RowInv
  BY DEF Init, RegistryInit, RowInv, Terminal, NoRow
<1>2. IInv /\ RowInv /\ [Next]_vars => RowInv'
  BY NextRow
<1>3. RowInv => EndedAtAgreesWithStatus
  BY DEF RowInv, EndedAtAgreesWithStatus
<1>4. QED
  BY <1>1, <1>2, <1>3, Invariance, PTL DEF Spec

\* With one invocation and a silent engine, the status only moves forward and
\* a verdict is final, whichever calls fail.
THEOREM StatusOnlyMovesForward ==
  ASSUME NEW me, Orchestrators = {me}, EngineReports = FALSE
  PROVE  Spec => StatusMovesForward
<1>1. Init => RowInv
  BY DEF Init, RegistryInit, RowInv, Terminal, NoRow
<1>2. IInv /\ RowInv /\ [Next]_vars => RowInv'
  BY NextRow
<1>3. IInv /\ RowInv /\ [Next]_vars =>
        [status' # status => Rank(status) < Rank(status')]_vars
  BY NextRow
<1>4. QED
  BY <1>1, <1>2, <1>3, Invariance, PTL DEF Spec, StatusMovesForward

-----------------------------------------------------------------------------
(* The calls implement the life of a run *)

\* The engine runs only on an instance.
EngineIsOnVm == engine = "running" => vm # "absent"

\* A boot starts the instance and the process together, and an instance that goes
\* takes the process with it.
LEMMA NextEngineIsOnVm == IInv /\ EngineIsOnVm /\ [Next]_vars => EngineIsOnVm'
<1> SUFFICES ASSUME EngineIsOnVm, [Next]_vars PROVE EngineIsOnVm'
  OBVIOUS
<1>1. CASE UNCHANGED <<vm, engine>>
  BY <1>1 DEF EngineIsOnVm
<1>2. ASSUME NEW o \in Orchestrators, InsertInstance(o) \/ DeleteInstance(o)
      PROVE  EngineIsOnVm'
  BY <1>2 DEF InsertInstance, Boot, DeleteInstance, EngineIsOnVm
<1>3. CASE EngineMarksStatus \/ EngineExits \/ Cloud
  BY <1>3 DEF EngineMarksStatus, EngineExits, Cloud, VmStopping, VmStopped, VmDeleted,
     VmVanishes, EngineIsOnVm
<1>4. QED
  BY <1>1, <1>2, <1>3
     DEF Next, Step, Environment, vars, cloudVars, GetRunConfig, PutConfig,
         MarkProvisioning, InsertWait, MarkCreateFailed, MarkRunning, HasRunSummary,
         GetInstance, MarkCompleted, MarkFailed, DeleteWait, Crash, SubmitRun,
         EngineWritesSummary

\* Every step of the invocation, of the engine and of the cloud is a step in the
\* life of the run or does not show in it.
LEMMA StepImplementsLifecycle ==
  ASSUME NEW me, Orchestrators = {me}, EngineReports = FALSE,
         IInv, RowInv, EngineIsOnVm, [Next]_vars
  PROVE  [Lifecycle!Next]_<<status, vm # "absent", hasSummary>>
<1> DEFINE up == vm # "absent"
<1>1. /\ pc[me] \in {"putConfig", "markProvisioning"} => status = "pending"
      /\ pc[me] \in {"insert", "insertWait", "markCreateFailed", "markRunning"}
           => status = "provisioning"
      /\ pc[me] \in {"hasRunSummary", "getInstance", "markCompleted", "markFailed"}
           => status = "running"
      /\ pc[me] = "markCompleted" => hasSummary
  BY DEF RowInv, IInv, SummarySeen
<1>2. CASE UNCHANGED <<status, vm, hasSummary>>
  BY <1>2
<1> USE DEF Lifecycle!Next, Lifecycle!Advance
<1>3. CASE MarkProvisioning(me)
  BY <1>1, <1>3 DEF MarkProvisioning, Exec, MarkRunStatus, registryVars, cloudVars,
     Lifecycle!Provision
<1>4. CASE InsertInstance(me)
  BY <1>1, <1>4 DEF InsertInstance, Boot, registryVars, Lifecycle!Boot
<1>5. CASE MarkCreateFailed(me)
  BY <1>1, <1>5 DEF MarkCreateFailed, Exec, MarkRunStatus, registryVars, cloudVars,
     Lifecycle!Abandon
<1>6. CASE MarkRunning(me)
  BY <1>1, <1>6 DEF MarkRunning, Exec, MarkRunStatus, registryVars, cloudVars,
     Lifecycle!Run
<1>7. CASE MarkCompleted(me)
  BY <1>1, <1>7 DEF MarkCompleted, Exec, MarkRunStatus, registryVars, cloudVars,
     Lifecycle!Complete
<1>8. CASE MarkFailed(me)
  BY <1>1, <1>8 DEF MarkFailed, Exec, MarkRunStatus, registryVars, cloudVars,
     Lifecycle!Lose
<1>9. CASE DeleteInstance(me)
  BY <1>9 DEF DeleteInstance, registryVars
<1>10. CASE SubmitRun
  BY <1>10 DEF SubmitRun, CreateRun, RowExists, NoRow, cloudVars, Lifecycle!Submit
<1>11. CASE EngineWritesSummary
  BY <1>11 DEF EngineWritesSummary, EngineIsOnVm, WriteRunSummary, cloudVars,
     Lifecycle!Report
<1>12. CASE EngineMarksStatus
  BY <1>12 DEF EngineMarksStatus
<1>13. CASE Cloud
  BY <1>13 DEF Cloud, VmStopping, VmStopped, VmDeleted, VmVanishes, registryVars,
     Lifecycle!Gone
<1>14. QED
  BY <1>2, <1>3, <1>4, <1>5, <1>6, <1>7, <1>8, <1>9, <1>10, <1>11, <1>12, <1>13
     DEF Next, Step, Environment, vars, cloudVars, registryVars, GetRunConfig, PutConfig,
         InsertWait, HasRunSummary, GetInstance, DeleteWait, Crash, EngineExits

\* With one invocation and a silent engine, the orchestrator, the cloud and the
\* engine implement the life of a run, whichever calls fail and whoever dies.
THEOREM OrchestratorImplementsLifecycle ==
  ASSUME NEW me, Orchestrators = {me}, EngineReports = FALSE
  PROVE  Spec => ImplementsLifecycle
<1>1. Init => RowInv /\ EngineIsOnVm /\ Lifecycle!Init
  BY DEF Init, RegistryInit, RowInv, Terminal, NoRow, EngineIsOnVm, Lifecycle!Init
<1>2. IInv /\ RowInv /\ [Next]_vars => RowInv'
  BY NextRow
<1>3. IInv /\ RowInv /\ EngineIsOnVm /\ [Next]_vars
        => [Lifecycle!Next]_<<status, vm # "absent", hasSummary>>
  BY StepImplementsLifecycle
<1>4. QED
  BY <1>1, <1>2, <1>3, NextEngineIsOnVm, Invariance, PTL
     DEF Spec, ImplementsLifecycle, Lifecycle!Spec, Lifecycle!vars
=============================================================================
