---------------------------- MODULE RunLifecycle ----------------------------
(***************************************************************************)
(* The durable lifecycle of one Task and its Run, as driven by             *)
(* RecoveringOrchestrator (src/lhas/orchestrator_v2.py) through the        *)
(* decisions of ResumeDecisionService (src/lhas/resume.py).                *)
(*                                                                         *)
(* Every repository call commits one transaction.  An action below is one  *)
(* such commit (or one call into the executor or the validator), so that   *)
(* the process may die between any two of them.  What the tables hold      *)
(* survives; the position in the code, pc, does not: a new process always  *)
(* starts from resume_run or resume_task and re-reads the tables.          *)
(*                                                                         *)
(* Events are audit records that no decision reads and are left out.       *)
(***************************************************************************)
EXTENDS FailurePolicy, Sequences

CONSTANTS
  MaxAttempts,       \* Task.max_attempts
  LoopGuard,         \* turns of the loop in _continue_run (256 in the code)
  WorkspaceEnabled,  \* a RunWorkspaceManager is configured
  Native,            \* run.executor_type = "NativeAgentExecutor"
  Controlled,        \* an ExecutionControlToken is attached
  Errors,            \* structured error types the executor may report
  MaxCrashes,        \* bound: process deaths
  MaxTaskResumes     \* bound: calls of resume_task

ASSUME RunConstants ==
  /\ MaxAttempts \in Nat \ {0}
  /\ LoopGuard \in Nat
  /\ WorkspaceEnabled \in BOOLEAN
  /\ Native \in BOOLEAN
  /\ Controlled \in BOOLEAN
  /\ Errors \subseteq FailureTypes
  /\ MaxCrashes \in Nat
  /\ MaxTaskResumes \in Nat

VARIABLES
  task,      \* TaskRow.status
  run,       \* RunRow.status, None before the row exists
  binding,   \* WorkspaceSessionRow.state, None before the row exists
  root,      \* the session directory has been published
  attempts,  \* AttemptRows in attempt order, each with the rows keyed by it
  pc,        \* where the orchestrator process is, "idle" when there is none
  turns,     \* turns of _continue_run taken by this process
  migrating, \* resume_task is ensuring the workspace before a target switch
  crashes,   \* process deaths so far
  resumes    \* calls of resume_task so far

tables == <<task, run, binding, root, attempts>>
bounds == <<crashes, resumes>>
vars == <<task, run, binding, root, attempts, pc, turns, migrating,
          crashes, resumes>>

----------------------------------------------------------------------------
TaskStatuses == {"CREATED", "RUNNING", "COMPLETED", "FAILED", "ESCALATED",
                 "CANCELLED", "BLOCKED_PROVIDER"}
RunStatuses == TaskStatuses
FinalStatuses == {"COMPLETED", "FAILED", "ESCALATED", "CANCELLED"}
AttemptStatuses == {"PENDING", "RUNNING", "COMPLETED", "FAILED", "TIMED_OUT",
                    "CRASHED"}
EndedStatuses == AttemptStatuses \ {"PENDING", "RUNNING"}

\* Error types the orchestrator itself stamps on an attempt.
OwnErrors == {"TimeoutError", "EXECUTOR_TIMEOUT", "Exception",
              "ROOT_CONTROL_TERMINATED", "PROCESS_INTERRUPTED"}

\* One attempt and the rows that are looked up by its id.
Row == [ status  : AttemptStatuses,
         etype   : Errors \cup OwnErrors \cup {None}, \* error_type
         emsg    : Errors \cup {None},     \* signature in error_message
         result  : Errors \cup {"SUCCESS", None},  \* executor_result
         snap    : {None, "row", "linked"},    \* ContextSnapshotRow
         verdict : {"pass", "fail", None},     \* ValidationResultRow.passed
         report  : FailureTypes \cup {None},   \* FailureReportRow
         ftype   : FailureTypes \cup {None},   \* AttemptRow.failure_type
         action  : RecoveryActions \cup {None},   \* RecoveryActionRow
         ckpt    : BOOLEAN ]                   \* a CheckpointRow exists

NewAttempt == [ status |-> "PENDING", etype |-> None, emsg |-> None,
                result |-> None, snap |-> None, verdict |-> None,
                report |-> None, ftype |-> None, action |-> None,
                ckpt |-> FALSE ]

Latest == attempts[Len(attempts)]

\* Only the row of the latest attempt is ever written.
Write(row) == attempts' = [attempts EXCEPT ![Len(attempts)] = row]

----------------------------------------------------------------------------
(***************************************************************************)
(* ResumeDecisionService.decide: one next action from the tables alone.    *)
(***************************************************************************)

\* The newest checkpoint of the run belongs to the latest attempt.  Checkpoints
\* are only created for the attempt that is the latest at that time.
CheckpointMatches == Latest.ckpt

\* A broken RecoveryDecision: the checkpoint is not waited for.
RecoveryDecisionNoCheckpoint ==
  IF Latest.action = None THEN "CONTINUE_PERSISTED_RECOVERY"
  ELSE IF Latest.action \notin RetryActions THEN "RETURN_TERMINAL"
  ELSE "START_NEXT_ATTEMPT"

\* What remains to be decided once the attempt has ended and is reported.
RecoveryDecision ==
  IF Latest.action = None THEN "CONTINUE_PERSISTED_RECOVERY"
  ELSE IF Latest.action \notin RetryActions THEN "RETURN_TERMINAL"
  ELSE IF ~CheckpointMatches THEN "CONTINUE_PERSISTED_RECOVERY"
  ELSE "START_NEXT_ATTEMPT"

ReportDecision ==
  IF Latest.report = None THEN "CLASSIFY_FAILURE" ELSE RecoveryDecision

\* Broken forms of JudgedDecision: the executor's claim is trusted, a pass is
\* not looked at, the validation is repeated until the failure is reported.
JudgedDecisionTrusting ==
  IF Latest.verdict = "pass" \/ Latest.status = "COMPLETED"
    THEN "COMPLETE_FROM_PERSISTED_VALIDATION"
  ELSE ReportDecision

\* An attempt whose outcome the validator judges before any classification.
JudgedDecision ==
  IF Latest.verdict = None THEN "VALIDATE_ATTEMPT"
  ELSE IF Latest.verdict = "pass" THEN "COMPLETE_FROM_PERSISTED_VALIDATION"
  ELSE ReportDecision

AttemptDecision ==
  CASE Latest.status = "PENDING" -> "START_PENDING_ATTEMPT"
    [] Latest.status = "RUNNING" ->
         IF Native THEN "RESUME_NATIVE_ATTEMPT"
         ELSE IF WorkspaceEnabled THEN "RECOVER_INTERRUPTED_ATTEMPT"
         ELSE "CLASSIFY_FAILURE"
    [] Latest.status = "COMPLETED" -> JudgedDecision
    [] Latest.status \in {"FAILED", "TIMED_OUT"} ->
         IF WorkspaceEnabled THEN JudgedDecision ELSE ReportDecision
    [] Latest.status = "CRASHED" ->
         IF /\ WorkspaceEnabled
            /\ Latest.etype = "PROCESS_INTERRUPTED"
            /\ Latest.verdict = None
           THEN "RECOVER_INTERRUPTED_ATTEMPT"
         ELSE IF Latest.verdict = "pass"
           THEN "COMPLETE_FROM_PERSISTED_VALIDATION"
         ELSE ReportDecision

Decision ==
  IF run # "RUNNING" THEN "RETURN_TERMINAL"
  ELSE IF WorkspaceEnabled /\ binding \in {None, "CREATING"}
    THEN "INITIALIZE_WORKSPACE"
  ELSE IF attempts = <<>> THEN "START_FIRST_ATTEMPT"
  ELSE AttemptDecision

----------------------------------------------------------------------------
Init ==
  /\ task = "CREATED" /\ run = None /\ binding = None /\ root = FALSE
  /\ attempts = <<>>
  /\ pc = "idle" /\ turns = 0 /\ migrating = FALSE
  /\ crashes = 0 /\ resumes = 0

Goto(from, to) == pc = from /\ pc' = to

Local == <<turns, migrating>>

\* resume_run accepts the run: otherwise it returns it or raises at once.
Resumable == run = "RUNNING" /\ (WorkspaceEnabled \/ Native)

(***************************************************************************)
(* execute_task: prepare_task_run then continue_prepared_run.              *)
(***************************************************************************)
PrepareTask ==
  /\ task = "CREATED"
  /\ Goto("idle", "createRun")
  /\ task' = "RUNNING"
  /\ UNCHANGED <<run, binding, root, attempts, Local, bounds>>

CreateRun ==
  /\ Goto("createRun", "startRun")
  /\ run' = "CREATED"
  /\ UNCHANGED <<task, binding, root, attempts, Local, bounds>>

StartRun ==
  /\ Goto("startRun", "ensure")
  /\ run' = "RUNNING"
  /\ UNCHANGED <<task, binding, root, attempts, Local, bounds>>

(***************************************************************************)
(* RunWorkspaceManager.ensure_for_run, re-entered until the binding is     *)
(* OPEN; a published root left by a dead process is adopted.               *)
(***************************************************************************)
EnsureCreate ==
  /\ WorkspaceEnabled /\ binding = None
  /\ Goto("ensure", "ensure")
  /\ binding' = "CREATING"
  /\ UNCHANGED <<task, run, root, attempts, Local, bounds>>

EnsurePublish ==
  /\ WorkspaceEnabled /\ binding = "CREATING" /\ ~root
  /\ Goto("ensure", "ensure")
  /\ root' = TRUE
  /\ UNCHANGED <<task, run, binding, attempts, Local, bounds>>

EnsureOpen ==
  /\ WorkspaceEnabled /\ binding = "CREATING" /\ root
  /\ Goto("ensure", "ensure")
  /\ binding' = "OPEN"
  /\ UNCHANGED <<task, run, root, attempts, Local, bounds>>

EnsureDone ==
  /\ ~WorkspaceEnabled \/ binding \in {"OPEN", "COMPLETED"}
  /\ Goto("ensure", IF migrating THEN "switch" ELSE "loop")
  /\ UNCHANGED <<tables, Local, bounds>>

(***************************************************************************)
(* resume_run and resume_task.                                             *)
(***************************************************************************)
ResumeRun ==
  /\ Resumable
  /\ Goto("idle", "ensure")
  /\ UNCHANGED <<tables, Local, bounds>>

\* resume_task with a runtime target: the provider migration.
MigrateTask ==
  /\ resumes < MaxTaskResumes /\ resumes' = resumes + 1
  /\ run \in {"RUNNING", "BLOCKED_PROVIDER"} /\ Native
  /\ Goto("idle", "ensure")
  /\ migrating' = TRUE
  /\ UNCHANGED <<tables, turns, crashes>>

\* The switch either commits or makes resume_task raise.
SwitchTarget ==
  /\ pc = "switch"
  /\ pc' \in {"unparkTask", "idle"}
  /\ migrating' = FALSE
  /\ UNCHANGED <<tables, turns, bounds>>

UnparkTask ==
  /\ Goto("unparkTask", "unparkRun")
  /\ task' = IF task = "BLOCKED_PROVIDER" THEN "RUNNING" ELSE task
  /\ UNCHANGED <<run, binding, root, attempts, Local, bounds>>

UnparkRun ==
  /\ Goto("unparkRun", "reopen")
  /\ run' = IF run = "BLOCKED_PROVIDER" THEN "RUNNING" ELSE run
  /\ UNCHANGED <<task, binding, root, attempts, Local, bounds>>

\* resume_task without a target goes straight to the latest attempt.
ResumeTask ==
  /\ resumes < MaxTaskResumes /\ resumes' = resumes + 1
  /\ run # None /\ "BLOCKED_PROVIDER" \notin {task, run}
  /\ Goto("idle", "reopen")
  /\ UNCHANGED <<tables, Local, crashes>>

\* A native attempt that ended on a blocked provider runs again as it is; then
\* resume_run is called.
ReopenAttempt ==
  /\ Goto("reopen", IF Resumable THEN "ensure" ELSE "idle")
  /\ IF Native /\ attempts # <<>> /\ Latest.etype \in ProviderBlocked
       THEN Write([Latest EXCEPT !.status = "RUNNING",
                                 !.etype = None, !.emsg = None])
       ELSE UNCHANGED attempts
  /\ UNCHANGED <<task, run, binding, root, Local, bounds>>

----------------------------------------------------------------------------
(***************************************************************************)
(* _continue_run: one durable action per turn, re-reading the tables.      *)
(***************************************************************************)

Turn(decision, to) ==
  /\ pc = "loop" /\ turns < LoopGuard
  /\ Decision = decision
  /\ pc' = to
  /\ turns' = IF to = "idle" THEN 0 ELSE turns + 1
  /\ UNCHANGED <<migrating, bounds>>

\* RESUME_STATE_MACHINE_GUARD_EXCEEDED is raised.
LoopExhausted ==
  /\ turns >= LoopGuard
  /\ Goto("loop", "idle")
  /\ turns' = 0
  /\ UNCHANGED <<tables, migrating, bounds>>

\* _execute_attempt: create the attempt unless a pending one is there.
CreateAttempt ==
  /\ \/ Turn("START_FIRST_ATTEMPT", "startAttempt")
     \/ Turn("START_NEXT_ATTEMPT", "startAttempt")
  /\ attempts' = Append(attempts, NewAttempt)
  /\ UNCHANGED <<task, run, binding, root>>

StartPending ==
  /\ Turn("START_PENDING_ATTEMPT", "startAttempt")
  /\ UNCHANGED tables

\* A commit of _execute_attempt or of the calls it makes.
Step(from, to) == Goto(from, to) /\ UNCHANGED <<turns, migrating, bounds>>

StartAttempt ==
  /\ Step("startAttempt", "buildContext")
  /\ Write([Latest EXCEPT !.status = "RUNNING"])
  /\ UNCHANGED <<task, run, binding, root>>

BuildContext ==
  /\ Step("buildContext", "linkContext")
  /\ Write([Latest EXCEPT !.snap = "row"])
  /\ UNCHANGED <<task, run, binding, root>>

LinkContext ==
  /\ Step("linkContext", "executing")
  /\ Write([Latest EXCEPT !.snap = "linked"])
  /\ UNCHANGED <<task, run, binding, root>>

\* _resume_native_attempt: the same attempt is executed again.  Whether it had a
\* failed validation is read now and used after the execution.
ResumeNative ==
  /\ Turn("RESUME_NATIVE_ATTEMPT",
          IF Latest.verdict = "fail" THEN "reexecuting" ELSE "executing")
  /\ UNCHANGED tables

(***************************************************************************)
(* _run_executor and the single commit of _finalize_attempt.  A structured *)
(* result is kept with the attempt; an exception leaves the result of an   *)
(* earlier execution of the same attempt in place.                         *)
(***************************************************************************)
Working == {"executing", "reexecuting"}

Return(to) == pc \in Working /\ pc' = to /\ UNCHANGED <<turns, migrating, bounds>>

Finalize(status, etype, emsg, result) ==
  /\ Write([Latest EXCEPT !.status = status, !.etype = etype,
                          !.emsg = emsg, !.result = result])
  /\ UNCHANGED <<task, run, binding, root>>

\* While it works, a native executor has its claims validated, each verdict in
\* a new row of which the newest counts (CompletionAuthority._validate).
ExecutorJudges ==
  /\ Native /\ pc \in Working
  /\ \E v \in {"pass", "fail"} : Write([Latest EXCEPT !.verdict = v])
  /\ UNCHANGED <<task, run, binding, root, pc, Local, bounds>>

\* A resumed attempt that had a failed validation is validated again.
ExecutorSucceeds ==
  /\ Return(IF pc = "reexecuting" THEN "revalidate" ELSE "loop")
  /\ Finalize("COMPLETED", None, None, "SUCCESS")

\* FAILURE, TIMEOUT or CRASH returned as data (a native executor only returns
\* FAILURE); its message repeats its type.
ExecutorFails ==
  /\ Return("loop")
  /\ \E e \in Errors, status \in {"FAILED", "TIMED_OUT", "CRASHED"} :
       /\ Native => status = "FAILED"
       /\ Finalize(status, e, e, e)

ExecutorTimesOut ==
  /\ Return("loop")
  /\ Finalize("TIMED_OUT",
              IF Controlled THEN "EXECUTOR_TIMEOUT" ELSE "TimeoutError",
              None, Latest.result)

ExecutorRaises ==
  /\ Return("loop")
  /\ \E m \in Errors \cup {None} :
       Finalize("CRASHED", "Exception", m, Latest.result)

\* The root control token cancelled the run or its deadline passed.
ControlTerminates ==
  /\ Controlled
  /\ Return("cancelRun")
  /\ Finalize("FAILED", "ROOT_CONTROL_TERMINATED", None, Latest.result)

CancelRun ==
  /\ Step("cancelRun", "cancelTask")
  /\ run' = "CANCELLED"
  /\ UNCHANGED <<task, binding, root, attempts>>

CancelTask ==
  /\ Step("cancelTask", "loop")
  /\ task' = "CANCELLED"
  /\ UNCHANGED <<run, binding, root, attempts>>

----------------------------------------------------------------------------
\* The validator's verdict on the latest attempt becomes a durable row.
Judge ==
  /\ \E v \in {"pass", "fail"} : Write([Latest EXCEPT !.verdict = v])
  /\ UNCHANGED <<task, run, binding, root>>

\* _validate_result returns a pass that is already there.
Revalidate ==
  /\ Step("revalidate", "loop")
  /\ IF Latest.verdict = "pass" THEN UNCHANGED tables ELSE Judge

ValidateAttempt == Turn("VALIDATE_ATTEMPT", "loop") /\ Judge

\* _recover_interrupted_attempt: first the attempt is marked interrupted ...
MarkInterrupted ==
  /\ Turn("RECOVER_INTERRUPTED_ATTEMPT", "judgeRecovered")
  /\ Latest.status = "RUNNING"
  /\ Write([Latest EXCEPT !.status = "CRASHED", !.etype = "PROCESS_INTERRUPTED",
                          !.emsg = None])
  /\ UNCHANGED <<task, run, binding, root>>

\* ... then the workspace it left behind is validated, unless it has been.
JudgeRecovered ==
  /\ Step("judgeRecovered", "loop")
  /\ IF Latest.verdict = None THEN Judge ELSE UNCHANGED tables

\* The process died between those two commits.
JudgeInterrupted ==
  /\ Turn("RECOVER_INTERRUPTED_ATTEMPT", "loop")
  /\ Latest.status = "CRASHED"
  /\ Judge

\* _classify_state: the report row, then AttemptRow.failure_type.
ClassifyFailure ==
  LET typed == {Latest.etype, Latest.result}
      text  == typed \cup {Latest.emsg}
  IN  /\ Turn("CLASSIFY_FAILURE", "stampFailure")
      /\ Write([Latest EXCEPT !.report =
                  Classify(Latest.status, text, typed, Latest.verdict)])
      /\ UNCHANGED <<task, run, binding, root>>

StampFailure ==
  /\ Step("stampFailure", "loop")
  /\ Write([Latest EXCEPT !.ftype = Latest.report])
  /\ UNCHANGED <<task, run, binding, root>>

\* _continue_recovery: the action row unless there is one, then the checkpoint
\* unless the newest one belongs to this attempt.
DecideRecovery ==
  /\ Turn("CONTINUE_PERSISTED_RECOVERY", "checkpoint")
  /\ Write([Latest EXCEPT !.action =
              IF @ = None THEN Decide(Latest.report, Len(attempts), MaxAttempts)
              ELSE @])
  /\ UNCHANGED <<task, run, binding, root>>

\* A broken CreateCheckpoint: the row does not name this attempt.
CreateCheckpointLost ==
  /\ Step("checkpoint", "loop")
  /\ UNCHANGED tables

CreateCheckpoint ==
  /\ Step("checkpoint", "loop")
  /\ Write([Latest EXCEPT !.ckpt = TRUE])
  /\ UNCHANGED <<task, run, binding, root>>

----------------------------------------------------------------------------
\* A broken CompleteRun: the task is written first.
CompleteTaskFirst ==
  /\ Turn("COMPLETE_FROM_PERSISTED_VALIDATION", "completeTask")
  /\ task' = "COMPLETED"
  /\ UNCHANGED <<run, binding, root, attempts>>

\* _complete_from_state: run, task and workspace, one commit each.
CompleteRun ==
  /\ Turn("COMPLETE_FROM_PERSISTED_VALIDATION", "completeTask")
  /\ run' = "COMPLETED"
  /\ UNCHANGED <<task, binding, root, attempts>>

CompleteTask ==
  /\ Goto("completeTask", IF WorkspaceEnabled THEN "closeWorkspace" ELSE "idle")
  /\ task' = "COMPLETED"
  /\ turns' = 0
  /\ UNCHANGED <<run, binding, root, attempts, migrating, bounds>>

CloseWorkspace ==
  /\ Step("closeWorkspace", "idle")
  /\ binding' = "COMPLETED"
  /\ UNCHANGED <<task, run, root, attempts>>

\* _finish_from_state.  The run is already terminal, or no action is persisted
\* (RUN_NOT_RESUMABLE is raised).
ReturnTerminal ==
  /\ Turn("RETURN_TERMINAL", "idle")
  /\ run # "RUNNING" \/ Latest.action = None
  /\ UNCHANGED tables

\* BLOCK_PROVIDER parks the task first, then the run.
ParkTask ==
  /\ Turn("RETURN_TERMINAL", "parkRun")
  /\ run = "RUNNING" /\ Latest.action = "BLOCK_PROVIDER"
  /\ task' = "BLOCKED_PROVIDER"
  /\ UNCHANGED <<run, binding, root, attempts>>

ParkRun ==
  /\ Goto("parkRun", "idle")
  /\ run' = "BLOCKED_PROVIDER"
  /\ turns' = 0
  /\ UNCHANGED <<task, binding, root, attempts, migrating, bounds>>

\* Every other terminal action ends the run, then the task.
FinishRun ==
  /\ Turn("RETURN_TERMINAL", "finishTask")
  /\ run = "RUNNING" /\ Latest.action \notin {None, "BLOCK_PROVIDER"}
  /\ run' = IF Latest.action = "ESCALATE" THEN "ESCALATED" ELSE "FAILED"
  /\ UNCHANGED <<task, binding, root, attempts>>

FinishTask ==
  /\ Goto("finishTask", "idle")
  /\ task' = run
  /\ turns' = 0
  /\ UNCHANGED <<run, binding, root, attempts, migrating, bounds>>

----------------------------------------------------------------------------
\* The process dies: the tables stay, everything else is gone.
Crash ==
  /\ pc # "idle" /\ pc' = "idle"
  /\ crashes < MaxCrashes /\ crashes' = crashes + 1
  /\ turns' = 0 /\ migrating' = FALSE
  /\ UNCHANGED <<tables, resumes>>

\* What a live process does by itself, once called.
Progress ==
  \/ CreateRun \/ StartRun
  \/ EnsureCreate \/ EnsurePublish \/ EnsureOpen \/ EnsureDone
  \/ SwitchTarget \/ UnparkTask \/ UnparkRun \/ ReopenAttempt
  \/ LoopExhausted \/ CreateAttempt \/ StartPending
  \/ StartAttempt \/ BuildContext \/ LinkContext \/ ResumeNative
  \/ ExecutorSucceeds \/ ExecutorFails \/ ExecutorTimesOut \/ ExecutorRaises
  \/ ControlTerminates \/ CancelRun \/ CancelTask
  \/ Revalidate \/ ValidateAttempt
  \/ MarkInterrupted \/ JudgeRecovered \/ JudgeInterrupted
  \/ ClassifyFailure \/ StampFailure \/ DecideRecovery \/ CreateCheckpoint
  \/ CompleteRun \/ CompleteTask \/ CloseWorkspace
  \/ ReturnTerminal \/ ParkTask \/ ParkRun \/ FinishRun \/ FinishTask

Next ==
  \/ PrepareTask \/ ResumeRun \/ MigrateTask \/ ResumeTask
  \/ Progress
  \/ ExecutorJudges
  \/ Crash

Spec == Init /\ [][Next]_vars

(***************************************************************************)
(* A live process keeps going: every executor call is bounded by the       *)
(* task's timeout and every other step is a local commit.  An interrupted  *)
(* run is resumed sooner or later (odys resume, cli.py).                   *)
(***************************************************************************)
FairSpec == Spec /\ WF_vars(Progress) /\ WF_vars(ResumeRun)

----------------------------------------------------------------------------
Locations ==
  { "idle", "createRun", "startRun", "ensure", "loop", "startAttempt",
    "buildContext", "linkContext", "executing", "reexecuting", "cancelRun",
    "cancelTask", "revalidate", "judgeRecovered", "stampFailure", "checkpoint",
    "completeTask", "closeWorkspace", "parkRun", "finishTask", "switch",
    "unparkTask", "unparkRun", "reopen" }

\* Every table holds what its columns allow, and every counter is in bounds.
TypeOK ==
  /\ task \in TaskStatuses
  /\ run \in RunStatuses \cup {None}
  /\ binding \in {None, "CREATING", "OPEN", "COMPLETED"}
  /\ root \in BOOLEAN
  /\ attempts \in Seq(Row)
  /\ pc \in Locations
  /\ turns \in 0..LoopGuard
  /\ migrating \in BOOLEAN
  /\ crashes \in 0..MaxCrashes
  /\ resumes \in 0..MaxTaskResumes

\* Attempt numbers, which crashes and resumes restart from the tables, never
\* exceed Task.max_attempts (DefaultRecoveryPolicy.decide).
RetryBudget == Len(attempts) <= MaxAttempts

\* RecoveryDecision(N) -> Checkpoint(N) -> Attempt(N+1) is the only order, and
\* no attempt follows one that passed validation (resume.py, decide), except
\* that without a workspace a native attempt which failed after its own pass is
\* classified without a look at the verdict.
RetryOrder ==
  \A n \in 1..(Len(attempts) - 1) :
    /\ attempts[n].status \in EndedStatuses
    /\ attempts[n].verdict = "pass" => Native /\ ~WorkspaceEnabled
    /\ attempts[n].report # None
    /\ attempts[n].action \in RetryActions
    /\ attempts[n].ckpt

\* A run is COMPLETED only on a persisted validation pass of its last attempt,
\* whatever the executor claimed and whoever resumed it (_complete_from_state).
ValidatorBackedCompletion ==
  run = "COMPLETED" => attempts # <<>> /\ Latest.verdict = "pass"

\* The task never gets ahead of its run, nor the workspace of the task: the
\* order of the commits in _complete, _finish_from_state and _run_executor.
TaskFollowsRun ==
  /\ task \in FinalStatuses => run = task
  /\ binding = "COMPLETED" => task = "COMPLETED"

\* Once an attempt has ended and its pass is persisted, no step runs the executor
\* or the validator again (resume.py, decide).
NoWorkAfterPass ==
  [][ /\ attempts # <<>>
      /\ Latest.verdict = "pass" /\ Latest.status \in EndedStatuses
      => attempts' = attempts /\ pc' \notin Working ]_vars

\* A RUNNING run reaches a terminal or parked status although its process may
\* die between any two commits.
RunEnds == (run = "RUNNING") ~> (run # "RUNNING")

----------------------------------------------------------------------------
(***************************************************************************)
(* Claims of the repository that the code does not keep.                   *)
(***************************************************************************)

============================================================================
