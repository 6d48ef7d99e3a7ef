-------------------------- MODULE Observers_proofs --------------------------
(***************************************************************************)
(* What is said of a run while others drive it: the reports and the health *)
(* of the odys command (ProductCli), and the escalations and takeovers of  *)
(* the recovery control plane (RecoveryControl).                           *)
(*                                                                         *)
(* Every step of the command is a step of the run, or leaves it alone, so  *)
(* that the inductive invariant of RunLifecycle_proofs is at hand.  To it  *)
(* come: the rows on which a run may have ended (Grounded), what the       *)
(* command remembers (FrontInv), what a reading in progress has read so    *)
(* far (LookInv) and the age of the events (LiveInv).  The control plane   *)
(* is independent of both.                                                 *)
(***************************************************************************)
EXTENDS RunLifecycle_proofs, ProductCli, RecoveryControl

----------------------------------------------------------------------------
(* The run under a command.                                                  *)

\* What a command does to the run: everything but resume_task without a target.
RunMoves ==
  \/ PrepareTask \/ ResumeRun \/ MigrateTask \/ Progress \/ ExecutorJudges \/ Crash
  \/ UNCHANGED vars

\* The rows on which a run has ended.
EndIsGrounded ==
  /\ attempts # << >> /\ Latest.status \in EndedStatuses
  /\ run \in {"FAILED", "ESCALATED"} =>
       Latest.verdict # "pass" /\ Latest.action \notin RetryActions \cup {None}

Grounded ==
  /\ attempts # << >> => (Latest.ckpt => Latest.action # None)
  /\ pc = "checkpoint" => ~Latest.ckpt
  /\ pc = "cancelRun" => Latest.status \in EndedStatuses
  /\ pc = "reopen" => run = "RUNNING"
  /\ run \in FinalStatuses => EndIsGrounded

\* What the decisions that end a run, and the one that leads to a checkpoint,
\* say of the latest attempt.
LEMMA EndingFacts ==
  ASSUME attempts # << >> => Latest \in Row
  PROVE  /\ Decision = "COMPLETE_FROM_PERSISTED_VALIDATION" => Latest.status \in EndedStatuses
         /\ Decision = "RETURN_TERMINAL" /\ run = "RUNNING" =>
              /\ attempts # << >> /\ Latest.status \in EndedStatuses
              /\ Latest.verdict # "pass" /\ Latest.action \notin RetryActions
         /\ Decision = "CONTINUE_PERSISTED_RECOVERY" => Latest.action = None \/ ~Latest.ckpt
<1> USE CliConstants
<1>1. CASE attempts = << >>
  BY <1>1 DEF Decision
<1>2. CASE attempts # << >>
  <2> DEFINE r == Latest
  <2>1. r.status \in AttemptStatuses
    BY <1>2 DEF Row
  <2>2. /\ RecoveryDecision = "RETURN_TERMINAL" => r.action \notin RetryActions
        /\ RecoveryDecision = "CONTINUE_PERSISTED_RECOVERY" => r.action = None \/ ~r.ckpt
        /\ RecoveryDecision # "COMPLETE_FROM_PERSISTED_VALIDATION"
    BY DEF RecoveryDecision, CheckpointMatches
  <2>3. ReportDecision = "CLASSIFY_FAILURE" \/ ReportDecision = RecoveryDecision
    BY DEF ReportDecision
  <2>4. \/ JudgedDecision \in {"VALIDATE_ATTEMPT", "COMPLETE_FROM_PERSISTED_VALIDATION"}
        \/ JudgedDecision = ReportDecision /\ r.verdict # "pass"
    BY DEF JudgedDecision
  <2>5. \/ AttemptDecision \in {"START_PENDING_ATTEMPT", "RESUME_NATIVE_ATTEMPT",
                                "RECOVER_INTERRUPTED_ATTEMPT", "CLASSIFY_FAILURE"}
        \/ AttemptDecision = JudgedDecision /\ r.status \in EndedStatuses
        \/ /\ AttemptDecision = ReportDecision /\ r.status \in EndedStatuses
           /\ r.verdict # "pass"
        \/ /\ AttemptDecision = "COMPLETE_FROM_PERSISTED_VALIDATION"
           /\ r.status \in EndedStatuses
    BY <2>1 DEF AttemptDecision, AttemptStatuses, EndedStatuses
  <2>6. \/ run # "RUNNING" /\ Decision = "RETURN_TERMINAL"
        \/ run = "RUNNING" /\ Decision = "INITIALIZE_WORKSPACE"
        \/ run = "RUNNING" /\ Decision = AttemptDecision
    BY <1>2 DEF Decision
  <2> HIDE DEF r
  <2>7. /\ Decision = "COMPLETE_FROM_PERSISTED_VALIDATION" => r.status \in EndedStatuses
        /\ Decision = "RETURN_TERMINAL" /\ run = "RUNNING" =>
              r.status \in EndedStatuses /\ r.verdict # "pass" /\ r.action \notin RetryActions
        /\ Decision = "CONTINUE_PERSISTED_RECOVERY" => r.action = None \/ ~r.ckpt
    BY <2>2, <2>3, <2>4, <2>5, <2>6
  <2> QED
    BY <1>2, <2>7 DEF r
<1> QED
  BY <1>1, <1>2

\* A step that writes no attempt and leaves the run alone.
LEMMA QuietGround ==
  ASSUME Grounded, UNCHANGED << attempts, run >>,
         pc' \notin {"checkpoint", "cancelRun", "reopen"} \/ pc' = pc
  PROVE  Grounded'
  BY DEF Grounded, EndIsGrounded, Latest

\* The row that was written is the latest one.
LEMMA WrittenRow ==
  ASSUME attempts \in Seq(Row), attempts' \in Seq(Row), attempts # << >>, NEW row, Write(row)
  PROVE  Latest' = row /\ attempts' # << >> /\ Len(attempts') = Len(attempts)
<1>1. /\ Len(attempts) \in Nat /\ Len(attempts) # 0 /\ DOMAIN attempts = 1..Len(attempts)
      /\ Len(attempts') \in Nat /\ DOMAIN attempts' = 1..Len(attempts')
  BY EmptySeq, LenProperties
<1>2. DOMAIN attempts' = DOMAIN attempts /\ attempts'[Len(attempts)] = row
  BY <1>1 DEF Write
<1>3. Len(attempts') = Len(attempts)
  <2>1. \A m, n \in Nat : 1..m = 1..n => m = n
    <3> SUFFICES ASSUME NEW m \in Nat, NEW n \in Nat, 1..m = 1..n, m < n PROVE FALSE
      OBVIOUS
    <3>1. n \in 1..n /\ n \notin 1..m
      OBVIOUS
    <3> QED
      BY <3>1
  <2> QED
    BY <1>1, <1>2, <2>1
<1> QED
  BY <1>1, <1>2, <1>3, EmptySeq DEF Latest

\* A write to the latest row of a running run.
LEMMA RowGround ==
  ASSUME IInv, IInv', Grounded, attempts # << >>, NEW row, Write(row),
         run = "RUNNING", run' = run,
         row.ckpt => row.action # None,
         \/ pc' \notin {"checkpoint", "cancelRun", "reopen"}
         \/ pc' = "checkpoint" /\ ~row.ckpt
         \/ pc' = "cancelRun" /\ row.status \in EndedStatuses
  PROVE  Grounded'
<1>1. Latest' = row
  BY WrittenRow DEF IInv, TypeOK
<1> QED
  BY <1>1 DEF Grounded, FinalStatuses

\* Writing a row in place leaves what was decided about it.
LEMMA FieldsKept ==
  ASSUME NEW r \in Row
  PROVE  /\ \A s : [r EXCEPT !.status = s].ckpt = r.ckpt /\ [r EXCEPT !.status = s].action = r.action
         /\ \A s : [r EXCEPT !.snap = s].ckpt = r.ckpt /\ [r EXCEPT !.snap = s].action = r.action
         /\ \A s : [r EXCEPT !.verdict = s].ckpt = r.ckpt
                   /\ [r EXCEPT !.verdict = s].action = r.action
         /\ \A s : [r EXCEPT !.report = s].ckpt = r.ckpt
                   /\ [r EXCEPT !.report = s].action = r.action
         /\ \A s : [r EXCEPT !.ftype = s].ckpt = r.ckpt
                   /\ [r EXCEPT !.ftype = s].action = r.action
         /\ \A s, t, m : LET q == [r EXCEPT !.status = s, !.etype = t, !.emsg = m]
                         IN q.ckpt = r.ckpt /\ q.action = r.action
         /\ \A s, t, m, x :
              LET q == [r EXCEPT !.status = s, !.etype = t, !.emsg = m, !.result = x]
              IN q.ckpt = r.ckpt /\ q.action = r.action /\ q.status = s
         /\ \A s : [r EXCEPT !.action = s].ckpt = r.ckpt /\ [r EXCEPT !.action = s].action = s
         /\ [r EXCEPT !.ckpt = TRUE].action = r.action
  BY DEF Row

\* Steps that write the latest row.
LEMMA RowSteps ==
  ASSUME IInv, IInv', Grounded
  PROVE  /\ StartAttempt \/ BuildContext \/ LinkContext \/ StampFailure => Grounded'
         /\ CreateCheckpoint => Grounded'
         /\ ExecutorJudges => Grounded'
         /\ \A st, et, em, res :
              Finalize(st, et, em, res) /\ pc \in Working
                /\ (pc' \in {"loop", "revalidate"} \/ (pc' = "cancelRun" /\ st \in EndedStatuses))
              => Grounded'
         /\ Judge /\ pc' = "loop" /\ run = "RUNNING" /\ attempts # << >> => Grounded'
         /\ MarkInterrupted => Grounded'
         /\ ClassifyFailure => Grounded'
         /\ DecideRecovery => Grounded'
         /\ ReopenAttempt => Grounded'
         /\ CreateAttempt => Grounded'
<1>1. attempts # << >> => Latest \in Row
  BY LatestRow
<1>2. pc \in RunningPlaces => run = "RUNNING" /\ attempts # << >>
  BY DEF IInv, Placed
<1>3. attempts # << >> => (Latest.ckpt => Latest.action # None)
  BY DEF Grounded
<1>4. ASSUME StartAttempt PROVE Grounded'
  <2> DEFINE row == [Latest EXCEPT !.status = "RUNNING"]
  <2>1. /\ run = "RUNNING" /\ attempts # << >> /\ run' = run /\ Write(row)
        /\ pc' = "buildContext"
    BY <1>2, <1>4 DEF StartAttempt, Step, Goto, RunningPlaces
  <2>2. row.ckpt = Latest.ckpt /\ row.action = Latest.action
    BY <1>1, <2>1, FieldsKept
  <2> HIDE DEF row
  <2> QED
    BY <1>3, <2>1, <2>2, RowGround
<1>14. ASSUME BuildContext PROVE Grounded'
  <2> DEFINE row == [Latest EXCEPT !.snap = "row"]
  <2>1. /\ run = "RUNNING" /\ attempts # << >> /\ run' = run /\ Write(row)
        /\ pc' = "linkContext"
    BY <1>2, <1>14 DEF BuildContext, Step, Goto, RunningPlaces
  <2>2. row.ckpt = Latest.ckpt /\ row.action = Latest.action
    BY <1>1, <2>1, FieldsKept
  <2> HIDE DEF row
  <2> QED
    BY <1>3, <2>1, <2>2, RowGround
<1>15. ASSUME LinkContext PROVE Grounded'
  <2> DEFINE row == [Latest EXCEPT !.snap = "linked"]
  <2>1. /\ run = "RUNNING" /\ attempts # << >> /\ run' = run /\ Write(row)
        /\ pc' = "executing"
    BY <1>2, <1>15 DEF LinkContext, Step, Goto, RunningPlaces
  <2>2. row.ckpt = Latest.ckpt /\ row.action = Latest.action
    BY <1>1, <2>1, FieldsKept
  <2> HIDE DEF row
  <2> QED
    BY <1>3, <2>1, <2>2, RowGround
<1>16. ASSUME StampFailure PROVE Grounded'
  <2> DEFINE row == [Latest EXCEPT !.ftype = Latest.report]
  <2>1. /\ run = "RUNNING" /\ attempts # << >> /\ run' = run /\ Write(row)
        /\ pc' = "loop"
    BY <1>2, <1>16 DEF StampFailure, Step, Goto, RunningPlaces
  <2>2. row.ckpt = Latest.ckpt /\ row.action = Latest.action
    BY <1>1, <2>1, FieldsKept
  <2> HIDE DEF row
  <2> QED
    BY <1>3, <2>1, <2>2, RowGround
<1>5. ASSUME CreateCheckpoint PROVE Grounded'
  <2>1. Latest.action # None
    BY <1>5 DEF CreateCheckpoint, Step, Goto, IInv, Placed
  <2> QED
    BY <1>1, <1>2, <1>5, <2>1, FieldsKept, RowGround
    DEF CreateCheckpoint, Step, Goto, RunningPlaces
<1>6. ASSUME ExecutorJudges PROVE Grounded'
  <2>1. PICK v \in {"pass", "fail"} : Write([Latest EXCEPT !.verdict = v])
    BY <1>6 DEF ExecutorJudges
  <2> DEFINE row == [Latest EXCEPT !.verdict = v]
  <2>2. /\ run = "RUNNING" /\ attempts # << >> /\ run' = run /\ Write(row)
        /\ pc' \in {"executing", "reexecuting"}
    BY <1>2, <1>6, <2>1 DEF ExecutorJudges, RunningPlaces, Working
  <2>3. row.ckpt = Latest.ckpt /\ row.action = Latest.action
    BY <1>1, <2>2, FieldsKept
  <2> HIDE DEF row
  <2> QED
    BY <1>3, <2>2, <2>3, RowGround
<1>7. ASSUME NEW st, NEW et, NEW em, NEW res, Finalize(st, et, em, res), pc \in Working,
             pc' \in {"loop", "revalidate"} \/ (pc' = "cancelRun" /\ st \in EndedStatuses)
      PROVE  Grounded'
  <2> DEFINE row == [Latest EXCEPT !.status = st, !.etype = et, !.emsg = em, !.result = res]
  <2>1. run = "RUNNING" /\ attempts # << >> /\ run' = run /\ Write(row)
    BY <1>2, <1>7 DEF Finalize, RunningPlaces, Working
  <2>2. row.ckpt = Latest.ckpt /\ row.action = Latest.action /\ row.status = st
    BY <1>1, <2>1, FieldsKept
  <2> HIDE DEF row
  <2> QED
    BY <1>3, <1>7, <2>1, <2>2, RowGround
<1>8. ASSUME Judge, pc' = "loop", run = "RUNNING", attempts # << >> PROVE Grounded'
  <2>1. PICK v \in {"pass", "fail"} : Write([Latest EXCEPT !.verdict = v])
    BY <1>8 DEF Judge
  <2> DEFINE row == [Latest EXCEPT !.verdict = v]
  <2>2. run' = run /\ Write(row)
    BY <1>8, <2>1 DEF Judge
  <2>3. row.ckpt = Latest.ckpt /\ row.action = Latest.action
    BY <1>1, <1>8, FieldsKept
  <2> HIDE DEF row
  <2> QED
    BY <1>3, <1>8, <2>2, <2>3, RowGround
<1>9. ASSUME MarkInterrupted PROVE Grounded'
  <2> DEFINE row == [Latest EXCEPT !.status = "CRASHED", !.etype = "PROCESS_INTERRUPTED",
                                   !.emsg = None]
  <2>1. /\ run = "RUNNING" /\ attempts # << >> /\ run' = run /\ pc' = "judgeRecovered"
        /\ Write(row)
    BY <1>1, <1>9, DecisionFacts DEF MarkInterrupted, Turn
  <2>2. row.ckpt = Latest.ckpt /\ row.action = Latest.action
    BY <1>1, <2>1, FieldsKept
  <2> HIDE DEF row
  <2> QED
    BY <1>3, <2>1, <2>2, RowGround
<1>10. ASSUME ClassifyFailure PROVE Grounded'
  <2>1. run = "RUNNING" /\ attempts # << >> /\ run' = run /\ pc' = "stampFailure"
    BY <1>1, <1>10, DecisionFacts DEF ClassifyFailure, Turn
  <2>2. PICK ft : Write([Latest EXCEPT !.report = ft])
    BY <1>10 DEF ClassifyFailure
  <2> DEFINE row == [Latest EXCEPT !.report = ft]
  <2>3. row.ckpt = Latest.ckpt /\ row.action = Latest.action
    BY <1>1, <2>1, FieldsKept
  <2>4. Write(row)
    BY <2>2
  <2> HIDE DEF row
  <2> QED
    BY <1>3, <2>1, <2>3, <2>4, RowGround
<1>11. ASSUME DecideRecovery PROVE Grounded'
  <2> DEFINE act == IF Latest.action = None
                      THEN Decide(Latest.report, Len(attempts), MaxAttempts) ELSE Latest.action
             row == [Latest EXCEPT !.action = act]
  <2>1. run = "RUNNING" /\ attempts # << >> /\ run' = run /\ pc' = "checkpoint"
    BY <1>1, <1>11, DecisionFacts DEF DecideRecovery, Turn
  <2>2. Latest.action = None \/ ~Latest.ckpt
    BY <1>1, <1>11, EndingFacts DEF DecideRecovery, Turn
  <2>3. Write(row)
    BY <1>11 DEF DecideRecovery
  <2>4. row.ckpt = Latest.ckpt
    BY <1>1, <2>1, FieldsKept
  <2> HIDE DEF row
  <2>5. ~row.ckpt
    BY <1>3, <2>1, <2>2, <2>4
  <2> QED
    BY <2>1, <2>3, <2>5, RowGround
<1>12. ASSUME ReopenAttempt PROVE Grounded'
  <2>1. /\ run = "RUNNING" /\ run' = run /\ pc' \in {"ensure", "idle"}
        /\ attempts' = attempts
             \/ (attempts # << >>
                   /\ Write([Latest EXCEPT !.status = "RUNNING", !.etype = None, !.emsg = None]))
    BY <1>12 DEF ReopenAttempt, Goto, Grounded
  <2>2. CASE attempts' = attempts
    BY <2>1, <2>2, QuietGround
  <2>3. CASE attempts # << >>
               /\ Write([Latest EXCEPT !.status = "RUNNING", !.etype = None, !.emsg = None])
    <3> DEFINE row == [Latest EXCEPT !.status = "RUNNING", !.etype = None, !.emsg = None]
    <3>1. row.ckpt = Latest.ckpt /\ row.action = Latest.action
      BY <1>1, <2>3, FieldsKept
    <3>2. Write(row)
      BY <2>3
    <3> HIDE DEF row
    <3> QED
      BY <1>3, <2>1, <2>3, <3>1, <3>2, RowGround
  <2> QED
    BY <2>1, <2>2, <2>3
<1>13. ASSUME CreateAttempt PROVE Grounded'
  <2>1. /\ attempts' = Append(attempts, NewAttempt) /\ run' = run /\ pc' = "startAttempt"
        /\ run = "RUNNING"
    BY <1>1, <1>13, DecisionFacts DEF CreateAttempt, Turn
  <2>2. attempts \in Seq(Row) /\ NewAttempt \in Row
    BY DEF IInv, TypeOK, NewAttempt, Row, AttemptStatuses, None
  <2>3. Latest' = NewAttempt
    BY <2>1, <2>2, AppendProperties DEF Latest
  <2>4. ~NewAttempt.ckpt
    BY DEF NewAttempt
  <2> QED
    BY <2>1, <2>3, <2>4 DEF Grounded, FinalStatuses
<1> QED
  BY <1>4, <1>5, <1>6, <1>7, <1>8, <1>9, <1>10, <1>11, <1>12, <1>13, <1>14, <1>15, <1>16

\* Whatever a command makes the run do, its end is grounded in its rows.
LEMMA GroundStep ==
  ASSUME IInv, IInv', Grounded, RunMoves
  PROVE  Grounded'
<1> DEFINE Quiet == /\ UNCHANGED << attempts, run >>
                    /\ pc' \notin {"checkpoint", "cancelRun", "reopen"} \/ pc' = pc
<1>1. attempts # << >> => Latest \in Row
  BY LatestRow
<1>2. /\ pc \in RunningPlaces => run = "RUNNING" /\ attempts # << >>
      /\ pc \in {"switch", "unparkTask", "unparkRun"} => run \in {"RUNNING", "BLOCKED_PROVIDER"}
  BY DEF IInv, Placed
<1> USE DEF tables, Goto, Step, Turn
<1>3. PrepareTask \/ ResumeRun \/ MigrateTask \/ Crash \/ UNCHANGED vars => Quiet
  BY DEF PrepareTask, ResumeRun, MigrateTask, Crash, vars
<1>4. EnsureCreate \/ EnsurePublish \/ EnsureOpen \/ EnsureDone \/ SwitchTarget \/ UnparkTask
        => Quiet
  BY DEF EnsureCreate, EnsurePublish, EnsureOpen, EnsureDone, SwitchTarget, UnparkTask
<1>5. LoopExhausted \/ StartPending \/ ResumeNative \/ ReturnTerminal \/ ParkTask \/ FinishTask
        => Quiet
  BY DEF LoopExhausted, StartPending, ResumeNative, ReturnTerminal, ParkTask, FinishTask
<1>6. CancelTask \/ CompleteTask \/ CloseWorkspace => Quiet
  BY DEF CancelTask, CompleteTask, CloseWorkspace
<1>7. Quiet => Grounded'
  BY QuietGround
<1>8. CreateRun \/ StartRun \/ ParkRun => Grounded'
  BY <1>2 DEF CreateRun, StartRun, ParkRun, Grounded, FinalStatuses, Latest
<1>9. UnparkRun => Grounded'
  BY <1>2 DEF UnparkRun, Grounded, FinalStatuses, Latest
<1>10. CancelRun => Grounded'
  BY <1>2 DEF CancelRun, Grounded, EndIsGrounded, Latest, RunningPlaces
<1>11. ASSUME CompleteRun PROVE Grounded'
  <2>1. /\ attempts # << >> /\ Latest.status \in EndedStatuses
        /\ attempts' = attempts /\ run' = "COMPLETED" /\ pc' = "completeTask"
    BY <1>1, <1>11, DecisionFacts, EndingFacts DEF CompleteRun
  <2> QED
    BY <2>1 DEF Grounded, EndIsGrounded, Latest
<1>12. ASSUME FinishRun PROVE Grounded'
  <2>1. /\ attempts # << >> /\ Latest.status \in EndedStatuses
        /\ Latest.verdict # "pass" /\ Latest.action \notin RetryActions \cup {None}
        /\ attempts' = attempts /\ pc' = "finishTask"
    BY <1>1, <1>12, EndingFacts DEF FinishRun
  <2> QED
    BY <2>1 DEF Grounded, EndIsGrounded, Latest
<1>13. ExecutorSucceeds \/ ExecutorFails \/ ExecutorTimesOut \/ ExecutorRaises => Grounded'
  BY RowSteps
  DEF ExecutorSucceeds, ExecutorFails, ExecutorTimesOut, ExecutorRaises, Return
<1>14. ASSUME ControlTerminates PROVE Grounded'
  <2>1. pc \in Working /\ pc' = "cancelRun" /\ "FAILED" \in EndedStatuses
        /\ Finalize("FAILED", "ROOT_CONTROL_TERMINATED", None, Latest.result)
    BY <1>14 DEF ControlTerminates, Return, EndedStatuses, AttemptStatuses
  <2> QED
    BY <2>1, RowSteps
<1>15. Revalidate => Grounded'
  <2>1. Revalidate /\ Latest.verdict = "pass" => Quiet
    BY DEF Revalidate
  <2>2. Revalidate /\ Latest.verdict # "pass" =>
          Judge /\ pc' = "loop" /\ run = "RUNNING" /\ attempts # << >>
    BY <1>2 DEF Revalidate, RunningPlaces
  <2> QED
    BY <1>7, <2>1, <2>2, RowSteps
<1>16. JudgeRecovered => Grounded'
  <2>1. JudgeRecovered /\ Latest.verdict # None => Quiet
    BY DEF JudgeRecovered
  <2>2. JudgeRecovered /\ Latest.verdict = None =>
          Judge /\ pc' = "loop" /\ run = "RUNNING" /\ attempts # << >>
    BY <1>2 DEF JudgeRecovered, RunningPlaces
  <2> QED
    BY <1>7, <2>1, <2>2, RowSteps
<1>17. ValidateAttempt \/ JudgeInterrupted => Grounded'
  <2>1. ValidateAttempt \/ JudgeInterrupted =>
          Judge /\ pc' = "loop" /\ run = "RUNNING" /\ attempts # << >>
    BY <1>1, DecisionFacts DEF ValidateAttempt, JudgeInterrupted
  <2> QED
    BY <2>1, RowSteps
<1>18. StartAttempt \/ BuildContext \/ LinkContext \/ StampFailure \/ CreateCheckpoint
         \/ ExecutorJudges \/ MarkInterrupted \/ ClassifyFailure \/ DecideRecovery
         \/ ReopenAttempt \/ CreateAttempt => Grounded'
  BY RowSteps
<1> HIDE DEF Quiet
<1> QED
  BY <1>3, <1>4, <1>5, <1>6, <1>7, <1>8, <1>9, <1>10, <1>11, <1>12, <1>13, <1>14, <1>15,
     <1>16, <1>17, <1>18 DEF RunMoves, Progress

\* A run that has ended stays as it is.
LEMMA EndedStays ==
  ASSUME IInv, Grounded, run \in FinalStatuses, RunMoves
  PROVE  run' = run /\ attempts' = attempts
<1> DEFINE Still == run' = run /\ attempts' = attempts
<1> USE DEF tables, Goto, Step, Turn, FinalStatuses
<1>1. /\ pc \in RunningPlaces => run = "RUNNING"
      /\ pc \in {"switch", "unparkTask", "unparkRun"} => run \in {"RUNNING", "BLOCKED_PROVIDER"}
      /\ pc = "createRun" => run = None
      /\ pc = "startRun" => run = "CREATED"
      /\ pc = "parkRun" => run = "RUNNING"
      /\ pc = "reopen" => run = "RUNNING"
  BY DEF IInv, Placed, Grounded
<1>2. Decision = "RETURN_TERMINAL"
  BY DEF Decision
<1>3. PrepareTask \/ ResumeRun \/ MigrateTask \/ Crash \/ UNCHANGED vars => Still
  BY DEF PrepareTask, ResumeRun, MigrateTask, Crash, vars
<1>4. EnsureCreate \/ EnsurePublish \/ EnsureOpen \/ EnsureDone \/ SwitchTarget \/ UnparkTask
        => Still
  BY DEF EnsureCreate, EnsurePublish, EnsureOpen, EnsureDone, SwitchTarget, UnparkTask
<1>5. LoopExhausted \/ ReturnTerminal \/ ParkTask \/ FinishTask => Still
  BY DEF LoopExhausted, ReturnTerminal, ParkTask, FinishTask
<1>6. CancelTask \/ CompleteTask \/ CloseWorkspace => Still
  BY DEF CancelTask, CompleteTask, CloseWorkspace
<1>7. ~(CreateRun \/ StartRun \/ ParkRun \/ UnparkRun \/ CancelRun \/ CompleteRun \/ FinishRun)
        \/ Still
  BY <1>1, <1>2
  DEF CreateRun, StartRun, ParkRun, UnparkRun, CancelRun, CompleteRun, FinishRun, RunningPlaces,
      None
<1>8. ~(StartAttempt \/ BuildContext \/ LinkContext \/ StampFailure \/ CreateCheckpoint
          \/ ExecutorJudges \/ Revalidate \/ JudgeRecovered \/ ReopenAttempt)
  BY <1>1
  DEF StartAttempt, BuildContext, LinkContext, StampFailure, CreateCheckpoint, ExecutorJudges,
      Revalidate, JudgeRecovered, ReopenAttempt, RunningPlaces, Working
<1>9. ~(ExecutorSucceeds \/ ExecutorFails \/ ExecutorTimesOut \/ ExecutorRaises
          \/ ControlTerminates)
  BY <1>1
  DEF ExecutorSucceeds, ExecutorFails, ExecutorTimesOut, ExecutorRaises, ControlTerminates,
      Return, RunningPlaces, Working
<1>10. ~(StartPending \/ ResumeNative \/ ValidateAttempt \/ JudgeInterrupted \/ MarkInterrupted
           \/ ClassifyFailure \/ DecideRecovery \/ CreateAttempt)
  BY <1>2
  DEF StartPending, ResumeNative, ValidateAttempt, JudgeInterrupted, MarkInterrupted,
      ClassifyFailure, DecideRecovery, CreateAttempt
<1> HIDE DEF Still
<1>11. Still
  BY <1>3, <1>4, <1>5, <1>6, <1>7, <1>8, <1>9, <1>10 DEF RunMoves, Progress
<1> QED
  BY <1>11 DEF Still

\* Every step of the command is one of the run or leaves the run alone.
LEMMA CliMoves ==
  ASSUME [CliNext]_cliVars
  PROVE  RunMoves
<1>1. CASE UNCHANGED cliVars
  BY <1>1 DEF cliVars, RunMoves
<1>2. CommandSteps => RunMoves
  BY DEF CommandSteps, prepare_new, prepare_resume, Command, CommandRefused, ExecutePrepared,
         FinishCommand, CommandDies, RunMoves
<1>3. RunSteps => RunMoves
  BY DEF RunSteps, RunStep, RunJudges, StartValidation, Works, RunMoves
<1>4. KernelSteps => RunMoves
  BY DEF KernelSteps, CallModel, ModelReturns, ParserReturns, CallTool, ToolReturns,
         ClaimBegins, Works, RunMoves
<1>5. Readings => RunMoves
  BY DEF Readings, BeginReading, ReadAttempts, ReadVerdict, ReadRecovery, Project, Shown,
         ReadingFails, Reads, RunMoves
<1>6. Tick => RunMoves
  BY DEF Tick, RunMoves
<1> QED
  BY <1>1, <1>2, <1>3, <1>4, <1>5, <1>6 DEF CliNext

LEMMA MovesAreSteps == RunMoves => [Next]_vars
  BY DEF RunMoves, Next

\* A process that works has its task on record.
LEMMA TaskOnRecord ==
  ASSUME IInv, Grounded, pc # "idle" \/ run # None
  PROVE  task # "CREATED"
<1>1. pc \in Locations
  BY DEF IInv, TypeOK
<1> QED
  BY <1>1 DEF IInv, Placed, Grounded, RunningPlaces, Locations, None

----------------------------------------------------------------------------
(* The command.                                                              *)

Fronts ==
  [ pc : {"idle", "starting", "running", "final"},
    intent : {"none", "new", "resume", "migrate"},
    exit : {"none", "error", "refused", "interrupted", "PASS", "FAIL"},
    hint : BOOLEAN ]

\* While a command works nothing has been printed yet; what was printed last is
\* still so.
FrontInv ==
  /\ front \in Fronts
  /\ front.pc = "running" <=> pc # "idle"
  /\ front.pc # "idle" => front.exit = "none" /\ ~front.hint
  /\ front.exit = "PASS" => run = "COMPLETED"
  /\ front.exit = "FAIL" => run # "COMPLETED"
  /\ front.hint => run # None
  /\ task # "CREATED" \/ (front.pc = "starting" /\ front.intent = "new") => config # None

\* A reading of a run that has ended has read rows that stay as they are.
LookInv ==
  /\ look = [ pc |-> look.pc, last |-> look.last, status |-> look.status, n |-> look.n,
              ended |-> look.ended, verdict |-> look.verdict, action |-> look.action ]
  /\ look.last \in BOOLEAN
  /\ look.pc # "off" => front.pc \in {"running", "final"}
  /\ look.pc # "off" /\ look.last => front.pc = "final" /\ look.status = run
  /\ look.pc # "off" /\ look.status \in FinalStatuses =>
       /\ run = look.status
       /\ look.pc # "attempts" => look.n = Len(attempts) /\ look.ended
       /\ look.pc \notin {"attempts", "verdict"} => look.verdict = Latest.verdict
       /\ look.pc \notin {"attempts", "verdict", "recovery"} => look.action = Latest.action

LEMMA FrontStep ==
  ASSUME IInv, Grounded, FrontInv, LookInv, [CliNext]_cliVars
  PROVE  FrontInv'
<1>0. front \in Fronts
  BY DEF FrontInv
<1>1. ASSUME UNCHANGED << vars, front, config >> PROVE FrontInv'
  BY <1>1 DEF FrontInv, vars
<1>2. CASE UNCHANGED cliVars
  BY <1>1, <1>2 DEF cliVars
<1>3. StartValidation \/ KernelSteps \/ Tick => FrontInv'
  BY <1>1
  DEF StartValidation, KernelSteps, CallModel, ModelReturns, ParserReturns, CallTool,
      ToolReturns, ClaimBegins, Works, Tick
<1>4. BeginReading \/ ReadAttempts \/ ReadVerdict \/ ReadRecovery \/ Project \/ Shown => FrontInv'
  BY <1>1 DEF BeginReading, ReadAttempts, ReadVerdict, ReadRecovery, Project, Shown, Reads
<1>5. ASSUME ReadingFails PROVE FrontInv'
  <2>1. UNCHANGED << vars, config >> /\ look.pc # "off"
    BY <1>5 DEF ReadingFails
  <2>2. CASE ~look.last
    BY <1>1, <1>5, <2>1, <2>2 DEF ReadingFails
  <2>3. CASE look.last
    <3>1. front' = [front EXCEPT !.pc = "idle", !.exit = "error"] /\ front.pc = "final"
      BY <1>5, <2>1, <2>3 DEF ReadingFails, LookInv
    <3>2. front' \in Fronts /\ front'.pc = "idle" /\ front'.exit = "error" /\ front'.hint = front.hint
      BY <1>0, <3>1 DEF Fronts
    <3> QED
      BY <2>1, <3>1, <3>2 DEF FrontInv, vars
  <2> QED
    BY <2>2, <2>3 DEF LookInv
<1>6. ASSUME NEW i \in {"new", "resume", "migrate"}, Command(i),
             i = "new" => config' # None, config # None => config' # None
      PROVE  FrontInv'
  <2>1. /\ front.pc = "idle" /\ UNCHANGED vars
        /\ front' = [pc |-> "starting", intent |-> i, exit |-> "none", hint |-> FALSE]
    BY <1>6 DEF Command, Nowhere
  <2>2. front' \in Fronts
    BY <2>1 DEF Fronts
  <2> QED
    BY <1>6, <2>1, <2>2 DEF FrontInv, vars
<1>7. prepare_new => FrontInv'
  BY <1>6, CliConstants DEF prepare_new
<1>8. prepare_resume => FrontInv'
  BY <1>6 DEF prepare_resume
<1>9. ASSUME CommandRefused PROVE FrontInv'
  <2>1. /\ front.pc = "idle" /\ UNCHANGED << vars, config >>
        /\ front' = [pc |-> "idle", intent |-> "none", exit |-> "refused", hint |-> FALSE]
    BY <1>9 DEF CommandRefused, Nowhere
  <2>2. front' \in Fronts
    BY <2>1 DEF Fronts
  <2> QED
    BY <2>1, <2>2 DEF FrontInv, vars
<1>10. ASSUME ExecutePrepared PROVE FrontInv'
  <2>1. front.pc = "starting" /\ config' = config /\ pc = "idle"
    BY <1>10 DEF ExecutePrepared, FrontInv
  <2>2. CASE /\ front' = [front EXCEPT !.pc = "running"]
             /\ \/ front.intent = "new" /\ PrepareTask
                \/ front.intent = "resume" /\ ResumeRun
                \/ front.intent = "migrate" /\ MigrateTask
    <3>1. /\ front' \in Fronts /\ front'.pc = "running" /\ front'.exit = front.exit
          /\ front'.hint = front.hint
      BY <1>0, <2>2 DEF Fronts
    <3>2. pc' # "idle" /\ run' = run /\ (task' = task \/ front.intent = "new")
      BY <2>2 DEF PrepareTask, ResumeRun, MigrateTask, Goto, tables
    <3> QED
      BY <2>1, <3>1, <3>2 DEF FrontInv
  <2>3. CASE front' = [front EXCEPT !.pc = "final"] /\ UNCHANGED vars
    <3>1. /\ front' \in Fronts /\ front'.pc = "final" /\ front'.exit = front.exit
          /\ front'.hint = front.hint
      BY <1>0, <2>3 DEF Fronts
    <3> QED
      BY <2>1, <2>3, <3>1 DEF FrontInv, vars
  <2>4. CASE front' = [front EXCEPT !.pc = "idle", !.exit = "error"] /\ UNCHANGED vars
    <3>1. /\ front' \in Fronts /\ front'.pc = "idle" /\ front'.exit = "error"
          /\ front'.hint = front.hint
      BY <1>0, <2>4 DEF Fronts
    <3> QED
      BY <2>1, <2>4, <3>1 DEF FrontInv, vars
  <2> QED
    BY <1>10, <2>2, <2>3, <2>4 DEF ExecutePrepared
<1>11. ASSUME RunJudges PROVE FrontInv'
  BY <1>11 DEF RunJudges, ExecutorJudges, FrontInv
<1>12. ASSUME RunStep PROVE FrontInv'
  <2>1. front.pc = "running" /\ config' = config /\ front.exit = "none" /\ ~front.hint /\ pc # "idle"
    BY <1>12 DEF RunStep, FrontInv
  <2>2. config # None
    BY <2>1, TaskOnRecord DEF FrontInv
  <2>3. \/ pc' # "idle" /\ front' = front
        \/ pc' = "idle" /\ front' = [front EXCEPT !.pc = "idle", !.exit = "error"]
        \/ pc' = "idle" /\ front' = [front EXCEPT !.pc = "final"]
    BY <1>12 DEF RunStep
  <2>4. /\ front' \in Fronts /\ (front'.pc = "running" <=> pc' # "idle")
        /\ front'.hint = front.hint
        /\ front'.exit \in {"none", "error"} /\ (front'.pc # "idle" => front'.exit = "none")
    BY <1>0, <2>1, <2>3 DEF Fronts
  <2> QED
    BY <2>1, <2>2, <2>4 DEF FrontInv
<1>13. ASSUME FinishCommand PROVE FrontInv'
  <2> DEFINE e == IF look.status = "COMPLETED" THEN "PASS" ELSE "FAIL"
             h == look.status = "RUNNING"
  <2>1. /\ front.pc = "final" /\ look.status = run /\ UNCHANGED << vars, config >>
        /\ front' = [front EXCEPT !.pc = "idle", !.exit = e, !.hint = h]
    BY <1>13 DEF FinishCommand, LookInv
  <2>2. h \in BOOLEAN
    BY Zenon
  <2>3. e \in {"PASS", "FAIL"}
    OBVIOUS
  <2>4. (e = "PASS" => run = "COMPLETED") /\ (e = "FAIL" => run # "COMPLETED")
        /\ (h => run # None)
    BY <2>1 DEF None
  <2> HIDE DEF e, h
  <2>5. /\ front' \in Fronts /\ front'.pc = "idle" /\ front'.exit = e
        /\ front'.hint = h
    BY <1>0, <2>1, <2>2, <2>3 DEF Fronts
  <2> QED
    BY <2>1, <2>4, <2>5 DEF FrontInv, vars
<1>14. ASSUME CommandDies PROVE FrontInv'
  <2> DEFINE h == run # None
  <2>1. /\ front.pc # "idle" /\ config' = config /\ UNCHANGED << task, run >> /\ pc' = "idle"
    BY <1>14 DEF CommandDies, Crash, vars, tables
  <2>2. \/ front' = [front EXCEPT !.pc = "idle", !.exit = "error"]
        \/ front' = [front EXCEPT !.pc = "idle", !.exit = "interrupted", !.hint = h]
    BY <1>14 DEF CommandDies
  <2>3. h \in BOOLEAN
    BY Zenon
  <2>4. h => run # None
    OBVIOUS
  <2> HIDE DEF h
  <2>5. front' \in Fronts /\ front'.pc = "idle" /\ front'.exit \in {"error", "interrupted"}
    BY <1>0, <2>2, <2>3 DEF Fronts
  <2>6. front'.hint = front.hint \/ front'.hint = h
    BY <1>0, <2>2, <2>3 DEF Fronts
  <2>7. ~front.hint
    BY <2>1 DEF FrontInv
  <2>8. front'.hint => run' # None
    BY <2>1, <2>4, <2>6, <2>7
  <2> QED
    BY <2>1, <2>5, <2>8 DEF FrontInv
<1> QED
  BY <1>2, <1>3, <1>4, <1>5, <1>7, <1>8, <1>9, <1>10, <1>11, <1>12, <1>13, <1>14
  DEF CliNext, CommandSteps, RunSteps, Readings

\* No reading is in progress.
LEMMA NoReading ==
  ASSUME look' = NoLook
  PROVE  LookInv'
  BY DEF LookInv, NoLook

\* A reading goes on while the run does.
LEMMA LookKept ==
  ASSUME IInv, Grounded, LookInv, RunMoves, look' = look,
         look.pc # "off" => front'.pc \in {"running", "final"},
         look.pc # "off" /\ look.last => front'.pc = "final" /\ run' = run
  PROVE  LookInv'
<1>1. CASE look.pc = "off"
  BY <1>1 DEF LookInv
<1>2. CASE look.pc # "off" /\ look.status \notin FinalStatuses
  BY <1>2 DEF LookInv
<1>3. CASE look.pc # "off" /\ look.status \in FinalStatuses
  <2>1. run' = run /\ attempts' = attempts
    BY <1>3, EndedStays DEF LookInv
  <2> QED
    BY <1>3, <2>1 DEF LookInv, Latest
<1> QED
  BY <1>1, <1>2, <1>3

\* What a run that has ended shows to a reading.
LEMMA EndedRows ==
  ASSUME IInv, Grounded, run \in FinalStatuses
  PROVE  /\ attempts # << >> /\ Len(attempts) \in Nat \ {0} /\ DOMAIN attempts = 1..Len(attempts)
         /\ \A i \in DOMAIN attempts : attempts[i].status \in EndedStatuses
<1>1. attempts # << >> /\ Latest.status \in EndedStatuses
  BY DEF Grounded, EndIsGrounded
<1>2. /\ Len(attempts) \in Nat /\ Len(attempts) # 0 /\ DOMAIN attempts = 1..Len(attempts)
  BY <1>1, EmptySeq, LenProperties DEF IInv, TypeOK
<1>3. \A i \in 1..(Len(attempts) - 1) : attempts[i].status \in EndedStatuses
  BY DEF IInv, RetryOrder
<1> QED
  BY <1>1, <1>2, <1>3 DEF Latest

\* A query for the attempts, for the verdict or for the action of the last one.
LEMMA ReadSteps ==
  ASSUME IInv, Grounded, LookInv
  PROVE  BeginReading \/ ReadAttempts \/ ReadVerdict \/ ReadRecovery \/ Project => LookInv'
<1>0. look = [ pc |-> look.pc, last |-> look.last, status |-> look.status, n |-> look.n,
               ended |-> look.ended, verdict |-> look.verdict, action |-> look.action ]
      /\ look.last \in BOOLEAN
  BY DEF LookInv
<1>1. ASSUME BeginReading PROVE LookInv'
  <2> DEFINE last == front.pc = "final"
  <2>1. /\ look' = [pc |-> "attempts", last |-> last, status |-> run, n |-> 0,
                    ended |-> FALSE, verdict |-> None, action |-> None]
        /\ front' = front /\ front.pc \in {"running", "final"} /\ UNCHANGED vars
    BY <1>1 DEF BeginReading, NoLook
  <2>2. last \in BOOLEAN
    BY Zenon
  <2>3. last => front.pc = "final"
    OBVIOUS
  <2> HIDE DEF last
  <2> QED
    BY <2>1, <2>2, <2>3 DEF LookInv, vars
<1>2. ASSUME ReadAttempts PROVE LookInv'
  <2> DEFINE next == IF attempts = << >> THEN "project" ELSE "verdict"
             all == \A i \in DOMAIN attempts : attempts[i].status \in EndedStatuses
             len == Len(attempts)
  <2>1. /\ look.pc = "attempts" /\ UNCHANGED << vars, front >>
        /\ look' = [look EXCEPT !.pc = next, !.n = len, !.ended = all]
    BY <1>2 DEF ReadAttempts, Reads
  <2>2. look.status \in FinalStatuses => run = look.status /\ next = "verdict" /\ all
    BY <2>1, EndedRows DEF LookInv
  <2>3. next \in {"project", "verdict"}
    OBVIOUS
  <2> HIDE DEF next, all
  <2>4. look' = [ pc |-> next, last |-> look.last, status |-> look.status, n |-> len,
                  ended |-> all, verdict |-> look.verdict, action |-> look.action ]
    BY <1>0, <2>1
  <2>5. UNCHANGED << run, attempts, front >>
    BY <2>1 DEF vars
  <2> HIDE DEF len
  <2>6. len = Len(attempts)
    BY DEF len
  <2> QED
    BY <2>1, <2>2, <2>3, <2>4, <2>5, <2>6 DEF LookInv
<1>3. ASSUME ReadVerdict PROVE LookInv'
  <2> DEFINE v == attempts[look.n].verdict
  <2>1. /\ look.pc = "verdict" /\ UNCHANGED << run, attempts, front >>
        /\ look' = [look EXCEPT !.pc = "recovery", !.verdict = v]
    BY <1>3 DEF ReadVerdict, Reads, vars
  <2>2. look.status \in FinalStatuses => v = Latest.verdict
    BY <2>1 DEF LookInv, Latest
  <2> HIDE DEF v
  <2>3. look' = [ pc |-> "recovery", last |-> look.last, status |-> look.status, n |-> look.n,
                  ended |-> look.ended, verdict |-> v, action |-> look.action ]
    BY <1>0, <2>1
  <2> QED
    BY <2>1, <2>2, <2>3 DEF LookInv, Latest
<1>4. ASSUME ReadRecovery PROVE LookInv'
  <2> DEFINE a == attempts[look.n].action
  <2>1. /\ look.pc = "recovery" /\ UNCHANGED << run, attempts, front >>
        /\ look' = [look EXCEPT !.pc = "project", !.action = a]
    BY <1>4 DEF ReadRecovery, Reads, vars
  <2>2. look.status \in FinalStatuses => a = Latest.action
    BY <2>1 DEF LookInv, Latest
  <2> HIDE DEF a
  <2>3. look' = [ pc |-> "project", last |-> look.last, status |-> look.status, n |-> look.n,
                  ended |-> look.ended, verdict |-> look.verdict, action |-> a ]
    BY <1>0, <2>1
  <2> QED
    BY <2>1, <2>2, <2>3 DEF LookInv, Latest
<1>5. ASSUME Project PROVE LookInv'
  <2>1. /\ look.pc = "project" /\ UNCHANGED << run, attempts, front >>
        /\ look' = [look EXCEPT !.pc = "shown", !.status = look.status]
    BY <1>5 DEF Project, Reads, ShownStatus, vars
  <2>2. look' = [ pc |-> "shown", last |-> look.last, status |-> look.status, n |-> look.n,
                  ended |-> look.ended, verdict |-> look.verdict, action |-> look.action ]
    BY <1>0, <2>1
  <2> QED
    BY <2>1, <2>2 DEF LookInv, Latest
<1> QED
  BY <1>1, <1>2, <1>3, <1>4, <1>5

LEMMA LookStep ==
  ASSUME IInv, Grounded, FrontInv, LookInv, [CliNext]_cliVars
  PROVE  LookInv'
<1>0. RunMoves /\ front \in Fronts
  BY CliMoves DEF FrontInv
<1>1. ASSUME UNCHANGED << look, front, run >> PROVE LookInv'
  BY <1>0, <1>1, LookKept DEF LookInv
<1>2. CASE UNCHANGED cliVars
  BY <1>1, <1>2 DEF cliVars, vars
<1>3. StartValidation \/ KernelSteps \/ Tick \/ RunJudges => LookInv'
  BY <1>1
  DEF StartValidation, KernelSteps, CallModel, ModelReturns, ParserReturns, CallTool,
      ToolReturns, ClaimBegins, Works, Tick, vars, RunJudges, ExecutorJudges
<1>4. Shown \/ ReadingFails \/ FinishCommand \/ CommandDies => LookInv'
  BY NoReading DEF Shown, Reads, ReadingFails, FinishCommand, CommandDies
<1>5. ASSUME front.pc \in {"idle", "starting"}, look' = look PROVE LookInv'
  BY <1>0, <1>5, LookKept DEF LookInv
<1>6. prepare_new \/ prepare_resume \/ CommandRefused \/ ExecutePrepared => LookInv'
  BY <1>5 DEF prepare_new, prepare_resume, Command, CommandRefused, ExecutePrepared
<1>7. ASSUME RunStep PROVE LookInv'
  <2>1. front.pc = "running" /\ (look' = NoLook \/ (look' = look /\ front'.pc # "idle"))
    BY <1>7 DEF RunStep
  <2>2. CASE look' = look /\ front'.pc # "idle"
    <3>1. \/ front' = front
          \/ front' = [front EXCEPT !.pc = "idle", !.exit = "error"]
          \/ front' = [front EXCEPT !.pc = "final"]
      BY <1>7 DEF RunStep
    <3>2. front'.pc \in {"running", "final"}
      BY <1>0, <2>1, <2>2, <3>1 DEF Fronts
    <3> QED
      BY <1>0, <2>1, <2>2, <3>2, LookKept DEF LookInv
  <2> QED
    BY <2>1, <2>2, NoReading
<1> QED
  BY <1>2, <1>3, <1>4, <1>6, <1>7, ReadSteps DEF CliNext, CommandSteps, RunSteps, Readings

LEMMA CliInitHolds ==
  ASSUME CliInit
  PROVE  IInv /\ Grounded /\ FrontInv /\ LookInv
<1>1. IInv
  BY InitIsInv DEF CliInit
<1>2. Grounded
  BY DEF CliInit, Init, Grounded, FinalStatuses, None
<1>3. FrontInv
  <2>1. front \in Fronts
    BY DEF CliInit, Nowhere, Fronts
  <2> QED
    BY <2>1 DEF CliInit, Init, Nowhere, FrontInv
<1>4. LookInv
  BY DEF CliInit, NoLook, LookInv
<1> QED
  BY <1>1, <1>2, <1>3, <1>4

CliIInv == IInv /\ Grounded /\ FrontInv /\ LookInv

\* The inductive invariant of a run and the command that drives it.
THEOREM CommandInductive == CliSpec => []CliIInv
<1>1. CliInit => CliIInv
  BY CliInitHolds DEF CliIInv
<1>2. CliIInv /\ [CliNext]_cliVars => CliIInv'
  <2> SUFFICES ASSUME IInv, Grounded, FrontInv, LookInv, [CliNext]_cliVars
               PROVE  IInv' /\ Grounded' /\ FrontInv' /\ LookInv'
    BY DEF CliIInv
  <2>1. RunMoves
    BY CliMoves
  <2>2. IInv'
    BY <2>1, MovesAreSteps, StepKeepsInv
  <2>3. Grounded'
    BY <2>1, <2>2, GroundStep
  <2> QED
    BY <2>2, <2>3, FrontStep, LookStep
<1> QED
  BY <1>1, <1>2, PTL DEF CliSpec

\* A reading is coherent although the run goes on under it, and the result, the
\* exit code and the hint of a command are true of the run (product_run,
\* inspect_run and _print_product_summary), however commands die and overlap it.
THEOREM ReportsAreTrue == CliSpec => []ReportIsTrue
<1>1. CliIInv => ReportIsTrue
  <2> SUFFICES ASSUME IInv, Grounded, FrontInv, LookInv PROVE ReportIsTrue
    BY DEF CliIInv
  <2>1. look.pc = "shown" /\ look.status \in FinalStatuses =>
          /\ look.n > 0 /\ look.ended
          /\ look.status = "COMPLETED" => look.verdict = "pass"
          /\ look.status \in {"FAILED", "ESCALATED"} =>
               look.verdict # "pass" /\ look.action \notin RetryActions \cup {None}
    <3> SUFFICES ASSUME look.pc = "shown", look.status \in FinalStatuses
                 PROVE  /\ look.n > 0 /\ look.ended
                        /\ look.status = "COMPLETED" => look.verdict = "pass"
                        /\ look.status \in {"FAILED", "ESCALATED"} =>
                             look.verdict # "pass" /\ look.action \notin RetryActions \cup {None}
      OBVIOUS
    <3>1. /\ run = look.status /\ look.n = Len(attempts) /\ look.ended
          /\ look.verdict = Latest.verdict /\ look.action = Latest.action
      BY DEF LookInv
    <3>2. Len(attempts) \in Nat \ {0}
      BY <3>1, EndedRows
    <3>3. run = "COMPLETED" => Latest.verdict = "pass"
      BY DEF IInv, ValidatorBackedCompletion
    <3>4. run \in {"FAILED", "ESCALATED"} =>
            Latest.verdict # "pass" /\ Latest.action \notin RetryActions \cup {None}
      BY DEF Grounded, EndIsGrounded, FinalStatuses
    <3> QED
      BY <3>1, <3>2, <3>3, <3>4
  <2>2. front.hint => run # None /\ config # None
    BY TaskOnRecord DEF FrontInv
  <2> QED
    BY <2>1, <2>2 DEF ReportIsTrue, FrontInv
<1> QED
  BY <1>1, CommandInductive, PTL

----------------------------------------------------------------------------
(* The health that is shown.                                                 *)

\* Where the steps of a run at work lead.
LEMMA PlaceSteps ==
  ASSUME IInv, Progress
  PROVE  /\ pc = "startAttempt" => StartAttempt
         /\ pc = "checkpoint" => CreateCheckpoint
         /\ pc \in Working => pc' \in {"loop", "revalidate", "cancelRun"}
         /\ WillJudge => pc' = "loop"
<1> DEFINE Elsewhere == pc \notin {"startAttempt", "checkpoint", "revalidate", "judgeRecovered", "loop"}
                        /\ pc \notin Working
           Ahead == pc = "loop" /\ ~WillJudge
<1> USE DEF Goto, Step, Turn, Working
<1>1. CreateRun \/ StartRun \/ EnsureCreate \/ EnsurePublish \/ EnsureOpen \/ EnsureDone
        \/ SwitchTarget \/ UnparkTask \/ UnparkRun \/ ReopenAttempt => Elsewhere
  BY DEF CreateRun, StartRun, EnsureCreate, EnsurePublish, EnsureOpen, EnsureDone, SwitchTarget,
         UnparkTask, UnparkRun, ReopenAttempt
<1>2. BuildContext \/ LinkContext \/ CancelRun \/ CancelTask \/ StampFailure \/ CompleteTask
        \/ CloseWorkspace \/ ParkRun \/ FinishTask => Elsewhere
  BY DEF BuildContext, LinkContext, CancelRun, CancelTask, StampFailure, CompleteTask,
         CloseWorkspace, ParkRun, FinishTask
<1>3. ExecutorSucceeds \/ ExecutorFails \/ ExecutorTimesOut \/ ExecutorRaises \/ ControlTerminates
        => pc \in Working /\ pc' \in {"loop", "revalidate", "cancelRun"}
  BY DEF ExecutorSucceeds, ExecutorFails, ExecutorTimesOut, ExecutorRaises, ControlTerminates,
         Return
<1>4. LoopExhausted => Ahead
  BY RunConstants DEF LoopExhausted, WillJudge, IInv, TypeOK
<1>5. CreateAttempt \/ StartPending \/ ResumeNative \/ ClassifyFailure \/ DecideRecovery
        \/ CompleteRun \/ ReturnTerminal \/ ParkTask \/ FinishRun \/ MarkInterrupted => Ahead
  BY DEF CreateAttempt, StartPending, ResumeNative, ClassifyFailure, DecideRecovery, CompleteRun,
         ReturnTerminal, ParkTask, FinishRun, MarkInterrupted, WillJudge
<1>6. ValidateAttempt \/ JudgeInterrupted => pc = "loop" /\ pc' = "loop"
  BY DEF ValidateAttempt, JudgeInterrupted
<1>7. Revalidate \/ JudgeRecovered => pc \in {"revalidate", "judgeRecovered"} /\ pc' = "loop"
  BY DEF Revalidate, JudgeRecovered
<1>8. /\ StartAttempt => pc = "startAttempt"
      /\ CreateCheckpoint => pc = "checkpoint"
  BY DEF StartAttempt, CreateCheckpoint
<1>9. WillJudge => pc \in {"revalidate", "judgeRecovered", "loop"}
  BY DEF WillJudge
<1>10. \/ Elsewhere \/ Ahead
       \/ pc \in Working /\ pc' \in {"loop", "revalidate", "cancelRun"}
       \/ pc \in {"revalidate", "judgeRecovered", "loop"} /\ pc' = "loop"
       \/ StartAttempt \/ CreateCheckpoint
  BY <1>1, <1>2, <1>3, <1>4, <1>5, <1>6, <1>7 DEF Progress
<1> QED
  BY <1>8, <1>9, <1>10

\* What the rows of the run are waited for.
Waits == {"none", "model", "parser", "tool", "failed", "validator", "claim"}
Operations == {"IDLE", "MODEL_CALL", "PARSER", "TOOL", "VALIDATOR", "RECOVERY"}
Logs == [ quiet : 0..(Threshold + 2), op : Operations, mine : BOOLEAN ]

\* The events are never younger than the run's own work, and the operation is the
\* one the run waits for.
LiveInv ==
  /\ log \in Logs
  /\ still \in 0..(Threshold + 1) /\ still <= log.quiet
  /\ doing \in Waits
  /\ doing \in {"model", "parser", "tool", "failed", "claim"} => pc \in Working
  /\ doing = "validator" => WillJudge
  /\ doing = "model" => log.op = "MODEL_CALL"
  /\ doing = "parser" => log.op = "PARSER"
  /\ doing = "tool" => log.op = "TOOL"
  /\ doing = "validator" => log.op = "VALIDATOR"
  /\ doing \in {"none", "failed", "claim"} /\ pc # "idle" /\ log.mine =>
       log.op \in {"IDLE", "RECOVERY"}

\* The operation after an event.
LEMMA OperationFacts ==
  ASSUME NEW op \in Operations
  PROVE  /\ OperationAfter("MODEL_CALL_STARTED", op) = "MODEL_CALL"
         /\ OperationAfter("MODEL_RESPONSE_RECEIVED", op) = "PARSER"
         /\ OperationAfter("TOOL_STARTED", op) = "TOOL"
         /\ OperationAfter("VALIDATION_STARTED", op) = "VALIDATOR"
         /\ OperationAfter("RETRY_PREPARED", op) = "RECOVERY"
         /\ \A type \in {"TURN_COMPLETED", "PROVIDER_FAILED", "PARSE_FAILED", "TOOL_OBSERVED",
                         "VALIDATED", "ATTEMPT_ENDED"} : OperationAfter(type, op) = "IDLE"
         /\ \A type \in {"ATTEMPT_STARTED", "EXECUTOR_STARTED", "CHECKPOINT_CREATED",
                         "RUN_RESUME_STARTED", "OTHER", "SNAPSHOT"} : OperationAfter(type, op) = op
<1>1. OperationAfter("MODEL_CALL_STARTED", op) = "MODEL_CALL"
  BY DEF OperationAfter
<1>2. OperationAfter("MODEL_RESPONSE_RECEIVED", op) = "PARSER"
  BY DEF OperationAfter
<1>3. OperationAfter("TOOL_STARTED", op) = "TOOL"
  BY DEF OperationAfter
<1>4. OperationAfter("VALIDATION_STARTED", op) = "VALIDATOR"
  BY DEF OperationAfter
<1>5. OperationAfter("RETRY_PREPARED", op) = "RECOVERY"
  BY DEF OperationAfter
<1>6. ASSUME NEW type \in {"TURN_COMPLETED", "PROVIDER_FAILED", "PARSE_FAILED", "TOOL_OBSERVED",
                           "VALIDATED", "ATTEMPT_ENDED"}
      PROVE  OperationAfter(type, op) = "IDLE"
  BY DEF OperationAfter
<1>7. ASSUME NEW type \in {"ATTEMPT_STARTED", "EXECUTOR_STARTED", "CHECKPOINT_CREATED",
                           "RUN_RESUME_STARTED", "OTHER", "SNAPSHOT"}
      PROVE  OperationAfter(type, op) = op
  BY DEF OperationAfter
<1> QED
  BY <1>1, <1>2, <1>3, <1>4, <1>5, <1>6, <1>7

\* Appending an event of work that is being done.
LEMMA AppendFacts ==
  ASSUME log \in Logs, NEW type, AppendEvent(type), NEW op \in Operations,
         OperationAfter(type, log.op) = op
  PROVE  /\ log' \in Logs /\ log'.op = op
         /\ log'.quiet = IF ProgressEvent(type) THEN 0 ELSE log.quiet
         /\ log'.mine => log.mine \/ op # log.op
<1> DEFINE m == log.mine \/ op # log.op
           q == IF ProgressEvent(type) THEN 0 ELSE log.quiet
<1>1. m \in BOOLEAN
  BY Zenon
<1>2. q \in 0..(Threshold + 2)
  BY CliConstants DEF Logs
<1>3. log' = [quiet |-> q, op |-> op, mine |-> m]
  BY DEF AppendEvent
<1>4. m => log.mine \/ op # log.op
  OBVIOUS
<1>5. q = IF ProgressEvent(type) THEN 0 ELSE log.quiet
  OBVIOUS
<1> HIDE DEF m, q
<1> QED
  BY <1>1, <1>2, <1>3, <1>4, <1>5 DEF Logs

\* A run waits for what it is about to be told.
LEMMA WillJudgeKept ==
  ASSUME UNCHANGED vars
  PROVE  WillJudge' = WillJudge /\ pc' = pc
  BY DEF vars, WillJudge, Decision, AttemptDecision, JudgedDecision, ReportDecision,
         RecoveryDecision, CheckpointMatches, Latest

\* The event that goes with a step of the run.
LEMMA EventFacts ==
  ASSUME IInv, IInv', Grounded, LiveInv, Progress
  PROVE  /\ ProgressEvent(EventOfStep) => RunMoved
         /\ EventOfStep \in {"ATTEMPT_STARTED", "EXECUTOR_STARTED", "ATTEMPT_ENDED", "VALIDATED",
                             "RETRY_PREPARED", "CHECKPOINT_CREATED", "RUN_RESUME_STARTED", "OTHER"}
         /\ doing # "none" => EventOfStep \in {"ATTEMPT_ENDED", "VALIDATED"}
         /\ doing = "none" => EventOfStep # "VALIDATED"
<1>1. pc = "startAttempt" => attempts' # attempts
  <2> SUFFICES ASSUME pc = "startAttempt" PROVE attempts' # attempts
    OBVIOUS
  <2>1. StartAttempt /\ attempts # << >> /\ Latest.status = "PENDING" /\ attempts \in Seq(Row)
    BY PlaceSteps DEF IInv, Placed, RunningPlaces, TypeOK, Expected
  <2>2. Latest \in Row
    BY <2>1, LatestRow
  <2> DEFINE row == [Latest EXCEPT !.status = "RUNNING"]
  <2>3. row.status = "RUNNING"
    BY <2>2 DEF Row
  <2>4. Write(row) /\ attempts' \in Seq(Row)
    BY <2>1 DEF StartAttempt, IInv, TypeOK
  <2> HIDE DEF row
  <2>5. Latest' = row
    BY <2>1, <2>4, WrittenRow
  <2> QED
    BY <2>1, <2>3, <2>5 DEF Latest
<1>2. pc = "checkpoint" => attempts' # attempts
  <2> SUFFICES ASSUME pc = "checkpoint" PROVE attempts' # attempts
    OBVIOUS
  <2>1. CreateCheckpoint /\ attempts # << >> /\ ~Latest.ckpt /\ attempts \in Seq(Row)
    BY PlaceSteps DEF IInv, Placed, RunningPlaces, TypeOK, Grounded
  <2>2. Latest \in Row
    BY <2>1, LatestRow
  <2> DEFINE row == [Latest EXCEPT !.ckpt = TRUE]
  <2>3. row.ckpt
    BY <2>2 DEF Row
  <2>4. Write(row) /\ attempts' \in Seq(Row)
    BY <2>1 DEF CreateCheckpoint, IInv, TypeOK
  <2> HIDE DEF row
  <2>5. Latest' = row
    BY <2>1, <2>4, WrittenRow
  <2> QED
    BY <2>1, <2>3, <2>5 DEF Latest
<1>3. doing \in {"model", "parser", "tool", "failed", "claim"} =>
        pc \in Working /\ pc' \in {"loop", "revalidate", "cancelRun"}
  BY PlaceSteps DEF LiveInv
<1>4. doing = "validator" => pc \in {"revalidate", "judgeRecovered", "loop"} /\ pc' = "loop"
  BY PlaceSteps DEF LiveInv, WillJudge
<1>5. doing \in Waits
  BY DEF LiveInv
<1> QED
  BY <1>1, <1>2, <1>3, <1>4, <1>5 DEF EventOfStep, ProgressEvent, RunMoved, Working, Waits

\* A step of the run, with the event that is committed with it.
LEMMA RunStepLive ==
  ASSUME IInv, IInv', Grounded, LiveInv, RunStep, pc # "idle"
  PROVE  LiveInv'
<1>1. /\ Progress /\ AppendEvent(EventOfStep) /\ doing' = "none"
      /\ still' = IF RunMoved THEN 0 ELSE still
  BY DEF RunStep
<1>2. log \in Logs /\ log.op \in Operations /\ still \in 0..(Threshold + 1) /\ still <= log.quiet
  BY DEF LiveInv, Logs
<1> DEFINE e == EventOfStep
           op == OperationAfter(e, log.op)
<1>3. /\ ProgressEvent(e) => RunMoved
      /\ e \in {"ATTEMPT_STARTED", "EXECUTOR_STARTED", "ATTEMPT_ENDED", "VALIDATED",
                "RETRY_PREPARED", "CHECKPOINT_CREATED", "RUN_RESUME_STARTED", "OTHER"}
      /\ doing # "none" => e \in {"ATTEMPT_ENDED", "VALIDATED"}
      /\ doing = "none" => e # "VALIDATED"
  BY <1>1, EventFacts
<1>4. /\ e \in {"ATTEMPT_ENDED", "VALIDATED"} => op = "IDLE"
      /\ e = "RETRY_PREPARED" => op = "RECOVERY"
      /\ e \in {"ATTEMPT_STARTED", "EXECUTOR_STARTED", "CHECKPOINT_CREATED",
                "RUN_RESUME_STARTED", "OTHER"} => op = log.op
  BY <1>2, OperationFacts
<1> HIDE DEF e
<1>5. op \in Operations
  BY <1>2, <1>3, <1>4 DEF Operations
<1>6. /\ log' \in Logs /\ log'.op = op
      /\ log'.quiet = IF ProgressEvent(e) THEN 0 ELSE log.quiet
      /\ log'.mine => log.mine \/ op # log.op
  <2>1. AppendEvent(e)
    BY <1>1 DEF e
  <2> QED
    BY <1>2, <1>5, <2>1, AppendFacts
<1>7. log.quiet \in 0..(Threshold + 2) /\ Threshold \in Nat
  BY <1>2, CliConstants DEF Logs
<1>8. still' \in 0..(Threshold + 1) /\ still' <= log'.quiet
  BY <1>1, <1>2, <1>3, <1>6, <1>7
<1> HIDE DEF op
<1>9. log'.mine => op \in {"IDLE", "RECOVERY"}
  <2>1. doing = "none" /\ log.mine => log.op \in {"IDLE", "RECOVERY"}
    BY DEF LiveInv
  <2> QED
    BY <1>3, <1>4, <1>6, <2>1
<1> QED
  BY <1>1, <1>6, <1>8, <1>9 DEF LiveInv, Waits

\* An operation begins or ends; Works is its event.
LEMMA WorkLive ==
  ASSUME LiveInv, pc # "idle", NEW type, NEW then, Works(type, then),
         \/ /\ type \in {"TURN_COMPLETED", "PARSE_FAILED", "PROVIDER_FAILED", "TOOL_OBSERVED"}
            /\ then \in {"none", "failed"}
         \/ type = "VALIDATION_STARTED" /\ then = "validator"
         \/ type = "MODEL_CALL_STARTED" /\ then = "model"
         \/ type = "MODEL_RESPONSE_RECEIVED" /\ then = "parser"
         \/ type = "TOOL_STARTED" /\ then = "tool"
         \/ type \in {"SNAPSHOT", "OTHER"} /\ then = "claim" /\ doing = "none",
         then \in {"model", "parser", "tool", "failed", "claim"} => pc \in Working,
         then = "validator" => WillJudge
  PROVE  LiveInv'
<1>1. /\ AppendEvent(type) /\ doing' = then /\ still' = 0 /\ UNCHANGED vars
  BY DEF Works
<1>2. log \in Logs /\ log.op \in Operations
  BY DEF LiveInv, Logs
<1> DEFINE op == OperationAfter(type, log.op)
<1>3. /\ type \in {"TURN_COMPLETED", "PARSE_FAILED", "PROVIDER_FAILED", "TOOL_OBSERVED"} => op = "IDLE"
      /\ type = "VALIDATION_STARTED" => op = "VALIDATOR"
      /\ type = "MODEL_CALL_STARTED" => op = "MODEL_CALL"
      /\ type = "MODEL_RESPONSE_RECEIVED" => op = "PARSER"
      /\ type = "TOOL_STARTED" => op = "TOOL"
      /\ type \in {"SNAPSHOT", "OTHER"} => op = log.op
  BY <1>2, OperationFacts
<1>4. op \in Operations
  BY <1>2, <1>3 DEF Operations
<1>5. /\ log' \in Logs /\ log'.op = op /\ log'.quiet \in Nat
      /\ log'.mine => log.mine \/ op # log.op
  <2>1. log' \in Logs /\ log'.op = op /\ (log'.mine => log.mine \/ op # log.op)
    BY <1>1, <1>2, <1>4, AppendFacts
  <2> QED
    BY <2>1, CliConstants DEF Logs
<1>6. WillJudge' = WillJudge /\ pc' = pc
  BY <1>1, WillJudgeKept
<1> HIDE DEF op
<1> QED
  BY <1>1, <1>3, <1>5, <1>6, CliConstants DEF LiveInv, Waits

LEMMA LiveStep ==
  ASSUME IInv, IInv', Grounded, FrontInv, LiveInv, [CliNext]_cliVars
  PROVE  LiveInv'
<1>0. /\ log \in Logs /\ still \in 0..(Threshold + 1) /\ still <= log.quiet
      /\ log.quiet \in 0..(Threshold + 2) /\ Threshold \in Nat
  BY CliConstants DEF LiveInv, Logs
<1>1. ASSUME UNCHANGED << vars, log, doing, still >> PROVE LiveInv'
  BY <1>1, WillJudgeKept DEF LiveInv
<1>2. CASE UNCHANGED cliVars
  BY <1>1, <1>2 DEF cliVars
<1>3. Readings \/ FinishCommand \/ prepare_new \/ prepare_resume \/ CommandRefused => LiveInv'
  BY <1>1
  DEF Readings, BeginReading, ReadAttempts, ReadVerdict, ReadRecovery, Project, Shown,
      ReadingFails, Reads, FinishCommand, prepare_new, prepare_resume, Command, CommandRefused
<1>4. doing # "none" => pc # "idle"
  BY DEF LiveInv, WillJudge, Working, Waits
<1>5. ASSUME ExecutePrepared PROVE LiveInv'
  <2>1. pc = "idle" /\ doing = "none" /\ UNCHANGED << doing, still >>
    BY <1>4, <1>5 DEF ExecutePrepared, FrontInv
  <2>2. CASE UNCHANGED << vars, log >>
    BY <1>1, <2>1, <2>2
  <2>3. CASE log' = [log EXCEPT !.mine = FALSE]
    <3>1. log' \in Logs /\ log'.quiet = log.quiet /\ ~log'.mine
      BY <1>0, <2>3 DEF Logs
    <3> QED
      BY <1>0, <2>1, <3>1 DEF LiveInv, Waits
  <2> QED
    BY <1>5, <2>2, <2>3 DEF ExecutePrepared
<1>6. ASSUME CommandDies PROVE LiveInv'
  <2>1. pc' = "idle" /\ doing' = "none" /\ UNCHANGED << log, still >>
    BY <1>6 DEF CommandDies, Crash, vars
  <2> QED
    BY <1>0, <2>1 DEF LiveInv, Waits
<1>7. RunStep => LiveInv'
  BY RunStepLive DEF RunStep, FrontInv
<1>8. ASSUME RunJudges PROVE LiveInv'
  <2>1. doing = "claim" /\ doing' = "none" /\ still' = 0 /\ AppendEvent("SNAPSHOT") /\ pc' = pc
    BY <1>8 DEF RunJudges, ExecutorJudges
  <2> DEFINE op == log.op
  <2>2. op \in Operations /\ OperationAfter("SNAPSHOT", op) = op
    BY <1>0, OperationFacts DEF Logs
  <2>3. /\ log' \in Logs /\ log'.op = op /\ log'.quiet = 0
        /\ log'.mine => log.mine \/ op # log.op
    BY <1>0, <2>1, <2>2, AppendFacts DEF ProgressEvent
  <2> QED
    BY <1>0, <2>1, <2>3 DEF LiveInv, Waits
<1>9. StartValidation \/ KernelSteps => LiveInv'
  <2> USE DEF Working
  <2>1. StartValidation => LiveInv'
    BY WorkLive DEF StartValidation, WillJudge
  <2>2. CallModel => LiveInv'
    BY WorkLive DEF CallModel
  <2>3. ModelReturns => LiveInv'
    BY WorkLive DEF ModelReturns, LiveInv
  <2>4. ParserReturns => LiveInv'
    BY WorkLive DEF ParserReturns, LiveInv
  <2>5. CallTool \/ ToolReturns => LiveInv'
    BY WorkLive DEF CallTool, ToolReturns, LiveInv
  <2>6. ClaimBegins => LiveInv'
    BY WorkLive DEF ClaimBegins, LiveInv
  <2> QED
    BY <2>1, <2>2, <2>3, <2>4, <2>5, <2>6 DEF KernelSteps
<1>10. ASSUME Tick PROVE LiveInv'
  <2> DEFINE q == IF log.quiet = Threshold + 2 THEN log.quiet
                  ELSE IF log.quiet >= Threshold + 1 THEN log.quiet ELSE log.quiet + 1
  <2>1. /\ log' = [log EXCEPT !.quiet = q] /\ UNCHANGED << vars, doing >>
        /\ still' = IF still >= Threshold + 1 THEN still ELSE still + 1
    BY <1>10 DEF Tick, Never, Older
  <2>2. /\ q \in 0..(Threshold + 2) /\ still' \in 0..(Threshold + 1) /\ still' <= q
    BY <1>0, <2>1
  <2> HIDE DEF q
  <2>3. log' \in Logs /\ log'.quiet = q /\ log'.op = log.op /\ log'.mine = log.mine
    BY <1>0, <2>1, <2>2 DEF Logs
  <2>4. WillJudge' = WillJudge /\ pc' = pc
    BY <2>1, WillJudgeKept
  <2> QED
    BY <2>1, <2>2, <2>3, <2>4 DEF LiveInv
<1> QED
  BY <1>2, <1>3, <1>5, <1>6, <1>7, <1>8, <1>9, <1>10 DEF CliNext, CommandSteps, RunSteps

\* The health that is shown is never better than it is, and the operation that is
\* shown is the one the run waits for (project_liveness, against the steps of the
\* orchestrator, the kernel and the commands that come and go around them).
THEOREM HealthIsHonest == CliSpec => []LivenessIsHonest
<1>1. CliInit => LiveInv
  <2>1. ASSUME CliInit PROVE LiveInv
    <3> DEFINE q == Threshold + 2
    <3>1. log = [quiet |-> q, op |-> "IDLE", mine |-> FALSE] /\ q \in 0..(Threshold + 2)
      BY <2>1, CliConstants DEF CliInit, Never
    <3> HIDE DEF q
    <3>2. log \in Logs /\ log.quiet = q
      BY <3>1 DEF Logs, Operations
    <3> QED
      BY <2>1, <3>1, <3>2, CliConstants DEF CliInit, LiveInv, Waits
  <2> QED
    BY <2>1
<1>2. CliIInv /\ CliIInv' /\ LiveInv /\ [CliNext]_cliVars => LiveInv'
  BY LiveStep DEF CliIInv
<1>3. CliSpec => []LiveInv
  BY <1>1, <1>2, CommandInductive, PTL DEF CliSpec
<1>4. LiveInv => LivenessIsHonest
  <2> SUFFICES ASSUME LiveInv PROVE LivenessIsHonest
    OBVIOUS
  <2>1. Health = "ACTIVE" => still <= Threshold
    <3>1. /\ log.quiet \in 0..(Threshold + 2) /\ still \in 0..(Threshold + 1) /\ still <= log.quiet
          /\ Threshold \in Nat
      BY CliConstants DEF LiveInv, Logs
    <3> QED
      BY <3>1 DEF Health, Never
  <2>2. doing \in Waits
    BY DEF LiveInv
  <2> QED
    BY <2>1, <2>2 DEF LivenessIsHonest, LiveInv, Waits
<1> QED
  BY <1>3, <1>4, PTL

----------------------------------------------------------------------------
(* The recovery controller.                                                  *)

Evaluators == [states : Seq(States), actions : SUBSET Actions]
Controllers ==
  [epoch : Nat, eval : Evaluators, noProgress : Nat, repeatedAction : Nat,
   repeatedState : Nat, rejections : Nat]
Trackers ==
  [on : BOOLEAN, states : SUBSET States, actions : SUBSET Actions, noProgress : Nat,
   repeatedAction : Nat, repeatedState : Nat, stop : StopReasons]
NativeAttempts ==
  [pc : {"idle", "turn", "answer", "ended"}, turns : 0..MaxTurns, count : 0..MaxRepairs,
   result : Results]
Histories == [observations : Nat, mismatch : BOOLEAN, rejections : Nat]

Shaped ==
  /\ ctl \in Controllers /\ trk \in Trackers
  /\ attempt \in NativeAttempts /\ seen \in Histories
  /\ signals \subseteq SignalReasons \X (1..ctl.epoch)

\* An epoch begins only after an attempt, and no more attempts than MaxRepairs do.
EpochIsPaid ==
  /\ 1 <= ctl.epoch /\ ctl.epoch <= attempt.count + 1
  /\ attempt.pc # "idle" \/ attempt.result # "none" => ctl.epoch <= attempt.count

\* The number n, as far as the history counts.
UpTo(n) == IF n < SeenCap THEN n ELSE SeenCap

\* What the controller counted is covered by what the epoch observed: the first
\* observation repeats nothing, and lack of progress takes an observation or a
\* rejection each time.
CountsCovered(c, s) ==
  LET n == Len(c.eval.states) IN
  /\ s.observations = UpTo(n) /\ s.rejections = UpTo(c.rejections)
  /\ n = 0 => c.eval.actions = {}
  /\ c.repeatedAction = 0 \/ c.repeatedAction < n
  /\ c.repeatedState = 0 \/ c.repeatedState < n
  /\ c.noProgress <= n + c.rejections

\* The evidence that the history s holds for the reason r.
Earned(r, s) ==
  /\ r = "REPAIR_REPEATED_ACTION" => s.observations > MaxRepeatedAction
  /\ r = "REPAIR_STATE_OSCILLATION" => s.observations >= 3
  /\ r = "REPAIR_NO_PROGRESS" =>
       \/ s.mismatch
       \/ s.observations > MaxRepeatedState
       \/ s.observations + s.rejections >= MaxNoProgress
  /\ r = "REPEATED_VALIDATOR_REJECTION" => s.rejections >= MaxNoProgress

SignalsEarned == \A sig \in signals : sig[2] = ctl.epoch => Earned(sig[1], seen)

\* The inductive invariant.
RcInv == Shaped /\ EpochIsPaid /\ CountsCovered(ctl, seen) /\ SignalsEarned

LEMMA MoreCounts ==
  ASSUME NEW n \in Nat
  PROVE  UpTo(n) \in Nat /\ More(UpTo(n)) = UpTo(n + 1) /\ UpTo(n) <= More(UpTo(n))
  BY DEF More, UpTo, SeenCap

\* Evidence is only added to.
LEMMA EarnedStays ==
  ASSUME NEW r, NEW s \in Histories, NEW t \in Histories, Earned(r, s),
         s.observations <= t.observations, s.rejections <= t.rejections,
         s.mismatch => t.mismatch
  PROVE  Earned(r, t)
  BY DEF Earned, Histories, MaxRepeatedAction, MaxRepeatedState, MaxNoProgress

\* A reason that an observation gives is earned with it.
LEMMA JudgedIsCovered ==
  ASSUME Shaped, CountsCovered(ctl, seen), NEW o \in Observations
  PROVE  LET j == Judged(o)
             t == [seen EXCEPT !.observations = More(@), !.mismatch = @ \/ o.end = "MISMATCH"]
         IN /\ j.c \in Controllers /\ j.c.epoch = ctl.epoch
            /\ CountsCovered(j.c, t)
            /\ j.reason # "none" => j.reason \in Reasons /\ Earned(j.reason, t)
<1> DEFINE n == Len(ctl.eval.states)
           p == Assessed(o)
           ev == Evaluated(o)
           kept == [ctl EXCEPT !.eval = ev]
           more == IF p.action THEN 1 ELSE 0
           more2 == IF p.state THEN 1 ELSE 0
           rA == ctl.repeatedAction + more
           rS == ctl.repeatedState + more2
           nP == IF \/ p.status = "NO_PROGRESS"
                    \/ p.status = "CHANGED_UNKNOWN" /\ o.mutation = "none"
                   THEN ctl.noProgress + 1 ELSE 0
           counted == [ctl EXCEPT !.eval = ev, !.repeatedAction = rA, !.repeatedState = rS,
                                  !.noProgress = nP]
           saw == More(seen.observations)
           mis == seen.mismatch \/ o.end = "MISMATCH"
           t == [seen EXCEPT !.observations = saw, !.mismatch = mis]
           j == Judged(o)
<1>1. /\ ctl \in Controllers /\ ctl.eval \in Evaluators /\ ctl.eval.states \in Seq(States)
      /\ ctl.eval.actions \in SUBSET Actions /\ n \in Nat
      /\ ctl.repeatedAction \in Nat /\ ctl.repeatedState \in Nat
      /\ ctl.noProgress \in Nat /\ ctl.rejections \in Nat
      /\ seen \in Histories /\ seen.mismatch \in BOOLEAN
  BY DEF Shaped, Controllers, Evaluators, Histories
<1>0. /\ seen.observations = UpTo(n) /\ seen.rejections = UpTo(ctl.rejections)
      /\ n = 0 => ctl.eval.actions = {}
      /\ ctl.repeatedAction = 0 \/ ctl.repeatedAction < n
      /\ ctl.repeatedState = 0 \/ ctl.repeatedState < n
      /\ ctl.noProgress <= n + ctl.rejections
  BY DEF CountsCovered
<1>2. o.action \in Actions /\ o.state \in States
  BY DEF Observations
<1>3. Append(ctl.eval.states, o.state) \in Seq(States)
      /\ Len(Append(ctl.eval.states, o.state)) = n + 1
  BY <1>1, <1>2, AppendProperties
<1>4. ev \in Evaluators /\ Len(ev.states) = n + 1
  <2>1. ctl.eval.actions \cup {o.action} \in SUBSET Actions
    BY <1>1, <1>2
  <2> QED
    BY <1>3, <2>1 DEF Evaluated, Evaluators
<1>5. /\ n = 0 => ~p.action /\ ~p.state
      /\ p.status = "OSCILLATING" => n >= 2
  <2>1. p.action = (o.action \in ctl.eval.actions)
    BY DEF Assessed
  <2>2. p.state = (\E i \in 1..n : ctl.eval.states[i] = o.state)
    BY DEF Assessed
  <2>3. p.status = "OSCILLATING" => n >= 2
    BY <1>1 DEF Assessed
  <2> HIDE DEF p
  <2>4. n = 0 => ~(\E i \in 1..n : ctl.eval.states[i] = o.state)
    OBVIOUS
  <2> QED
    BY <1>0, <2>1, <2>2, <2>3, <2>4
<1>6. p.action \in BOOLEAN /\ p.state \in BOOLEAN
  BY DEF Assessed
<1> HIDE DEF ev, p, n
<1>7. /\ rA \in Nat /\ rS \in Nat /\ nP \in Nat
      /\ rA = 0 \/ rA < n + 1
      /\ rS = 0 \/ rS < n + 1
      /\ nP <= n + 1 + ctl.rejections
  <2>1. more \in {0, 1} /\ (n = 0 => more = 0) /\ more2 \in {0, 1} /\ (n = 0 => more2 = 0)
    BY <1>5, <1>6
  <2>2. nP = ctl.noProgress + 1 \/ nP = 0
    OBVIOUS
  <2> HIDE DEF more, more2, nP
  <2>3. n \in Nat
    BY <1>1 DEF n
  <2>4. rA \in Nat /\ (rA = 0 \/ rA < n + 1)
    BY <1>0, <1>1, <2>1, <2>3
  <2>5. rS \in Nat /\ (rS = 0 \/ rS < n + 1)
    BY <1>0, <1>1, <2>1, <2>3
  <2>6. nP \in Nat /\ nP <= n + 1 + ctl.rejections
    BY <1>0, <1>1, <2>2, <2>3
  <2> QED
    BY <2>4, <2>5, <2>6
<1>8. saw = UpTo(n + 1) /\ saw \in Nat
  BY <1>0, <1>1, MoreCounts DEF n, More, UpTo, SeenCap
<1>9. mis \in BOOLEAN
  BY <1>1, Zenon
<1>10. /\ t \in Histories /\ t.observations = UpTo(n + 1)
       /\ t.rejections = UpTo(ctl.rejections) /\ t.mismatch = mis
  <2> HIDE DEF saw, mis, n
  <2> QED
    BY <1>0, <1>1, <1>8, <1>9 DEF Histories
<1>11. counted = Counted(o)
  BY DEF Counted, p, ev
<1> HIDE DEF rA, rS, nP
<1>12. /\ kept \in Controllers /\ kept.epoch = ctl.epoch /\ kept.eval = ev
       /\ kept.repeatedAction = ctl.repeatedAction /\ kept.repeatedState = ctl.repeatedState
       /\ kept.noProgress = ctl.noProgress /\ kept.rejections = ctl.rejections
  BY <1>1, <1>4 DEF Controllers
<1>13. /\ counted \in Controllers /\ counted.epoch = ctl.epoch /\ counted.eval = ev
       /\ counted.repeatedAction = rA /\ counted.repeatedState = rS
       /\ counted.noProgress = nP /\ counted.rejections = ctl.rejections
  BY <1>1, <1>4, <1>7 DEF Controllers
<1> HIDE DEF kept, counted, t
<1>21. n \in Nat
  BY <1>1 DEF n
<1>14. CountsCovered(kept, t)
  BY <1>0, <1>1, <1>4, <1>10, <1>12, <1>21 DEF CountsCovered
<1>15. CountsCovered(counted, t)
  BY <1>1, <1>4, <1>7, <1>10, <1>13, <1>21 DEF CountsCovered
<1>16. \/ j.c = kept /\ j.reason = "none"
       \/ j.c = kept /\ j.reason = "REPAIR_NO_PROGRESS" /\ o.end = "MISMATCH"
       \/ j.c = kept /\ j.reason = "REPAIR_STATE_OSCILLATION" /\ p.status = "OSCILLATING"
       \/ j.c = counted /\ j.reason = Exceeded(counted)
  BY <1>11 DEF Judged, kept, p, ev
<1>17. Exceeded(counted) # "none" => Exceeded(counted) \in Reasons /\ Earned(Exceeded(counted), t)
  <2>1. CASE rA >= MaxRepeatedAction
    <3>1. Exceeded(counted) = "REPAIR_REPEATED_ACTION"
      BY <1>13, <2>1 DEF Exceeded
    <3>2. n + 1 >= 3
      BY <1>1, <1>7, <1>21, <2>1 DEF MaxRepeatedAction, n
    <3> QED
      BY <1>1, <1>10, <1>21, <3>1, <3>2 DEF Earned, UpTo, SeenCap, MaxRepeatedAction, Reasons
  <2>2. CASE ~(rA >= MaxRepeatedAction) /\ (rS >= MaxRepeatedState \/ nP >= MaxNoProgress)
    <3>1. Exceeded(counted) = "REPAIR_NO_PROGRESS"
      BY <1>13, <2>2 DEF Exceeded
    <3>2. n + 1 >= 3 \/ n + 1 + ctl.rejections >= 3
      BY <1>1, <1>7, <1>21, <2>2 DEF MaxRepeatedState, MaxNoProgress
    <3>3. t.observations > MaxRepeatedState \/ t.observations + t.rejections >= MaxNoProgress
      BY <1>1, <1>10, <1>21, <3>2 DEF UpTo, SeenCap, MaxRepeatedState, MaxNoProgress
    <3> QED
      BY <3>1, <3>3 DEF Earned, Reasons
  <2>3. CASE ~(rA >= MaxRepeatedAction) /\ ~(rS >= MaxRepeatedState \/ nP >= MaxNoProgress)
    BY <1>13, <2>3 DEF Exceeded
  <2> QED
    BY <2>1, <2>2, <2>3
<1>18. Earned("REPAIR_STATE_OSCILLATION", t) \/ p.status # "OSCILLATING"
  BY <1>1, <1>5, <1>10, <1>21 DEF Earned, UpTo, SeenCap
<1>19. Earned("REPAIR_NO_PROGRESS", t) \/ o.end # "MISMATCH"
  BY <1>10 DEF Earned
<1> HIDE DEF j
<1>20. /\ j.c \in Controllers /\ j.c.epoch = ctl.epoch /\ CountsCovered(j.c, t)
       /\ j.reason # "none" => j.reason \in Reasons /\ Earned(j.reason, t)
  BY <1>12, <1>13, <1>14, <1>15, <1>16, <1>17, <1>18, <1>19 DEF Reasons
<1> QED
  BY <1>20 DEF j, t

\* A tracker stays a tracker, whatever it is told.
LEMMA TrackerTyped ==
  ASSUME Shaped, NEW t \in Trackers
  PROVE  /\ \A r \in StopReasons : Stopped(t, r) \in Trackers
         /\ \A r \in Results : FailedTracker(t, r) \in Trackers
         /\ \A o \in Observations : Tracked(o) \in Trackers
<1>1. \A r \in StopReasons : Stopped(t, r) \in Trackers
  BY DEF Stopped, Trackers
<1>2. \A r \in Results : FailedTracker(t, r) \in Trackers
  <2> TAKE r \in Results
  <2>1. FailedTracker(t, r) \in {t, Stopped(t, "BUDGET_EXHAUSTED"),
                                 Stopped(t, "MODEL_FAILURE"), Stopped(t, "TOOL_FAILURE")}
    BY DEF FailedTracker
  <2>2. {"BUDGET_EXHAUSTED", "MODEL_FAILURE", "TOOL_FAILURE"} \subseteq StopReasons
    BY DEF StopReasons
  <2> QED
    BY <1>1, <2>1, <2>2
<1>3. \A o \in Observations : Tracked(o) \in Trackers
  <2> TAKE o \in Observations
  <2> DEFINE rA == trk.repeatedAction + (IF o.action \in trk.actions THEN 1 ELSE 0)
             rS == trk.repeatedState + (IF o.state \in trk.states THEN 1 ELSE 0)
             nP == IF o.effects = "all" THEN 0 ELSE trk.noProgress + 1
             known == trk.states \cup {o.state}
             tried == trk.actions \cup {o.action}
             stop == IF o.end \in {"FAILURE", "MISMATCH"} THEN "TOOL_FAILURE"
                     ELSE IF o.end = "CHANGE" THEN "REPLAN_REQUIRED"
                     ELSE IF rA >= MaxRepeatedAction THEN "REPEATED_ACTION"
                     ELSE IF rS >= MaxRepeatedState \/ nP >= MaxNoProgress
                       THEN "NO_PROGRESS" ELSE "none"
             new == [trk EXCEPT !.states = known, !.actions = tried, !.repeatedAction = rA,
                                !.repeatedState = rS, !.noProgress = nP, !.stop = stop]
  <2>1. Tracked(o) = trk \/ Tracked(o) = new
    BY DEF Tracked
  <2>2. rA \in Nat /\ rS \in Nat /\ nP \in Nat
    BY DEF Shaped, Trackers
  <2>3. known \in SUBSET States /\ tried \in SUBSET Actions
    BY DEF Shaped, Trackers, Observations
  <2>4. stop \in StopReasons
    BY DEF StopReasons
  <2> HIDE DEF rA, rS, nP, known, tried, stop
  <2>5. new \in Trackers
    BY <2>2, <2>3, <2>4 DEF Shaped, Trackers
  <2> QED
    BY <2>1, <2>5 DEF Shaped
<1> QED
  BY <1>1, <1>2, <1>3

\* The place of an attempt after a step of it.
LEMMA AttemptTyped ==
  ASSUME Shaped
  PROVE  /\ \A r \in Results : [attempt EXCEPT !.pc = "ended", !.result = r] \in NativeAttempts
         /\ [attempt EXCEPT !.pc = "turn"] \in NativeAttempts
         /\ [attempt EXCEPT !.pc = "idle"] \in NativeAttempts
         /\ [attempt EXCEPT !.result = "none"] \in NativeAttempts
         /\ attempt.turns < MaxTurns =>
              /\ [attempt EXCEPT !.turns = attempt.turns + 1] \in NativeAttempts
              /\ [attempt EXCEPT !.pc = "answer", !.turns = attempt.turns + 1]
                   \in NativeAttempts
<1>1. attempt.turns < MaxTurns => attempt.turns + 1 \in 0..MaxTurns
  BY RecoveryConstants DEF Shaped, NativeAttempts
<1>2. "none" \in Results
  BY DEF Results
<1> QED
  BY <1>1, <1>2 DEF Shaped, NativeAttempts

\* A signal of the current epoch that is earned, or claims nothing.
LEMMA SignalAdded ==
  ASSUME RcInv, seen' \in Histories, ctl'.epoch = ctl.epoch,
         seen.observations <= seen'.observations, seen.rejections <= seen'.rejections,
         seen.mismatch => seen'.mismatch,
         NEW R, R \subseteq SignalReasons, \A r \in R : Earned(r, seen'),
         signals' = signals \cup (R \X {ctl.epoch})
  PROVE  signals' \subseteq SignalReasons \X (1..ctl'.epoch) /\ SignalsEarned'
<1>1. ctl.epoch \in 1..ctl.epoch
  BY DEF RcInv, EpochIsPaid, Shaped, Controllers
<1>2. signals' \subseteq SignalReasons \X (1..ctl.epoch)
  BY <1>1 DEF RcInv, Shaped
<1>3. ASSUME NEW sig \in signals', sig[2] = ctl.epoch
      PROVE  Earned(sig[1], seen')
  <2>1. CASE sig \in signals
    BY <1>3, <2>1, EarnedStays DEF RcInv, SignalsEarned, Shaped
  <2>2. CASE sig \in R \X {ctl.epoch}
    BY <2>2
  <2> QED
    BY <2>1, <2>2
<1> QED
  BY <1>2, <1>3 DEF SignalsEarned

\* Steps that leave the controller and the history alone.
LEMMA OutsideStep ==
  ASSUME RcInv, UNCHANGED << ctl, seen >>, trk' \in Trackers, attempt' \in NativeAttempts,
         EpochIsPaid',
         \/ signals' = signals
         \/ \E r \in {"LOCAL_REPAIR_BUDGET_EXHAUSTED", "BUDGET_EXHAUSTED"} :
              signals' = signals \cup {<< r, ctl.epoch >>}
  PROVE  RcInv'
<1>1. seen \in Histories
  BY DEF RcInv, Shaped
<1>2. PICK R \in {{}, {"LOCAL_REPAIR_BUDGET_EXHAUSTED"}, {"BUDGET_EXHAUSTED"}} :
        signals' = signals \cup (R \X {ctl.epoch})
  <2>1. signals = signals \cup ({} \X {ctl.epoch})
    OBVIOUS
  <2>2. \A r : {r} \X {ctl.epoch} = {<< r, ctl.epoch >>}
    OBVIOUS
  <2> QED
    BY <2>1, <2>2
<1>3. R \subseteq SignalReasons /\ \A r \in R : Earned(r, seen')
  BY <1>2 DEF SignalReasons, Reasons, Earned
<1>4. seen.observations <= seen.observations /\ seen.rejections <= seen.rejections
  BY <1>1 DEF Histories
<1>5. signals' \subseteq SignalReasons \X (1..ctl'.epoch) /\ SignalsEarned'
  BY <1>1, <1>2, <1>3, <1>4, SignalAdded
<1>6. CountsCovered(ctl', seen')
  BY DEF RcInv
<1> QED
  BY <1>5, <1>6 DEF RcInv, Shaped

\* The attempt's own steps, and the budget's.
LEMMA AttemptSteps ==
  ASSUME RcInv
  PROVE  /\ \A p, n : reserve_capacity(p, n) => RcInv'
         /\ \A p : EscalationAcquires(p) => RcInv'
         /\ BeginAttempt => RcInv'
         /\ AcquireTurn => RcInv'
         /\ TurnBudgetEnds => RcInv'
         /\ ModelFails => RcInv'
         /\ ClaimAccepted => RcInv'
         /\ FinishAttempt => RcInv'
<1>1. Shaped /\ trk \in Trackers /\ attempt \in NativeAttempts /\ ctl.epoch \in Nat
  BY DEF RcInv, Shaped, Controllers
<1>2. /\ attempt.count \in Nat /\ attempt.turns \in Nat
      /\ attempt.pc \in {"idle", "turn", "answer", "ended"}
  BY <1>1, RecoveryConstants DEF NativeAttempts
<1>3. \A p, n : reserve_capacity(p, n) => RcInv'
  BY <1>1, OutsideStep DEF reserve_capacity, RcInv, EpochIsPaid
<1>4. \A p : EscalationAcquires(p) => RcInv'
  BY <1>1, OutsideStep DEF EscalationAcquires, RcInv, EpochIsPaid
<1>5. ASSUME BeginAttempt PROVE RcInv'
  <2>1. trk' \in Trackers
    <3>1. \A on \in BOOLEAN, known \in SUBSET States : NewTracker(on, known) \in Trackers
      BY DEF NewTracker, Trackers, StopReasons
    <3> QED
      BY <1>5, <3>1 DEF BeginAttempt
  <2>2. attempt' = [pc |-> "turn", turns |-> 0, count |-> attempt.count + 1, result |-> "none"]
        /\ attempt.count < MaxRepairs
    BY <1>5 DEF BeginAttempt
  <2>3. attempt' \in NativeAttempts
    BY <1>2, <2>2, RecoveryConstants DEF NativeAttempts, Results
  <2>4. EpochIsPaid'
    BY <1>1, <1>2, <1>5, <2>2 DEF EpochIsPaid, RcInv, BeginAttempt
  <2> QED
    BY <1>5, <2>1, <2>3, <2>4, OutsideStep DEF BeginAttempt
\* An attempt that ends has begun, so that its epoch is paid for.
<1>6. ASSUME NEW r \in Results, attempt.pc # "idle", End(r), UNCHANGED ctl
      PROVE  attempt' \in NativeAttempts /\ EpochIsPaid'
  <2>1. attempt' = [attempt EXCEPT !.pc = "ended", !.result = r]
    BY <1>6 DEF End
  <2>2. attempt' \in NativeAttempts
    BY <1>1, <2>1, AttemptTyped
  <2>3. attempt'.count = attempt.count
    BY <1>1, <2>1 DEF NativeAttempts
  <2> QED
    BY <1>1, <1>2, <1>6, <2>2, <2>3 DEF EpochIsPaid, RcInv
<1>7. ASSUME NEW r \in Results, NEW t \in Trackers, attempt.pc # "idle", Fail(r, t),
             UNCHANGED ctl
      PROVE  attempt' \in NativeAttempts /\ EpochIsPaid' /\ trk' \in Trackers
  BY <1>1, <1>6, <1>7, TrackerTyped DEF Fail
<1>8. /\ {"REPLAN_REQUIRED", "BUDGET_EXHAUSTED", "PROVIDER_FAILURE", "ACCEPTED"} \subseteq Results
      /\ {"REPLAN_REQUIRED", "VERIFIED"} \subseteq StopReasons
  BY DEF Results, StopReasons
<1>9. ASSUME AcquireTurn PROVE RcInv'
  <2>1. CASE lease.on /\ ~CanAcquire("local_repair")
    <3>1. Stopped(trk, "REPLAN_REQUIRED") \in Trackers
      BY <1>1, <1>8, TrackerTyped
    <3>2. Fail("REPLAN_REQUIRED", Stopped(trk, "REPLAN_REQUIRED"))
          /\ signals' = signals \cup {<< "LOCAL_REPAIR_BUDGET_EXHAUSTED", ctl.epoch >>}
          /\ attempt.pc # "idle" /\ UNCHANGED << ctl, seen >>
      BY <1>9, <2>1 DEF AcquireTurn, Emitted
    <3> QED
      BY <1>7, <1>8, <3>1, <3>2, OutsideStep
  <2>2. CASE ~(lease.on /\ ~CanAcquire("local_repair"))
    <3>1. /\ attempt' = [attempt EXCEPT !.pc = "answer", !.turns = attempt.turns + 1]
          /\ attempt.turns < MaxTurns /\ attempt.pc = "turn"
          /\ UNCHANGED << ctl, seen, trk, signals >>
      BY <1>9, <2>2 DEF AcquireTurn
    <3>2. attempt' \in NativeAttempts /\ attempt'.count = attempt.count
      BY <1>1, <3>1, AttemptTyped DEF NativeAttempts
    <3>3. EpochIsPaid'
      BY <1>1, <1>2, <3>1, <3>2 DEF EpochIsPaid, RcInv
    <3> QED
      BY <1>1, <3>1, <3>2, <3>3, OutsideStep
  <2> QED
    BY <2>1, <2>2
<1>10. ASSUME TurnBudgetEnds PROVE RcInv'
  <2>1. Fail("BUDGET_EXHAUSTED", trk) /\ attempt.pc # "idle" /\ UNCHANGED << ctl, seen >>
        /\ signals' = signals \cup {<< "BUDGET_EXHAUSTED", ctl.epoch >>}
    BY <1>10 DEF TurnBudgetEnds
  <2> QED
    BY <1>1, <1>7, <1>8, <2>1, OutsideStep
<1>11. ASSUME ModelFails PROVE RcInv'
  <2>1. Fail("PROVIDER_FAILURE", trk) /\ attempt.pc # "idle" /\ UNCHANGED << ctl, seen, signals >>
    BY <1>11 DEF ModelFails
  <2> QED
    BY <1>1, <1>7, <1>8, <2>1, OutsideStep
<1>12. ASSUME ClaimAccepted PROVE RcInv'
  <2>1. /\ End("ACCEPTED") /\ attempt.pc # "idle" /\ UNCHANGED << ctl, seen, signals >>
        /\ trk' = Stopped(trk, "VERIFIED")
    BY <1>12 DEF ClaimAccepted
  <2>2. trk' \in Trackers
    BY <1>1, <1>8, <2>1, TrackerTyped
  <2> QED
    BY <1>6, <1>8, <2>1, <2>2, OutsideStep
<1>13. ASSUME FinishAttempt PROVE RcInv'
  <2>1. /\ attempt' = [attempt EXCEPT !.pc = "idle"] /\ attempt.pc = "ended"
        /\ UNCHANGED << ctl, seen, signals >>
        /\ trk' = Stopped(trk, "VERIFIED") \/ trk' = FailedTracker(trk, attempt.result)
    BY <1>13 DEF FinishAttempt
  <2>2. attempt.result \in Results
    BY <1>1 DEF NativeAttempts
  <2>3. trk' \in Trackers
    BY <1>1, <1>8, <2>1, <2>2, TrackerTyped
  <2>4. attempt' \in NativeAttempts /\ attempt'.count = attempt.count
    BY <1>1, <2>1, AttemptTyped DEF NativeAttempts
  <2>5. EpochIsPaid'
    BY <1>1, <1>2, <2>1, <2>4 DEF EpochIsPaid, RcInv
  <2> QED
    BY <2>1, <2>3, <2>4, <2>5, OutsideStep
<1> QED
  BY <1>3, <1>4, <1>5, <1>9, <1>10, <1>11, <1>12, <1>13

\* Where an attempt goes on after an observation or a rejected claim.
LEMMA GoesOn ==
  ASSUME RcInv, attempt.pc = "answer", ctl'.epoch = ctl.epoch,
         NEW t \in Trackers,
         \/ \E r \in Results, u \in Trackers : Fail(r, u)
         \/ \E r \in Results : End(r) /\ trk' = t
         \/ trk' = t /\ attempt' = [attempt EXCEPT !.pc = "turn"]
         \/ /\ trk' = t /\ attempt.turns < MaxTurns
            /\ attempt' = [attempt EXCEPT !.turns = attempt.turns + 1]
  PROVE  trk' \in Trackers /\ attempt' \in NativeAttempts /\ EpochIsPaid'
<1>1. Shaped /\ attempt \in NativeAttempts /\ ctl.epoch \in Nat
  BY DEF RcInv, Shaped, Controllers
<1>2. attempt.count \in Nat
  BY <1>1, RecoveryConstants DEF NativeAttempts
<1>3. trk' \in Trackers
  BY <1>1, TrackerTyped DEF Fail
<1>4. \/ \E r \in Results : attempt' = [attempt EXCEPT !.pc = "ended", !.result = r]
      \/ attempt' = [attempt EXCEPT !.pc = "turn"]
      \/ /\ attempt.turns < MaxTurns
         /\ attempt' = [attempt EXCEPT !.turns = attempt.turns + 1]
  BY DEF Fail, End
<1>5. attempt' \in NativeAttempts
  BY <1>1, <1>4, AttemptTyped
<1>6. attempt'.count = attempt.count
  BY <1>1, <1>4 DEF NativeAttempts
<1>7. EpochIsPaid'
  BY <1>1, <1>2, <1>6 DEF EpochIsPaid, RcInv
<1> QED
  BY <1>3, <1>5, <1>7

\* An observation: what the controller concludes is earned with it.
LEMMA ObserveStep ==
  ASSUME RcInv, NEW o \in Observations, Observe(o)
  PROVE  RcInv'
<1> DEFINE j == Judged(o)
           t == Tracked(o)
           saw == [seen EXCEPT !.observations = More(@), !.mismatch = @ \/ o.end = "MISMATCH"]
           escalate == Aware /\ j.reason # "none"
           first == IF escalate THEN {j.reason} ELSE {}
           second == IF o.end = "CHANGE" THEN {"REPEATED_TOOL_FAILURE"} ELSE {}
           R == first \cup second
<1>1. Shaped /\ seen \in Histories
  BY DEF RcInv, Shaped
<1>2. /\ j.c \in Controllers /\ j.c.epoch = ctl.epoch
      /\ CountsCovered(j.c, saw)
      /\ j.reason # "none" => j.reason \in Reasons /\ Earned(j.reason, saw)
  BY <1>1, JudgedIsCovered DEF RcInv
<1>3. t \in Trackers
  BY <1>1, TrackerTyped DEF Shaped
<1>4. ctl' = j.c /\ seen' = saw /\ attempt.pc = "answer"
  BY DEF Observe
<1>5. /\ saw \in Histories /\ seen.observations <= saw.observations
      /\ seen.rejections <= saw.rejections /\ (seen.mismatch => saw.mismatch)
  <2> DEFINE more == More(seen.observations)
             mis == seen.mismatch \/ o.end = "MISMATCH"
  <2>1. more \in Nat /\ seen.observations <= more
    BY <1>1 DEF Histories, More, SeenCap
  <2>2. mis \in BOOLEAN
    BY <1>1, Zenon DEF Histories
  <2>3. seen.mismatch => mis
    OBVIOUS
  <2>4. saw = [seen EXCEPT !.observations = more, !.mismatch = mis]
    OBVIOUS
  <2> HIDE DEF more, mis, saw
  <2>5. saw \in Histories
    BY <1>1, <2>1, <2>2, <2>4 DEF Histories
  <2>6. saw.observations = more /\ saw.rejections = seen.rejections
    BY <1>1, <2>4 DEF Histories
  <2>7. saw.mismatch = mis
    BY <1>1, <2>4 DEF Histories
  <2>8. seen.rejections <= seen.rejections
    BY <1>1 DEF Histories
  <2> QED
    BY <2>1, <2>3, <2>5, <2>6, <2>7, <2>8
<1>6. signals' = signals \cup (R \X {ctl.epoch})
  <2> DEFINE middle == IF escalate THEN signals \cup {<< j.reason, ctl.epoch >>} ELSE signals
  <2>1. signals' = IF o.end = "CHANGE"
                     THEN middle \cup {<< "REPEATED_TOOL_FAILURE", ctl.epoch >>} ELSE middle
    BY DEF Observe, Emitted
  <2>2. middle = signals \cup (first \X {ctl.epoch})
    <3> HIDE DEF j
    <3> QED
      OBVIOUS
  <2>3. signals' = middle \cup (second \X {ctl.epoch})
    <3> HIDE DEF middle
    <3> QED
      BY <2>1
  <2>4. R \X {ctl.epoch} = (first \X {ctl.epoch}) \cup (second \X {ctl.epoch})
    <3> HIDE DEF first, second
    <3> QED
      OBVIOUS
  <2> HIDE DEF middle, first, second
  <2> QED
    BY <2>2, <2>3, <2>4
<1>7. R \subseteq SignalReasons /\ \A r \in R : Earned(r, saw)
  <2>1. Earned("REPEATED_TOOL_FAILURE", saw)
    BY DEF Earned
  <2> HIDE DEF saw, j
  <2> QED
    BY <1>2, <2>1 DEF SignalReasons
<1>8. \/ \E r \in Results, u \in Trackers : Fail(r, u)
      \/ \E r \in Results : End(r) /\ trk' = t
      \/ trk' = t /\ attempt' = [attempt EXCEPT !.pc = "turn"]
      \/ /\ trk' = t /\ attempt.turns < MaxTurns
         /\ attempt' = [attempt EXCEPT !.turns = attempt.turns + 1]
  <2>1. \/ End("VALIDATION_CANDIDATE") /\ trk' = t
        \/ Fail("REPLAN_REQUIRED", Stopped(t, "REPLAN_REQUIRED"))
        \/ Fail(t.stop, t)
        \/ trk' = t /\ attempt' = [attempt EXCEPT !.pc = "turn"]
        \/ /\ trk' = t /\ attempt.turns < MaxTurns
           /\ attempt' = [attempt EXCEPT !.turns = attempt.turns + 1]
    BY DEF Observe
  <2>2. t.stop \in Results
    <3> HIDE DEF t
    <3> QED
      BY <1>3 DEF Trackers, Results
  <2>3. "VALIDATION_CANDIDATE" \in Results /\ "REPLAN_REQUIRED" \in Results \cap StopReasons
    BY DEF Results, StopReasons
  <2>4. Stopped(t, "REPLAN_REQUIRED") \in Trackers
    BY <1>1, <1>3, <2>3, TrackerTyped
  <2> HIDE DEF t
  <2> QED
    BY <1>3, <2>1, <2>2, <2>3, <2>4
<1> HIDE DEF j, saw, t, R
<1>9. trk' \in Trackers /\ attempt' \in NativeAttempts /\ EpochIsPaid'
  BY <1>2, <1>3, <1>4, <1>8, GoesOn
<1>10. signals' \subseteq SignalReasons \X (1..ctl'.epoch) /\ SignalsEarned'
  BY <1>2, <1>4, <1>5, <1>6, <1>7, SignalAdded
<1> QED
  BY <1>2, <1>4, <1>5, <1>9, <1>10 DEF RcInv, Shaped

\* A rejected claim counts as a rejection and as lack of progress.
LEMMA RejectStep ==
  ASSUME RcInv, ClaimRejected
  PROVE  RcInv'
<1> DEFINE rej == ctl.rejections + 1
           nP == ctl.noProgress + 1
           c == [ctl EXCEPT !.rejections = rej, !.noProgress = nP]
           n == trk.noProgress + 1
           told == IF n >= MaxNoProgress THEN "NO_PROGRESS" ELSE trk.stop
           t == IF ~trk.on \/ trk.stop # "none" THEN trk
                ELSE [trk EXCEPT !.noProgress = n, !.stop = told]
           more == More(seen.rejections)
           saw == [seen EXCEPT !.rejections = more]
           escalate == Aware /\ c.rejections >= MaxNoProgress
           R == IF escalate THEN {"REPEATED_VALIDATOR_REJECTION"} ELSE {}
<1>1. /\ Shaped /\ seen \in Histories /\ ctl \in Controllers /\ trk \in Trackers
      /\ ctl.rejections \in Nat /\ ctl.noProgress \in Nat /\ trk.noProgress \in Nat
      /\ trk.stop \in StopReasons /\ ctl.epoch \in Nat
  BY DEF RcInv, Shaped, Controllers, Trackers
<1>2. /\ attempt.pc = "answer" /\ ctl' = c /\ seen' = saw
      /\ signals' = IF escalate
                      THEN signals \cup {<< "REPEATED_VALIDATOR_REJECTION", ctl.epoch >>}
                      ELSE signals
      /\ \/ Fail("REPLAN_REQUIRED", Stopped(t, "REPLAN_REQUIRED"))
         \/ Fail(t.stop, t)
         \/ trk' = t /\ attempt' = [attempt EXCEPT !.pc = "turn"]
  BY DEF ClaimRejected, Emitted
<1>3. more = UpTo(rej) /\ more \in Nat /\ seen.rejections <= more
  <2>1. seen.rejections = UpTo(ctl.rejections)
    BY DEF RcInv, CountsCovered
  <2>2. UpTo(ctl.rejections) \in Nat /\ More(UpTo(ctl.rejections)) = UpTo(ctl.rejections + 1)
        /\ UpTo(ctl.rejections) <= More(UpTo(ctl.rejections))
    BY <1>1, MoreCounts
  <2>3. more \in Nat
    BY <1>1 DEF Histories, More, SeenCap
  <2> QED
    BY <2>1, <2>2, <2>3
<1>4. t \in Trackers
  <2>1. told \in StopReasons /\ n \in Nat
    BY <1>1 DEF StopReasons
  <2> HIDE DEF told, n
  <2> QED
    BY <1>1, <2>1 DEF Trackers
<1> HIDE DEF t, more
<1>5. /\ c \in Controllers /\ c.epoch = ctl.epoch /\ c.eval = ctl.eval
      /\ c.repeatedAction = ctl.repeatedAction /\ c.repeatedState = ctl.repeatedState
      /\ c.noProgress = nP /\ c.rejections = rej
  <2>1. rej \in Nat /\ nP \in Nat
    BY <1>1
  <2> HIDE DEF rej, nP
  <2> QED
    BY <1>1, <2>1 DEF Controllers
<1>6. /\ saw \in Histories /\ saw.observations = seen.observations
      /\ saw.rejections = more /\ saw.mismatch = seen.mismatch
      /\ seen.observations <= saw.observations
  BY <1>1, <1>3 DEF Histories
<1>7. Earned("REPEATED_VALIDATOR_REJECTION", saw) \/ ~escalate
  BY <1>1, <1>3, <1>5, <1>6 DEF Earned, UpTo, SeenCap, MaxNoProgress
<1> HIDE DEF c, saw
<1>8. CountsCovered(c, saw)
  <2>1. ctl.eval.states \in Seq(States)
    BY <1>1 DEF Controllers, Evaluators
  <2> DEFINE len == Len(ctl.eval.states)
  <2>2. len \in Nat
    BY <2>1
  <2>3. ctl.noProgress <= len + ctl.rejections
    BY DEF RcInv, CountsCovered
  <2> HIDE DEF len
  <2>4. nP <= len + rej
    BY <1>1, <2>2, <2>3
  <2> HIDE DEF nP, rej
  <2>5. /\ saw.observations = UpTo(len) /\ len = Len(c.eval.states)
        /\ len = 0 => c.eval.actions = {}
        /\ c.repeatedAction = 0 \/ c.repeatedAction < len
        /\ c.repeatedState = 0 \/ c.repeatedState < len
    BY <1>5, <1>6 DEF RcInv, CountsCovered, len
  <2> QED
    BY <1>3, <1>5, <1>6, <2>4, <2>5 DEF CountsCovered
<1>9. trk' \in Trackers /\ attempt' \in NativeAttempts /\ EpochIsPaid'
  <2>1. "REPLAN_REQUIRED" \in Results \cap StopReasons /\ t.stop \in Results
    BY <1>4 DEF Results, StopReasons, Trackers
  <2>2. Stopped(t, "REPLAN_REQUIRED") \in Trackers
    BY <1>1, <1>4, <2>1, TrackerTyped
  <2>3. \/ \E r \in Results, u \in Trackers : Fail(r, u)
        \/ trk' = t /\ attempt' = [attempt EXCEPT !.pc = "turn"]
    BY <1>2, <1>4, <2>1, <2>2
  <2> QED
    BY <1>2, <1>4, <1>5, <2>3, GoesOn
<1>10. R \subseteq SignalReasons /\ (\A r \in R : Earned(r, saw))
       /\ signals' = signals \cup (R \X {ctl.epoch})
  <2>1. {"REPEATED_VALIDATOR_REJECTION"} \X {ctl.epoch}
          = {<< "REPEATED_VALIDATOR_REJECTION", ctl.epoch >>}
    OBVIOUS
  <2>2. {} \X {ctl.epoch} = {}
    OBVIOUS
  <2> HIDE DEF escalate
  <2> QED
    BY <1>2, <1>7, <2>1, <2>2 DEF SignalReasons, Reasons
<1> HIDE DEF R
<1>11. signals' \subseteq SignalReasons \X (1..ctl'.epoch) /\ SignalsEarned'
  BY <1>2, <1>3, <1>5, <1>6, <1>10, SignalAdded
<1> QED
  BY <1>2, <1>5, <1>6, <1>8, <1>9, <1>11 DEF RcInv, Shaped

\* A new strategy starts with nothing counted and nothing held against it.
LEMMA EpochStep ==
  ASSUME RcInv, BeginEpoch
  PROVE  RcInv'
<1>1. /\ ctl' = NewController(ctl.epoch + 1) /\ seen' = NoHistory
      /\ attempt' = [attempt EXCEPT !.result = "none"] /\ attempt.pc = "idle"
      /\ attempt.result # "none" /\ UNCHANGED << trk, signals >>
  BY DEF BeginEpoch, FreshController
<1>2. Shaped /\ ctl.epoch \in Nat /\ attempt \in NativeAttempts
  BY DEF RcInv, Shaped, Controllers
<1>3. << >> \in Seq(States) /\ Len(<< >>) = 0 /\ ctl.epoch + 1 \in Nat
  BY <1>2
<1>4. NewEvaluator \in Evaluators
  BY <1>3 DEF NewEvaluator, Evaluators
<1>5. ctl' \in Controllers /\ ctl'.epoch = ctl.epoch + 1
  BY <1>1, <1>3, <1>4 DEF NewController, Controllers
<1>6. seen' \in Histories /\ CountsCovered(ctl', seen')
  BY <1>1, <1>3
  DEF NoHistory, Histories, CountsCovered, NewController, NewEvaluator, UpTo, SeenCap
<1>7. attempt' \in NativeAttempts /\ attempt'.count = attempt.count
      /\ attempt'.pc = "idle" /\ attempt'.result = "none"
  BY <1>1, <1>2, AttemptTyped DEF NativeAttempts
<1>8. EpochIsPaid'
  <2>1. attempt.count \in Nat
    BY <1>2, RecoveryConstants DEF NativeAttempts
  <2> QED
    BY <1>1, <1>2, <1>5, <1>7, <2>1 DEF EpochIsPaid, RcInv
<1>9. signals' \subseteq SignalReasons \X (1..ctl'.epoch)
  BY <1>1, <1>2, <1>5 DEF Shaped
<1>10. SignalsEarned'
  <2>1. \A sig \in signals : sig[2] \in 1..ctl.epoch
    BY <1>2 DEF Shaped
  <2> QED
    BY <1>1, <1>2, <1>5, <2>1 DEF SignalsEarned
<1> QED
  BY <1>1, <1>2, <1>5, <1>6, <1>7, <1>8, <1>9, <1>10 DEF RcInv, Shaped

\* A new run counts nothing.
LEMMA RcStart == RcInit => RcInv
<1> SUFFICES ASSUME RcInit PROVE RcInv
  OBVIOUS
<1>1. << >> \in Seq(States) /\ Len(<< >>) = 0
  OBVIOUS
<1>2. NewEvaluator \in Evaluators
  BY <1>1 DEF NewEvaluator, Evaluators
<1>3. ctl \in Controllers /\ ctl.epoch = 1
  BY <1>2 DEF RcInit, NewController, Controllers
<1>4. seen \in Histories /\ CountsCovered(ctl, seen)
  BY <1>1
  DEF RcInit, NoHistory, Histories, CountsCovered, NewController, NewEvaluator, UpTo, SeenCap
<1>5. trk \in Trackers
  <2>1. NewTracker(FALSE, {}) \in Trackers
    BY DEF NewTracker, Trackers, StopReasons
  <2> QED
    BY <2>1 DEF RcInit
<1>6. attempt \in NativeAttempts /\ EpochIsPaid
  BY <1>3, RecoveryConstants DEF RcInit, NativeAttempts, EpochIsPaid, Results
<1>7. signals = {}
  BY DEF RcInit
<1> QED
  BY <1>3, <1>4, <1>5, <1>6, <1>7 DEF RcInv, Shaped, SignalsEarned

\* The inductive invariant holds in every behaviour of the control plane.
THEOREM RecoveryInductive == RcSpec => []RcInv
<1>1. RcInv /\ [RcNext]_rcVars => RcInv'
  <2> SUFFICES ASSUME RcInv, [RcNext]_rcVars PROVE RcInv'
    OBVIOUS
  <2>1. CASE UNCHANGED rcVars
    BY <2>1 DEF rcVars, RcInv, Shaped, EpochIsPaid, CountsCovered, SignalsEarned
  <2>2. CASE RcNext
    BY <2>2, AttemptSteps, ObserveStep, RejectStep, EpochStep DEF RcNext
  <2> QED
    BY <2>1, <2>2
<1> QED
  BY <1>1, RcStart, PTL DEF RcSpec

\* The control plane keeps its shape, and epochs stay within the repairs.
THEOREM RecoveryTypeCorrect == RcSpec => []RcTypeOK
<1>1. RcInv => RcTypeOK
  <2> SUFFICES ASSUME RcInv PROVE RcTypeOK
    OBVIOUS
  <2>1. /\ attempt.count \in 0..MaxRepairs /\ attempt.turns \in 0..MaxTurns
        /\ attempt.result \in Results /\ ctl.epoch \in Nat
        /\ trk.stop \in StopReasons /\ trk.states \subseteq States
    BY DEF RcInv, Shaped, Controllers, Trackers, NativeAttempts
  <2>2. ctl.epoch \in 1..(MaxRepairs + 1)
    BY <2>1, RecoveryConstants DEF RcInv, EpochIsPaid
  <2> QED
    BY <2>1, <2>2 DEF RcTypeOK, RcInv, Shaped
<1> QED
  BY <1>1, RecoveryInductive, PTL

\* Repetition, oscillation and lack of progress are concluded only from what the
\* epoch itself observed (EffectProgressEvaluator, RecoveryController).
THEOREM EscalationsAreEarned == RcSpec => []EscalationIsEarned
<1>1. RcInv => EscalationIsEarned
  <2> SUFFICES ASSUME RcInv, NEW sig \in signals, sig[2] = ctl.epoch
               PROVE  CASE sig[1] = "REPAIR_REPEATED_ACTION" ->
                             seen.observations > MaxRepeatedAction
                        [] sig[1] = "REPAIR_STATE_OSCILLATION" -> seen.observations >= 3
                        [] sig[1] = "REPAIR_NO_PROGRESS" ->
                             \/ seen.mismatch
                             \/ seen.observations > MaxRepeatedState
                             \/ seen.observations + seen.rejections >= MaxNoProgress
                        [] sig[1] = "REPEATED_VALIDATOR_REJECTION" ->
                             seen.rejections >= MaxNoProgress
                        [] OTHER -> TRUE
    BY DEF EscalationIsEarned
  <2>1. Earned(sig[1], seen)
    BY DEF RcInv, SignalsEarned
  <2> QED
    BY <2>1 DEF Earned
<1> QED
  BY <1>1, RecoveryInductive, PTL
=============================================================================
