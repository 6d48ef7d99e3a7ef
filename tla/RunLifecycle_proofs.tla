------------------------ MODULE RunLifecycle_proofs ------------------------
(***************************************************************************)
(* For every MaxAttempts, every loop guard, every set of executor errors   *)
(* and every number of crashes and resumes: the tables stay well typed,    *)
(* the retry budget and the retry order hold, and a run is only completed  *)
(* on a persisted validation pass.                                         *)
(*                                                                         *)
(* None of the three is inductive.  RowOK adds what each attempt row       *)
(* records about its own past, Placed adds what is known of the tables at  *)
(* each place in the code.                                                 *)
(***************************************************************************)
EXTENDS RunLifecycle, SequenceTheorems, TLAPS

\* Places where the process works on a run it has seen RUNNING.
RunningPlaces ==
  { "startAttempt", "buildContext", "linkContext", "executing", "reexecuting",
    "cancelRun", "revalidate", "judgeRecovered", "stampFailure", "checkpoint" }

\* What holds at each place in the code, whatever crash led back to it.
Placed ==
  /\ task = "CREATED" => run = None
  /\ pc = "createRun" => run = None /\ task # "CREATED"
  /\ pc = "ensure" => run = "RUNNING" \/ (migrating /\ run = "BLOCKED_PROVIDER")
  /\ pc \in {"switch", "unparkTask", "unparkRun"} =>
       run \in {"RUNNING", "BLOCKED_PROVIDER"}
  /\ pc = "startRun" => run = "CREATED"
  /\ pc = "parkRun" => run = "RUNNING"
  /\ pc = "loop" => run \in {"RUNNING", "CANCELLED"}
  /\ pc \in RunningPlaces => run = "RUNNING" /\ attempts # <<>>
  /\ pc \in {"buildContext", "linkContext", "executing", "reexecuting"} =>
       Latest.status = "RUNNING"
  /\ pc = "startAttempt" => Latest.status = "PENDING"
  /\ pc = "revalidate" => Latest.status = "COMPLETED"
  /\ pc = "judgeRecovered" => WorkspaceEnabled
  /\ pc = "stampFailure" => Latest.report # None
  /\ pc = "checkpoint" => Latest.action # None
  /\ pc = "finishTask" => run \in {"ESCALATED", "FAILED"}
  /\ pc \in {"completeTask", "closeWorkspace"} => run = "COMPLETED"
  /\ pc = "cancelTask" => run = "CANCELLED"

\* What the n-th attempt row says about its own past.
RowOK(r, n) ==
  /\ r.status = "COMPLETED" => r.etype = None
  /\ r.verdict = "pass" /\ ~WorkspaceEnabled /\ ~Native => r.status = "COMPLETED"
  /\ r.action \in RetryActions => n < MaxAttempts

RowsOK == \A n \in 1..Len(attempts) : RowOK(attempts[n], n)

\* The inductive invariant.
IInv ==
  /\ TypeOK
  /\ Placed
  /\ RowsOK
  /\ RetryBudget
  /\ RetryOrder
  /\ ValidatorBackedCompletion
----------------------------------------------------------------------------
\* The classifier always answers with a failure type.
LEMMA ClassifyType ==
  ASSUME NEW status, NEW text, NEW typed, NEW verdict
  PROVE  Classify(status, text, typed, verdict) \in FailureTypes
<1>1. ASSUME Mentions(ProviderSignatures, 7, text)
      PROVE  FirstMentioned(ProviderSignatures, 7, text) \in FailureTypes
  BY <1>1 DEF Mentions, FirstMentioned, FailureTypes, ProviderSignatures
<1>2. ASSUME Mentions(LateSignatures, 6, text)
      PROVE  FirstMentioned(LateSignatures, 6, text) \in FailureTypes
  BY <1>2 DEF Mentions, FirstMentioned, FailureTypes, LateSignatures
<1>3. QED
  BY <1>1, <1>2 DEF Classify, FailureTypes

\* The policy always answers with an action, and retries only below the limit.
LEMMA DecideType ==
  ASSUME NEW ft, NEW n \in Nat
  PROVE  /\ Decide(ft, n, MaxAttempts) \in RecoveryActions
         /\ Decide(ft, n, MaxAttempts) \in RetryActions => n < MaxAttempts
  BY RunConstants DEF Decide, RecoveryActions, RetryActions, ProviderBlocked

\* A decision that leads to a step on the latest attempt was taken for a RUNNING
\* run with such an attempt, in the status that the step expects.
LEMMA DecisionFacts ==
  ASSUME attempts # <<>> => Latest \in Row
  PROVE  /\ Decision = "START_FIRST_ATTEMPT" => run = "RUNNING" /\ attempts = <<>>
         /\ Decision \in { "START_PENDING_ATTEMPT", "RESUME_NATIVE_ATTEMPT",
              "RECOVER_INTERRUPTED_ATTEMPT", "VALIDATE_ATTEMPT",
              "COMPLETE_FROM_PERSISTED_VALIDATION", "CLASSIFY_FAILURE",
              "CONTINUE_PERSISTED_RECOVERY", "START_NEXT_ATTEMPT" } =>
              run = "RUNNING" /\ attempts # <<>>
         /\ Decision = "START_PENDING_ATTEMPT" => Latest.status = "PENDING"
         /\ Decision = "RESUME_NATIVE_ATTEMPT" => Latest.status = "RUNNING"
         /\ Decision = "RECOVER_INTERRUPTED_ATTEMPT" => WorkspaceEnabled
         /\ Decision = "VALIDATE_ATTEMPT" =>
              WorkspaceEnabled \/ Latest.status = "COMPLETED"
         /\ Decision = "COMPLETE_FROM_PERSISTED_VALIDATION" =>
              Latest.verdict = "pass"
         /\ Decision = "START_NEXT_ATTEMPT" =>
              /\ Latest.status \in EndedStatuses
              /\ Latest.report # None
              /\ Latest.action \in RetryActions
              /\ Latest.ckpt
              /\ Latest.verdict = "pass" =>
                   ~WorkspaceEnabled /\ Latest.status # "COMPLETED"
<1>1. CASE attempts = <<>>
  BY <1>1 DEF Decision
<1>2. CASE attempts # <<>>
  <2> DEFINE r == Latest
  <2>1. r.status \in AttemptStatuses /\ r.ckpt \in BOOLEAN
    BY <1>2 DEF Row
  <2>2. RecoveryDecision = "START_NEXT_ATTEMPT" =>
          r.action \in RetryActions /\ r.ckpt
    BY <2>1 DEF RecoveryDecision, CheckpointMatches
  <2>3. RecoveryDecision \in {"CONTINUE_PERSISTED_RECOVERY", "RETURN_TERMINAL",
                              "START_NEXT_ATTEMPT"}
    BY DEF RecoveryDecision
  <2>4. ReportDecision = "CLASSIFY_FAILURE" \/
          (r.report # None /\ ReportDecision = RecoveryDecision)
    BY DEF ReportDecision
  <2>5. \/ JudgedDecision = "VALIDATE_ATTEMPT"
        \/ JudgedDecision = "COMPLETE_FROM_PERSISTED_VALIDATION"
             /\ r.verdict = "pass"
        \/ JudgedDecision = ReportDecision /\ r.verdict # "pass"
    BY DEF JudgedDecision
  <2>6. \/ AttemptDecision = "START_PENDING_ATTEMPT" /\ r.status = "PENDING"
        \/ AttemptDecision = "RESUME_NATIVE_ATTEMPT" /\ r.status = "RUNNING"
        \/ AttemptDecision = "RECOVER_INTERRUPTED_ATTEMPT" /\ WorkspaceEnabled
        \/ AttemptDecision = "CLASSIFY_FAILURE"
        \/ /\ AttemptDecision = JudgedDecision
           /\ WorkspaceEnabled \/ r.status = "COMPLETED"
           /\ r.status \in EndedStatuses
        \/ /\ AttemptDecision = ReportDecision
           /\ r.status \in EndedStatuses
           /\ r.verdict = "pass" => ~WorkspaceEnabled /\ r.status # "COMPLETED"
        \/ AttemptDecision = "COMPLETE_FROM_PERSISTED_VALIDATION"
             /\ r.verdict = "pass"
    BY <2>1 DEF AttemptDecision, AttemptStatuses, EndedStatuses
  <2>7. \/ Decision \in {"RETURN_TERMINAL", "INITIALIZE_WORKSPACE"}
        \/ run = "RUNNING" /\ Decision = AttemptDecision
    BY <1>2 DEF Decision
  <2>8. QED
    BY <1>2, <2>1, <2>2, <2>3, <2>4, <2>5, <2>6, <2>7
<1>3. QED
  BY <1>1, <1>2

\* Writing the latest row keeps every other row and the number of rows.
LEMMA WriteLatest ==
  ASSUME attempts \in Seq(Row), attempts # <<>>, NEW row \in Row, Write(row)
  PROVE  /\ attempts' \in Seq(Row) /\ attempts' # <<>>
         /\ Len(attempts') = Len(attempts)
         /\ Latest' = row
         /\ \A n \in 1..(Len(attempts) - 1) : attempts'[n] = attempts[n]
<1>1. Len(attempts) \in 1..Len(attempts)
  BY EmptySeq, LenProperties
<1>2. QED
  BY <1>1, ExceptSeq DEF Write, Latest

\* A written row that is in order leaves all rows in order.
LEMMA WriteKeepsRows ==
  ASSUME attempts \in Seq(Row), attempts # <<>>, NEW row \in Row, Write(row),
         RowsOK, RetryBudget, RetryOrder, RowOK(row, Len(attempts))
  PROVE  RowsOK' /\ RetryBudget' /\ RetryOrder'
<1>1. /\ attempts' \in Seq(Row) /\ Len(attempts') = Len(attempts)
      /\ attempts'[Len(attempts)] = row
      /\ \A n \in 1..(Len(attempts) - 1) : attempts'[n] = attempts[n]
  BY WriteLatest DEF Latest
<1>2. Len(attempts) \in Nat
  BY LenProperties
<1>3. RowsOK'
  BY <1>1, <1>2 DEF RowsOK, RowOK
<1>4. RetryOrder'
  BY <1>1, <1>2 DEF RetryOrder
<1>5. QED
  BY <1>1, <1>3, <1>4 DEF RetryBudget

----------------------------------------------------------------------------
\* What a step that writes no attempt row leaves in place.
Kept == attempts' = attempts /\ TypeOK' /\ Placed' /\ ValidatorBackedCompletion'

\* Every step that writes no attempt row keeps the types, what is known at its
\* place in the code, and that a completed run has passed.
LEMMA QuietSteps ==
  ASSUME IInv
  PROVE  /\ PrepareTask => Kept
         /\ CreateRun => Kept
         /\ StartRun => Kept
         /\ EnsureCreate => Kept
         /\ EnsurePublish => Kept
         /\ EnsureOpen => Kept
         /\ EnsureDone => Kept
         /\ ResumeRun => Kept
         /\ MigrateTask => Kept
         /\ SwitchTarget => Kept
         /\ UnparkTask => Kept
         /\ UnparkRun => Kept
         /\ ResumeTask => Kept
         /\ LoopExhausted => Kept
         /\ StartPending => Kept
         /\ ResumeNative => Kept
         /\ CancelRun => Kept
         /\ CancelTask => Kept
         /\ CompleteRun => Kept
         /\ CompleteTask => Kept
         /\ CloseWorkspace => Kept
         /\ ReturnTerminal => Kept
         /\ ParkTask => Kept
         /\ ParkRun => Kept
         /\ FinishRun => Kept
         /\ FinishTask => Kept
         /\ Crash => Kept
<1> USE RunConstants DEF IInv, TypeOK, Placed, Kept, ValidatorBackedCompletion,
        Latest, tables, bounds, Local, Goto, Locations, RunningPlaces,
        TaskStatuses, RunStatuses, None
<1>0. attempts # <<>> => Latest \in Row
  BY EmptySeq, LenProperties, ElementOfSeq
<1>1. PrepareTask => Kept
  BY DEF PrepareTask
<1>2. CreateRun => Kept
  BY DEF CreateRun
<1>3. StartRun => Kept
  BY DEF StartRun
<1>4. EnsureCreate => Kept
  BY DEF EnsureCreate
<1>5. EnsurePublish => Kept
  BY DEF EnsurePublish
<1>6. EnsureOpen => Kept
  BY DEF EnsureOpen
<1>7. EnsureDone => Kept
  BY DEF EnsureDone
<1>8. ResumeRun => Kept
  BY DEF ResumeRun, Resumable
<1>9. MigrateTask => Kept
  BY DEF MigrateTask
<1>10. SwitchTarget => Kept
  BY DEF SwitchTarget
<1>11. UnparkTask => Kept
  BY DEF UnparkTask
<1>12. UnparkRun => Kept
  BY DEF UnparkRun
<1>13. ResumeTask => Kept
  BY DEF ResumeTask
<1>14. LoopExhausted => Kept
  BY DEF LoopExhausted
<1>15. StartPending => Kept
  BY <1>0, DecisionFacts DEF StartPending, Turn
<1>16. ResumeNative => Kept
  BY <1>0, DecisionFacts DEF ResumeNative, Turn
<1>17. CancelRun => Kept
  BY DEF CancelRun, Step
<1>18. CancelTask => Kept
  BY DEF CancelTask, Step
<1>19. CompleteRun => Kept
  BY <1>0, DecisionFacts DEF CompleteRun, Turn
<1>20. CompleteTask => Kept
  BY DEF CompleteTask
<1>21. CloseWorkspace => Kept
  BY DEF CloseWorkspace, Step
<1>22. ReturnTerminal => Kept
  BY <1>0, DecisionFacts DEF ReturnTerminal, Turn
<1>23. ParkTask => Kept
  BY <1>0, DecisionFacts DEF ParkTask, Turn
<1>24. ParkRun => Kept
  BY DEF ParkRun
<1>25. FinishRun => Kept
  BY <1>0, DecisionFacts DEF FinishRun, Turn
<1>26. FinishTask => Kept
  BY DEF FinishTask
<1>27. Crash => Kept
  <2> SUFFICES ASSUME Crash PROVE Kept
    OBVIOUS
  <2>1. UNCHANGED <<task, run, binding, root, attempts, resumes>>
    BY DEF Crash
  <2>2. pc' = "idle" /\ turns' \in 0..LoopGuard /\ crashes' \in 0..MaxCrashes
    BY DEF Crash
  <2>3. TypeOK'
    <3>1. migrating' \in BOOLEAN
      BY Zenon DEF Crash
    <3>2. QED
      BY <2>1, <2>2, <3>1
  <2>4. Placed'
    BY <2>1, <2>2
  <2>5. ValidatorBackedCompletion'
    BY <2>1
  <2>6. QED
    BY <2>1, <2>3, <2>4, <2>5
<1>28. QED
  BY <1>1, <1>2, <1>3, <1>4, <1>5, <1>6, <1>7, <1>8, <1>9, <1>10, <1>11, <1>12, <1>13, <1>14, <1>15, <1>16, <1>17, <1>18, <1>19, <1>20, <1>21, <1>22, <1>23, <1>24, <1>25, <1>26, <1>27

----------------------------------------------------------------------------
\* The row just written is the one expected at the next place in the code.
Expected(row, to) ==
  /\ to \in {"loop"} \cup RunningPlaces
  /\ to \in {"buildContext", "linkContext", "executing", "reexecuting"} =>
       row.status = "RUNNING"
  /\ to = "startAttempt" => row.status = "PENDING"
  /\ to = "revalidate" => row.status = "COMPLETED"
  /\ to = "judgeRecovered" => WorkspaceEnabled
  /\ to = "stampFailure" => row.report # None
  /\ to = "checkpoint" => row.action # None

\* A write to the latest row of a RUNNING run keeps the whole invariant when the
\* row is in order and expected at the place where the process goes on.
LEMMA WorkStep ==
  ASSUME IInv, attempts # <<>>, run = "RUNNING",
         NEW row \in Row, RowOK(row, Len(attempts)), Expected(row, pc'),
         Write(row), UNCHANGED <<task, run, binding, root, migrating, bounds>>,
         turns' \in 0..LoopGuard
  PROVE  IInv'
<1>1. /\ attempts' \in Seq(Row) /\ attempts' # <<>> /\ Latest' = row
  BY WriteLatest DEF IInv, TypeOK
<1>2. RowsOK' /\ RetryBudget' /\ RetryOrder'
  BY WriteKeepsRows DEF IInv, TypeOK
<1>3. TypeOK'
  BY <1>1 DEF IInv, TypeOK, Expected, RunningPlaces, Locations, bounds
<1>4. Placed'
  BY <1>1 DEF IInv, Placed, Expected, RunningPlaces, None
<1>5. ValidatorBackedCompletion'
  BY DEF ValidatorBackedCompletion
<1>6. QED
  BY <1>2, <1>3, <1>4, <1>5 DEF IInv

\* The latest row is a row, and it is in order.
LEMMA LatestRow ==
  ASSUME IInv, attempts # <<>>
  PROVE  Latest \in Row /\ RowOK(Latest, Len(attempts)) /\ Len(attempts) \in Nat \ {0}
<1>1. Len(attempts) \in 1..Len(attempts)
  BY EmptySeq, LenProperties DEF IInv, TypeOK
<1>2. QED
  BY <1>1, ElementOfSeq, LenProperties DEF IInv, TypeOK, RowsOK, Latest

\* Setting the checkpoint flag of a row changes nothing else in it.
LEMMA CheckpointRow ==
  ASSUME NEW r \in Row, NEW n, RowOK(r, n)
  PROVE  /\ [r EXCEPT !.ckpt = TRUE] \in Row
         /\ RowOK([r EXCEPT !.ckpt = TRUE], n)
<1>1. ASSUME NEW b \in BOOLEAN
      PROVE  [r EXCEPT !.ckpt = b] \in Row /\ RowOK([r EXCEPT !.ckpt = b], n)
  BY DEF Row, RowOK
<1>2. TRUE \in BOOLEAN
  OBVIOUS
<1>3. QED
  BY <1>1, <1>2, Zenon

\* The commits of an attempt's own bookkeeping keep the invariant.
LEMMA BookkeepingSteps ==
  ASSUME IInv
  PROVE  /\ StartAttempt => IInv'
         /\ BuildContext => IInv'
         /\ LinkContext => IInv'
         /\ StampFailure => IInv'
         /\ CreateCheckpoint => IInv'
<1> USE DEF Step, Goto
<1>1. ASSUME StartAttempt PROVE IInv'
  <2> DEFINE row == [Latest EXCEPT !.status = "RUNNING"]
  <2>1. attempts # <<>> /\ run = "RUNNING" /\ Write(row)
    BY <1>1 DEF IInv, Placed, StartAttempt, RunningPlaces
  <2>2. row \in Row /\ RowOK(row, Len(attempts)) /\ Expected(row, pc')
    BY <1>1, <2>1, LatestRow
       DEF IInv, Placed, StartAttempt, Row, RowOK, Expected, RunningPlaces, AttemptStatuses
  <2>3. QED
    BY <1>1, <2>1, <2>2, WorkStep DEF IInv, TypeOK, StartAttempt
<1>2. ASSUME BuildContext PROVE IInv'
  <2> DEFINE row == [Latest EXCEPT !.snap = "row"]
  <2>1. attempts # <<>> /\ run = "RUNNING" /\ Write(row)
    BY <1>2 DEF IInv, Placed, BuildContext, RunningPlaces
  <2>2. row \in Row /\ RowOK(row, Len(attempts)) /\ Expected(row, pc')
    BY <1>2, <2>1, LatestRow
       DEF IInv, Placed, BuildContext, Row, RowOK, Expected, RunningPlaces, AttemptStatuses
  <2>3. QED
    BY <1>2, <2>1, <2>2, WorkStep DEF IInv, TypeOK, BuildContext
<1>3. ASSUME LinkContext PROVE IInv'
  <2> DEFINE row == [Latest EXCEPT !.snap = "linked"]
  <2>1. attempts # <<>> /\ run = "RUNNING" /\ Write(row)
    BY <1>3 DEF IInv, Placed, LinkContext, RunningPlaces
  <2>2. row \in Row /\ RowOK(row, Len(attempts)) /\ Expected(row, pc')
    BY <1>3, <2>1, LatestRow
       DEF IInv, Placed, LinkContext, Row, RowOK, Expected, RunningPlaces, AttemptStatuses
  <2>3. QED
    BY <1>3, <2>1, <2>2, WorkStep DEF IInv, TypeOK, LinkContext
<1>4. ASSUME StampFailure PROVE IInv'
  <2> DEFINE row == [Latest EXCEPT !.ftype = Latest.report]
  <2>1. attempts # <<>> /\ run = "RUNNING" /\ Write(row)
    BY <1>4 DEF IInv, Placed, StampFailure, RunningPlaces
  <2>2. row \in Row /\ RowOK(row, Len(attempts)) /\ Expected(row, pc')
    BY <1>4, <2>1, LatestRow
       DEF IInv, Placed, StampFailure, Row, RowOK, Expected, RunningPlaces, AttemptStatuses
  <2>3. QED
    BY <1>4, <2>1, <2>2, WorkStep DEF IInv, TypeOK, StampFailure
<1>5. ASSUME CreateCheckpoint PROVE IInv'
  <2> DEFINE row == [Latest EXCEPT !.ckpt = TRUE]
  <2>1. attempts # <<>> /\ run = "RUNNING" /\ Write(row)
    BY <1>5 DEF IInv, Placed, CreateCheckpoint, RunningPlaces
  <2>2. row \in Row /\ RowOK(row, Len(attempts)) /\ Expected(row, pc')
    <3>1. row \in Row /\ RowOK(row, Len(attempts))
      BY <2>1, LatestRow, CheckpointRow
    <3>2. Expected(row, pc')
      BY <1>5 DEF CreateCheckpoint, Expected
    <3>3. QED
      BY <3>1, <3>2
  <2>3. QED
    BY <1>5, <2>1, <2>2, WorkStep DEF IInv, TypeOK, CreateCheckpoint
<1>6. QED
  BY <1>1, <1>2, <1>3, <1>4, <1>5

\* However the executor ends, its attempt was RUNNING.
LEMMA ExecutorSteps ==
  ASSUME IInv
  PROVE  /\ ExecutorJudges => IInv'
         /\ ExecutorSucceeds => IInv'
         /\ ExecutorFails => IInv'
         /\ ExecutorTimesOut => IInv'
         /\ ExecutorRaises => IInv'
         /\ ControlTerminates => IInv'
<1> USE DEF Return, Working
<1>1. ASSUME pc \in Working,
             NEW status \in EndedStatuses,
             NEW etype \in Errors \cup OwnErrors \cup {None},
             NEW emsg \in Errors \cup {None},
             NEW result \in Errors \cup {"SUCCESS", None},
             status = "COMPLETED" => etype = None,
             Finalize(status, etype, emsg, result),
             pc' \in {"loop", "cancelRun", "revalidate"},
             pc' = "revalidate" => status = "COMPLETED",
             UNCHANGED <<turns, migrating, bounds>>
      PROVE  IInv'
  <2> DEFINE row == [Latest EXCEPT !.status = status, !.etype = etype,
                                   !.emsg = emsg, !.result = result]
  <2>1. /\ attempts # <<>> /\ run = "RUNNING" /\ Latest.status = "RUNNING"
        /\ Write(row)
    BY <1>1 DEF IInv, Placed, RunningPlaces, Finalize
  <2>2. Latest \in Row /\ RowOK(Latest, Len(attempts))
    BY <2>1, LatestRow
  <2>3. row \in Row
    BY <1>1, <2>2 DEF Row, EndedStatuses
  <2>4. RowOK(row, Len(attempts)) /\ Expected(row, pc')
    BY <1>1, <2>1, <2>2 DEF Row, RowOK, Expected, RunningPlaces
  <2>5. QED
    BY <1>1, <2>1, <2>3, <2>4, WorkStep DEF IInv, TypeOK, Finalize
<1>2. ASSUME pc \in Working
      PROVE  Latest.result \in Errors \cup {"SUCCESS", None}
  BY <1>2, LatestRow DEF IInv, Placed, RunningPlaces, Row
<1> USE DEF EndedStatuses, AttemptStatuses, OwnErrors
<1>3. ExecutorSucceeds => IInv'
  BY <1>1 DEF ExecutorSucceeds
<1>4. ExecutorFails => IInv'
  BY <1>1 DEF ExecutorFails
<1>5. ExecutorTimesOut => IInv'
  BY <1>1, <1>2 DEF ExecutorTimesOut
<1>6. ExecutorRaises => IInv'
  BY <1>1, <1>2 DEF ExecutorRaises
<1>7. ControlTerminates => IInv'
  BY <1>1, <1>2 DEF ControlTerminates
<1>8. ASSUME ExecutorJudges PROVE IInv'
  <2>1. PICK v \in {"pass", "fail"} : Write([Latest EXCEPT !.verdict = v])
    BY <1>8 DEF ExecutorJudges
  <2> DEFINE row == [Latest EXCEPT !.verdict = v]
  <2>2. /\ attempts # <<>> /\ run = "RUNNING" /\ Latest.status = "RUNNING"
        /\ UNCHANGED <<task, run, binding, root, pc, turns, migrating, bounds>>
        /\ Native /\ pc \in Working
    BY <1>8 DEF IInv, Placed, RunningPlaces, ExecutorJudges, Local
  <2>3. Latest \in Row /\ RowOK(Latest, Len(attempts))
    BY <2>2, LatestRow
  <2>4. row \in Row
    BY <2>3 DEF Row
  <2>5. RowOK(row, Len(attempts)) /\ Expected(row, pc')
    BY <2>2, <2>3 DEF Row, RowOK, Expected, RunningPlaces
  <2>6. QED
    BY <2>1, <2>2, <2>4, <2>5, WorkStep DEF IInv, TypeOK
<1>9. QED
  BY <1>3, <1>4, <1>5, <1>6, <1>7, <1>8

\* A verdict is only written for a completed attempt or with a workspace.
LEMMA JudgingSteps ==
  ASSUME IInv
  PROVE  /\ Revalidate => IInv'
         /\ ValidateAttempt => IInv'
         /\ JudgeRecovered => IInv'
         /\ JudgeInterrupted => IInv'
<1> USE DEF Step, Goto, Turn
<1>1. ASSUME attempts # <<>>, run = "RUNNING",
             WorkspaceEnabled \/ Latest.status = "COMPLETED",
             Judge, pc' = "loop", UNCHANGED <<migrating, bounds>>,
             turns' \in 0..LoopGuard
      PROVE  IInv'
  <2>1. PICK v \in {"pass", "fail"} : Write([Latest EXCEPT !.verdict = v])
    BY <1>1 DEF Judge
  <2> DEFINE row == [Latest EXCEPT !.verdict = v]
  <2>2. Latest \in Row /\ RowOK(Latest, Len(attempts))
    BY <1>1, LatestRow
  <2>3. row \in Row
    BY <2>2 DEF Row
  <2>4. RowOK(row, Len(attempts)) /\ Expected(row, pc')
    BY <1>1, <2>2 DEF Row, RowOK, Expected
  <2>5. QED
    BY <1>1, <2>1, <2>3, <2>4, WorkStep DEF Judge
<1>2. attempts # <<>> => Latest \in Row
  BY LatestRow
<1>3. turns < LoopGuard => turns + 1 \in 0..LoopGuard
  BY RunConstants DEF IInv, TypeOK
<1>4. turns \in 0..LoopGuard
  BY DEF IInv, TypeOK
<1>10. ASSUME UNCHANGED <<tables, turns, migrating, bounds>>, pc' = "loop",
             run = "RUNNING"
      PROVE  IInv'
  <2>1. UNCHANGED <<task, run, binding, root, attempts, turns, migrating, crashes,
                    resumes>>
    BY <1>10 DEF tables, bounds
  <2>2. TypeOK' /\ Placed' /\ ValidatorBackedCompletion'
    BY <1>10, <2>1 DEF IInv, TypeOK, Placed, ValidatorBackedCompletion, Locations,
                       RunningPlaces, Latest, None
  <2>3. RowsOK' /\ RetryBudget' /\ RetryOrder'
    BY <2>1 DEF IInv, RowsOK, RetryBudget, RetryOrder
  <2>4. QED
    BY <2>2, <2>3 DEF IInv
<1>5. ASSUME Revalidate PROVE IInv'
  <2>1. /\ attempts # <<>> /\ run = "RUNNING" /\ Latest.status = "COMPLETED"
        /\ pc' = "loop" /\ UNCHANGED <<turns, migrating, bounds>>
    BY <1>5 DEF Revalidate, IInv, Placed, RunningPlaces
  <2>2. CASE Latest.verdict = "pass"
    BY <1>5, <1>10, <2>1, <2>2 DEF Revalidate
  <2>3. CASE Latest.verdict # "pass"
    BY <1>1, <1>4, <1>5, <2>1, <2>3 DEF Revalidate
  <2>4. QED
    BY <2>2, <2>3
<1>6. ValidateAttempt => IInv'
  BY <1>1, <1>2, <1>3, DecisionFacts DEF ValidateAttempt
<1>7. ASSUME JudgeRecovered PROVE IInv'
  <2>1. CASE Latest.verdict = None
    BY <1>1, <1>4, <1>7, <2>1 DEF JudgeRecovered, IInv, Placed, RunningPlaces
  <2>2. CASE Latest.verdict # None
    BY <1>7, <1>10, <2>2 DEF JudgeRecovered, IInv, Placed, RunningPlaces
  <2>3. QED
    BY <2>1, <2>2
<1>8. JudgeInterrupted => IInv'
  BY <1>1, <1>2, <1>3, DecisionFacts DEF JudgeInterrupted
<1>9. QED
  BY <1>5, <1>6, <1>7, <1>8

\* Marking an interrupted attempt, classifying it and deciding about it.
LEMMA RecoverySteps ==
  ASSUME IInv
  PROVE  /\ MarkInterrupted => IInv'
         /\ ClassifyFailure => IInv'
         /\ DecideRecovery => IInv'
<1> USE DEF Turn
<1>1. attempts # <<>> => Latest \in Row /\ RowOK(Latest, Len(attempts))
                           /\ Len(attempts) \in Nat
  BY LatestRow
<1>2. turns < LoopGuard => turns + 1 \in 0..LoopGuard
  BY RunConstants DEF IInv, TypeOK
<1>3. ASSUME MarkInterrupted PROVE IInv'
  <2> DEFINE row == [Latest EXCEPT !.status = "CRASHED",
                       !.etype = "PROCESS_INTERRUPTED", !.emsg = None]
  <2>1. attempts # <<>> /\ run = "RUNNING" /\ WorkspaceEnabled /\ Write(row)
    BY <1>1, <1>3, DecisionFacts DEF MarkInterrupted
  <2>2. row \in Row
    BY <1>1, <2>1 DEF Row, AttemptStatuses, OwnErrors
  <2>3. RowOK(row, Len(attempts)) /\ Expected(row, pc')
    BY <1>1, <1>3, <2>1 DEF MarkInterrupted, Row, RowOK, Expected, RunningPlaces
  <2>4. QED
    BY <1>2, <1>3, <2>1, <2>2, <2>3, WorkStep DEF MarkInterrupted
<1>4. ASSUME ClassifyFailure PROVE IInv'
  <2> DEFINE typed == {Latest.etype, Latest.result}
             ft == Classify(Latest.status, typed \cup {Latest.emsg}, typed,
                            Latest.verdict)
             row == [Latest EXCEPT !.report = ft]
  <2>1. attempts # <<>> /\ run = "RUNNING" /\ Write(row)
    BY <1>1, <1>4, DecisionFacts DEF ClassifyFailure
  <2>2. ft \in FailureTypes
    BY ClassifyType
  <2>3. None \notin FailureTypes
    BY DEF None, FailureTypes, ProviderSignatures, LateSignatures
  <2> HIDE DEF ft
  <2>4. row \in Row
    BY <1>1, <2>1, <2>2 DEF Row
  <2>5. RowOK(row, Len(attempts)) /\ Expected(row, pc')
    BY <1>1, <1>4, <2>1, <2>2, <2>3
       DEF ClassifyFailure, Row, RowOK, Expected, RunningPlaces
  <2>6. QED
    BY <1>2, <1>4, <2>1, <2>4, <2>5, WorkStep DEF ClassifyFailure
<1>5. ASSUME DecideRecovery PROVE IInv'
  <2> DEFINE new == Decide(Latest.report, Len(attempts), MaxAttempts)
             action == IF Latest.action = None THEN new ELSE Latest.action
             row == [Latest EXCEPT !.action = action]
  <2>1. attempts # <<>> /\ run = "RUNNING" /\ Write(row)
    BY <1>1, <1>5, DecisionFacts DEF DecideRecovery
  <2>2. new \in RecoveryActions /\ (new \in RetryActions => Len(attempts) < MaxAttempts)
    BY <1>1, <2>1, DecideType
  <2> HIDE DEF new
  <2>3. /\ action \in RecoveryActions
        /\ action \in RetryActions => Len(attempts) < MaxAttempts
    BY <1>1, <2>1, <2>2 DEF Row, RowOK
  <2>4. action # None
    BY <2>3 DEF None, RecoveryActions, RetryActions
  <2> HIDE DEF action
  <2>5. row \in Row
    BY <1>1, <2>1, <2>3 DEF Row
  <2>6. RowOK(row, Len(attempts)) /\ Expected(row, pc')
    BY <1>1, <1>5, <2>1, <2>3, <2>4
       DEF DecideRecovery, Row, RowOK, Expected, RunningPlaces
  <2>7. QED
    BY <1>2, <1>5, <2>1, <2>5, <2>6, WorkStep DEF DecideRecovery
<1>6. QED
  BY <1>3, <1>4, <1>5

\* Re-opening a native attempt for another provider keeps its verdict, and with
\* it the pass of a run that is already completed.
LEMMA ReopenStep ==
  ASSUME IInv, ReopenAttempt
  PROVE  IInv'
<1> DEFINE row == [Latest EXCEPT !.status = "RUNNING", !.etype = None, !.emsg = None]
<1>1. /\ UNCHANGED <<task, run, binding, root, turns, migrating, crashes, resumes>>
      /\ pc = "reopen"
      /\ pc' = "idle" \/ (pc' = "ensure" /\ run = "RUNNING")
  BY DEF ReopenAttempt, Goto, Resumable, Local, bounds
<1>2. CASE attempts' = attempts
  <2>1. TypeOK' /\ Placed' /\ ValidatorBackedCompletion'
    BY <1>1, <1>2 DEF IInv, TypeOK, Placed, ValidatorBackedCompletion, Locations,
                      RunningPlaces, Latest, None
  <2>2. RowsOK' /\ RetryBudget' /\ RetryOrder'
    BY <1>2 DEF IInv, RowsOK, RetryBudget, RetryOrder
  <2>3. QED
    BY <2>1, <2>2 DEF IInv
<1>3. CASE attempts # <<>> /\ Latest.etype \in ProviderBlocked /\ Write(row)
  <2>1. Latest \in Row /\ RowOK(Latest, Len(attempts))
    BY <1>3, LatestRow
  <2>2. row \in Row
    BY <2>1 DEF Row, AttemptStatuses
  <2>3. RowOK(row, Len(attempts))
    BY <1>3, <2>1 DEF Row, RowOK, ProviderBlocked, None
  <2>4. attempts' \in Seq(Row) /\ attempts' # <<>> /\ Latest' = row
    BY <1>3, <2>2, WriteLatest DEF IInv, TypeOK
  <2>5. RowsOK' /\ RetryBudget' /\ RetryOrder'
    BY <1>3, <2>2, <2>3, WriteKeepsRows DEF IInv, TypeOK
  <2>6. TypeOK'
    BY <1>1, <2>4 DEF IInv, TypeOK, Locations
  <2>7. Placed'
    BY <1>1 DEF IInv, Placed, RunningPlaces
  <2>8. ValidatorBackedCompletion'
    BY <1>1, <2>1, <2>4 DEF IInv, ValidatorBackedCompletion, Row
  <2>9. QED
    BY <2>5, <2>6, <2>7, <2>8 DEF IInv
<1>4. QED
  BY <1>2, <1>3 DEF ReopenAttempt

\* The next attempt is created only below the limit and after a checkpointed
\* retry decision on an attempt that did not pass.
LEMMA CreateStep ==
  ASSUME IInv, CreateAttempt
  PROVE  IInv'
<1>1. /\ UNCHANGED <<task, run, binding, root, migrating, crashes, resumes>>
      /\ pc' = "startAttempt" /\ turns' = turns + 1 /\ turns < LoopGuard
      /\ attempts' = Append(attempts, NewAttempt)
      /\ Decision \in {"START_FIRST_ATTEMPT", "START_NEXT_ATTEMPT"}
  BY DEF CreateAttempt, Turn, bounds
<1>2. NewAttempt \in Row
  BY DEF NewAttempt, Row, AttemptStatuses, None
<1>3. /\ attempts' \in Seq(Row) /\ Len(attempts') = Len(attempts) + 1
      /\ attempts' # <<>> /\ Latest' = NewAttempt
      /\ \A n \in 1..Len(attempts) : attempts'[n] = attempts[n]
  BY <1>1, <1>2, AppendProperties DEF IInv, TypeOK, Latest
<1>4. Len(attempts) \in Nat
  BY LenProperties DEF IInv, TypeOK
<1>5. attempts # <<>> => Latest \in Row /\ RowOK(Latest, Len(attempts))
  BY LatestRow
<1>6. run = "RUNNING"
  BY <1>1, <1>5, DecisionFacts
<1>7. Len(attempts) < MaxAttempts
  <2>1. CASE Decision = "START_FIRST_ATTEMPT"
    BY <1>5, <2>1, DecisionFacts, RunConstants, EmptySeq
  <2>2. CASE Decision = "START_NEXT_ATTEMPT"
    BY <1>5, <2>2, DecisionFacts DEF RowOK
  <2>3. QED
    BY <1>1, <2>1, <2>2
<1>8. RowsOK'
  <2>1. RowOK(NewAttempt, Len(attempts) + 1)
    BY DEF RowOK, NewAttempt, None, RetryActions
  <2>2. QED
    BY <1>3, <1>4, <2>1 DEF IInv, RowsOK, RowOK, Latest
<1>9. RetryBudget'
  BY <1>3, <1>4, <1>7, RunConstants DEF RetryBudget
<1>10. RetryOrder'
  <2>1. ASSUME Len(attempts) > 0
        PROVE  /\ Latest.status \in EndedStatuses
               /\ Latest.verdict = "pass" => Native /\ ~WorkspaceEnabled
               /\ Latest.report # None
               /\ Latest.action \in RetryActions
               /\ Latest.ckpt
    BY <1>1, <1>5, <2>1, DecisionFacts, EmptySeq DEF RowOK
  <2>2. QED
    BY <1>3, <1>4, <2>1 DEF IInv, RetryOrder, Latest
<1>11. TypeOK'
  BY <1>1, <1>3, RunConstants DEF IInv, TypeOK, Locations
<1>12. Placed'
  BY <1>1, <1>3, <1>6 DEF IInv, Placed, RunningPlaces, NewAttempt, None
<1>13. ValidatorBackedCompletion'
  BY <1>1, <1>6 DEF ValidatorBackedCompletion
<1>14. QED
  BY <1>8, <1>9, <1>10, <1>11, <1>12, <1>13 DEF IInv
----------------------------------------------------------------------------
\* Steps that write no row keep the invariant.
LEMMA KeptSteps ==
  ASSUME IInv, Kept
  PROVE  IInv'
  BY DEF IInv, Kept, RowsOK, RetryBudget, RetryOrder

\* The freshly created task is in order.
LEMMA InitIsInv ==
  ASSUME Init
  PROVE  IInv
<1>1. attempts \in Seq(Row) /\ Len(attempts) = 0
  BY EmptySeq DEF Init
<1>2. migrating \in BOOLEAN /\ root \in BOOLEAN
  BY Zenon DEF Init
<1>3. TypeOK
  BY <1>1, <1>2, RunConstants
     DEF Init, TypeOK, Locations, TaskStatuses, RunStatuses, None
<1>4. Placed /\ ValidatorBackedCompletion
  BY DEF Init, Placed, ValidatorBackedCompletion, RunningPlaces, None
<1>5. RowsOK /\ RetryBudget /\ RetryOrder
  BY <1>1, RunConstants DEF RowsOK, RetryBudget, RetryOrder
<1>6. QED
  BY <1>3, <1>4, <1>5 DEF IInv

\* Every commit, call, crash and resume keeps the invariant.
LEMMA StepKeepsInv ==
  ASSUME IInv, [Next]_vars
  PROVE  IInv'
<1>1. CASE UNCHANGED vars
  <2>1. Kept
    BY <1>1 DEF vars, Kept, IInv, TypeOK, Placed, RunningPlaces,
                      ValidatorBackedCompletion, Latest
  <2>2. QED
    BY <2>1, KeptSteps
<1>2. CASE PrepareTask \/ CreateRun \/ StartRun \/ EnsureCreate \/
           EnsurePublish \/ EnsureOpen \/ EnsureDone \/ ResumeRun \/
           MigrateTask \/ SwitchTarget \/ UnparkTask \/ UnparkRun \/
           ResumeTask \/ LoopExhausted \/ StartPending \/ ResumeNative \/
           CancelRun \/ CancelTask \/ CompleteRun \/ CompleteTask \/
           CloseWorkspace \/ ReturnTerminal \/ ParkTask \/ ParkRun \/
           FinishRun \/ FinishTask \/ Crash
  BY <1>2, QuietSteps, KeptSteps
<1>3. CASE ReopenAttempt \/ CreateAttempt \/ StartAttempt \/ BuildContext \/
           LinkContext \/ ExecutorJudges \/ ExecutorSucceeds \/ ExecutorFails \/
           ExecutorTimesOut \/ ExecutorRaises \/ ControlTerminates \/
           Revalidate \/ ValidateAttempt \/ MarkInterrupted \/ JudgeRecovered
           \/ JudgeInterrupted \/ ClassifyFailure \/ StampFailure \/
           DecideRecovery \/ CreateCheckpoint
  BY <1>3, ReopenStep, CreateStep, BookkeepingSteps, ExecutorSteps,
     JudgingSteps, RecoverySteps
<1>4. QED
  BY <1>1, <1>2, <1>3 DEF Next, Progress

\* The invariant is inductive.
THEOREM Inductive == Spec => []IInv
  BY InitIsInv, StepKeepsInv, PTL DEF Spec

\* The tables always hold what their columns allow.
THEOREM TypeCorrect == Spec => []TypeOK
<1>1. IInv => TypeOK
  BY DEF IInv
<1>2. QED
  BY <1>1, Inductive, PTL

\* No interleaving of crashes, resumes and provider migrations buys a task more
\* attempts than Task.max_attempts.
THEOREM BudgetHolds == Spec => []RetryBudget
<1>1. IInv => RetryBudget
  BY DEF IInv
<1>2. QED
  BY <1>1, Inductive, PTL

\* RecoveryDecision(N) -> Checkpoint(N) -> Attempt(N+1) is the only order in
\* which attempts follow each other, and none follows a pass that was asked for.
THEOREM OrderHolds == Spec => []RetryOrder
<1>1. IInv => RetryOrder
  BY DEF IInv
<1>2. QED
  BY <1>1, Inductive, PTL

\* A run is only COMPLETED on a persisted validation pass.
THEOREM CompletionIsValidated == Spec => []ValidatorBackedCompletion
<1>1. IInv => ValidatorBackedCompletion
  BY DEF IInv
<1>2. QED
  BY <1>1, Inductive, PTL

----------------------------------------------------------------------------
\* The run is written before the task and the task before the workspace.
CommitOrder ==
  /\ TaskFollowsRun
  /\ pc = "closeWorkspace" => task = "COMPLETED"

\* The steps that write the task, the run or the binding; no other step leads to
\* the place where the workspace is closed.
LEMMA RowWriters ==
  ASSUME [Next]_vars
  PROVE  \/ UNCHANGED << task, run, binding >> /\ (pc' = "closeWorkspace" => pc' = pc)
         \/ PrepareTask \/ CreateRun \/ StartRun
         \/ EnsureCreate \/ EnsureOpen \/ UnparkTask \/ UnparkRun
         \/ CancelRun \/ CancelTask \/ CompleteRun \/ CompleteTask \/ CloseWorkspace
         \/ ParkTask \/ ParkRun \/ FinishRun \/ FinishTask
<1> DEFINE Aside == UNCHANGED << task, run, binding >> /\ (pc' = "closeWorkspace" => pc' = pc)
<1> USE DEF tables, Goto, Step, Turn, Return, Finalize, Judge, Local
<1>1. CASE UNCHANGED vars
  BY <1>1 DEF vars
<1>2. ResumeRun \/ MigrateTask \/ ResumeTask \/ ReopenAttempt => Aside
  BY DEF ResumeRun, MigrateTask, ResumeTask, ReopenAttempt
<1>3. EnsurePublish \/ EnsureDone \/ SwitchTarget \/ Crash => Aside
  BY DEF EnsurePublish, EnsureDone, SwitchTarget, Crash
<1>4. LoopExhausted \/ CreateAttempt \/ StartPending \/ ResumeNative \/ ReturnTerminal => Aside
  BY DEF LoopExhausted, CreateAttempt, StartPending, ResumeNative, ReturnTerminal
<1>5. StartAttempt \/ BuildContext \/ LinkContext \/ StampFailure \/ CreateCheckpoint => Aside
  BY DEF StartAttempt, BuildContext, LinkContext, StampFailure, CreateCheckpoint
<1>6. ExecutorJudges \/ ExecutorSucceeds \/ ExecutorFails \/ ExecutorTimesOut
        \/ ExecutorRaises \/ ControlTerminates => Aside
  BY DEF ExecutorJudges, ExecutorSucceeds, ExecutorFails, ExecutorTimesOut, ExecutorRaises,
         ControlTerminates
<1>7. Revalidate \/ ValidateAttempt \/ JudgeRecovered \/ JudgeInterrupted => Aside
  BY DEF Revalidate, ValidateAttempt, JudgeRecovered, JudgeInterrupted
<1>8. MarkInterrupted \/ ClassifyFailure \/ DecideRecovery => Aside
  BY DEF MarkInterrupted, ClassifyFailure, DecideRecovery
<1> HIDE DEF Aside
<1>9. CASE Next
  BY <1>2, <1>3, <1>4, <1>5, <1>6, <1>7, <1>8, <1>9 DEF Next, Progress, Aside
<1> QED
  BY <1>1, <1>9

\* Each of those steps keeps the order.
LEMMA OrderStep ==
  ASSUME IInv, CommitOrder, [Next]_vars
  PROVE  CommitOrder'
<1> USE DEF CommitOrder, TaskFollowsRun, FinalStatuses, Goto, Step
<1>1. /\ task \in TaskStatuses /\ run \in RunStatuses \cup {None}
      /\ pc = "cancelRun" => run = "RUNNING"
      /\ attempts # << >> => Latest \in Row
  BY LatestRow DEF IInv, TypeOK, Placed, RunningPlaces
<1>2. CASE UNCHANGED << task, run, binding >> /\ (pc' = "closeWorkspace" => pc' = pc)
  BY <1>2
<1>3. PrepareTask => CommitOrder'
  BY DEF PrepareTask
<1>4. CreateRun \/ StartRun => CommitOrder'
  BY DEF CreateRun, StartRun, IInv, Placed, None
<1>5. EnsureCreate \/ EnsureOpen => CommitOrder'
  BY DEF EnsureCreate, EnsureOpen
<1>6. UnparkTask \/ UnparkRun => CommitOrder'
  BY DEF UnparkTask, UnparkRun
<1>7. CancelRun \/ CancelTask => CommitOrder'
  BY <1>1 DEF CancelRun, CancelTask, IInv, Placed
<1>8. CompleteRun => CommitOrder'
  BY <1>1, DecisionFacts DEF CompleteRun, Turn
<1>9. CompleteTask \/ CloseWorkspace => CommitOrder'
  BY DEF CompleteTask, CloseWorkspace, IInv, Placed
<1>10. ParkTask \/ ParkRun => CommitOrder'
  BY <1>1 DEF ParkTask, ParkRun, Turn, IInv, Placed
<1>11. FinishRun \/ FinishTask => CommitOrder'
  BY <1>1 DEF FinishRun, FinishTask, Turn, IInv, Placed
<1> QED
  BY <1>2, <1>3, <1>4, <1>5, <1>6, <1>7, <1>8, <1>9, <1>10, <1>11, RowWriters

\* The task never gets ahead of its run, nor the workspace of the task
\* (_complete_from_state, _finish_from_state, _run_executor).
THEOREM TaskNeverAhead == Spec => []TaskFollowsRun
<1>1. Init => CommitOrder
  BY DEF Init, CommitOrder, TaskFollowsRun, FinalStatuses, None
<1>2. IInv /\ CommitOrder /\ [Next]_vars => CommitOrder'
  BY OrderStep
<1>3. Spec => []CommitOrder
  BY <1>1, <1>2, Inductive, PTL DEF Spec
<1> QED
  BY <1>3, PTL DEF CommitOrder
============================================================================
