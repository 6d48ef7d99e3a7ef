-------------------------- MODULE RecoveryControl ---------------------------
(***************************************************************************)
(* The recovery control plane around the native turn loop:                 *)
(*                                                                         *)
(*   EffectProgressEvaluator, RecoveryBudgetManager,                       *)
(*   RecoveryController                     lhas/recovery_control.py       *)
(*   RepairProgressTracker                  lhas/repair_progress.py        *)
(*   the turn loop's use of them            lhas/native/kernel.py          *)
(*   _KernelTaskExecutor             .../runtime_factory/recovery.py       *)
(*                                                                         *)
(* One controller lives as long as the run; a tracker lives for one repair *)
(* attempt.  Both watch the same tool observations.  A controller whose    *)
(* strategy does not converge leaves a durable signal and ends the attempt *)
(* with REPLAN_REQUIRED; the replanned strategy is a new epoch.            *)
(***************************************************************************)
EXTENDS Naturals, Sequences, FiniteSets, FiniteSetsExt

CONSTANTS
  Actions,        \* action fingerprints (capability and arguments)
  States,         \* digests of the observable state
  Policies,       \* subset of {"NO_PROGRESS_AWARE", "LEGACY_BOUNDED"}
  RootCalls,      \* provider calls of the root budget authority
  MaxRepairs,     \* native attempts of the run (bounds the model)
  Escalations,    \* budget phases beside local repair, of LeasePhases
  MaxTurns        \* model turns, and further calls of an answer, in an attempt

LeasePhases == {"local_repair", "macro_replan", "post_replan", "validation"}

ASSUME RecoveryConstants ==
  /\ IsFiniteSet(Actions) /\ IsFiniteSet(States)
  /\ Policies \subseteq {"NO_PROGRESS_AWARE", "LEGACY_BOUNDED"}
  /\ Escalations \subseteq LeasePhases \ {"local_repair"}
  /\ RootCalls \in Nat /\ MaxRepairs \in Nat /\ MaxTurns \in Nat

MaxNoProgress == 3
MaxRepeatedAction == 2
MaxRepeatedState == 2
Reasons == {"REPAIR_NO_PROGRESS", "REPAIR_REPEATED_ACTION", "REPAIR_STATE_OSCILLATION",
            "LOCAL_REPAIR_BUDGET_EXHAUSTED", "REPEATED_VALIDATOR_REJECTION"}

VARIABLES
  policy,    \* the controller's escalation policy
  ctl,       \* the controller: epoch, evaluator, counters
  trk,       \* the attempt's tracker; trk.on is FALSE when there is none
  lease,     \* the root authority's remaining calls and the protected capacity
  signals,   \* durable replan signals: reason and epoch
  attempt,   \* where the native attempt is
  seen       \* history: observations and rejections of the current epoch

rcVars == << policy, ctl, trk, lease, signals, attempt, seen >>

\* What a tool observation shows: which action, which state, how much of the
\* expected effects, a confirmed mutation (by the active step's own action with
\* the planner's arguments, or by another), and how the tool ended.
Observations ==
  [ action : Actions, state : States, effects : {"none", "some", "all"},
    mutation : {"none", "other", "own"}, end : {"SUCCESS", "FAILURE", "MISMATCH", "CHANGE"} ]

NewEvaluator == [states |-> << >>, actions |-> {}]
NewController(epoch) ==
  [epoch |-> epoch, eval |-> NewEvaluator, noProgress |-> 0, repeatedAction |-> 0,
   repeatedState |-> 0, rejections |-> 0]
NewTracker(on, known) ==
  [on |-> on, states |-> known, actions |-> {}, noProgress |-> 0, repeatedAction |-> 0,
   repeatedState |-> 0, stop |-> "none"]
NoHistory == [observations |-> 0, mismatch |-> FALSE, rejections |-> 0]
SeenCap == 3     \* the history counts no further than the largest threshold
More(n) == IF n < SeenCap THEN n + 1 ELSE n

RcInit ==
  /\ policy \in Policies
  /\ ctl = NewController(1) /\ trk = NewTracker(FALSE, {})
  /\ lease = [root |-> RootCalls, on |-> FALSE, reserved |-> [p \in LeasePhases |-> 0]]
  /\ signals = {}
  /\ attempt = [pc |-> "idle", turns |-> 0, count |-> 0, result |-> "none"]
  /\ seen = NoHistory

Aware == policy = "NO_PROGRESS_AWARE"

----------------------------------------------------------------------------
(* Leases over the one root budget.                                          *)

Protected == MapThenSumSet(LAMBDA p : lease.reserved[p], LeasePhases)

\* A reservation fits beside the capacity other phases have set aside.
CanReserve(n) == n + Protected <= lease.root

reserve_capacity(p, n) ==
  /\ attempt.pc = "idle" /\ attempt.count = 0 /\ CanReserve(n)
  /\ lease' = [lease EXCEPT !.on = TRUE, !.reserved[p] = @ + n]
  /\ UNCHANGED << policy, ctl, trk, signals, attempt, seen >>

\* A phase acquires one call: its own reservation, then the root's.
Acquired(p) == [lease EXCEPT !.root = @ - 1, !.reserved[p] = @ - 1]
CanAcquire(p) == lease.reserved[p] > 0 /\ lease.root > 0

EscalationAcquires(p) ==
  /\ attempt.pc = "idle" /\ CanAcquire(p)
  /\ lease' = Acquired(p)
  /\ UNCHANGED << policy, ctl, trk, signals, attempt, seen >>

----------------------------------------------------------------------------
(* Progress.                                                                 *)

\* How the evaluator reads an observation against what the epoch has seen.
Assessed(o) ==
  LET s == ctl.eval.states
      n == Len(s)
      repeatedAction == o.action \in ctl.eval.actions
      repeatedState == \E i \in 1..n : s[i] = o.state
      unchanged == n > 0 /\ s[n] = o.state
      oscillating == n >= 2 /\ o.state = s[n - 1] /\ o.state # s[n]
  IN [ action |-> repeatedAction, state |-> repeatedState,
       status |-> IF o.effects = "all" THEN "SATISFIED"
                  ELSE IF oscillating THEN "OSCILLATING"
                  ELSE IF repeatedAction THEN "REPEATED"
                  ELSE IF repeatedState \/ unchanged THEN "NO_PROGRESS"
                  ELSE IF o.effects = "some" THEN "IMPROVED" ELSE "CHANGED_UNKNOWN" ]

Evaluated(o) == [states |-> Append(ctl.eval.states, o.state),
                 actions |-> ctl.eval.actions \cup {o.action}]

\* The candidate for validation must be the active step's own successful action
\* with a confirmed mutation; matching effects alone are not enough.
IsCandidate(o) == o.mutation = "own" /\ o.end \in {"SUCCESS", "CHANGE"}

\* A signal is created once for each reason of an epoch.
Emitted(reason) == signals \cup {<< reason, ctl.epoch >>}

Counted(o) ==
  LET p == Assessed(o)
  IN [ctl EXCEPT
       !.eval = Evaluated(o),
       !.repeatedAction = @ + (IF p.action THEN 1 ELSE 0),
       !.repeatedState = @ + (IF p.state THEN 1 ELSE 0),
       !.noProgress = IF \/ p.status = "NO_PROGRESS"
                         \/ p.status = "CHANGED_UNKNOWN" /\ o.mutation = "none"
                        THEN @ + 1 ELSE 0]

\* What the thresholds make of the counters, in the order they are tested.
Exceeded(c) ==
  IF c.repeatedAction >= MaxRepeatedAction THEN "REPAIR_REPEATED_ACTION"
  ELSE IF c.repeatedState >= MaxRepeatedState \/ c.noProgress >= MaxNoProgress
         THEN "REPAIR_NO_PROGRESS" ELSE "none"

\* The controller's verdict on one observation: its new state, the reason it
\* detected (only the aware policy escalates), and whether it asks for validation.
Judged(o) ==
  LET p == Assessed(o)
      kept == [ctl EXCEPT !.eval = Evaluated(o)]
  IN IF IsCandidate(o) THEN [c |-> kept, reason |-> "none", validate |-> TRUE]
     ELSE IF o.end = "MISMATCH" /\ Aware
       THEN [c |-> kept, reason |-> "REPAIR_NO_PROGRESS", validate |-> FALSE]
     ELSE IF p.status = "OSCILLATING"
       THEN [c |-> kept, reason |-> "REPAIR_STATE_OSCILLATION", validate |-> FALSE]
     ELSE [c |-> Counted(o), reason |-> Exceeded(Counted(o)), validate |-> FALSE]

\* The tracker's own reading: any observation without all expected effects is
\* lack of convergence, and the first stop reason stays.
Tracked(o) ==
  LET repeatedAction == trk.repeatedAction + (IF o.action \in trk.actions THEN 1 ELSE 0)
      repeatedState == trk.repeatedState + (IF o.state \in trk.states THEN 1 ELSE 0)
      noProgress == IF o.effects = "all" THEN 0 ELSE trk.noProgress + 1
  IN IF ~trk.on \/ trk.stop # "none" THEN trk
     ELSE [trk EXCEPT
            !.states = @ \cup {o.state}, !.actions = @ \cup {o.action},
            !.repeatedAction = repeatedAction, !.repeatedState = repeatedState,
            !.noProgress = noProgress,
            !.stop = IF o.end \in {"FAILURE", "MISMATCH"} THEN "TOOL_FAILURE"
                     ELSE IF o.end = "CHANGE" THEN "REPLAN_REQUIRED"
                     ELSE IF repeatedAction >= MaxRepeatedAction THEN "REPEATED_ACTION"
                     ELSE IF repeatedState >= MaxRepeatedState \/ noProgress >= MaxNoProgress
                       THEN "NO_PROGRESS" ELSE "none"]

Stopped(t, reason) == IF t.on THEN [t EXCEPT !.stop = reason] ELSE t

\* How an attempt that fails names its tracker's stop: the turn budget always,
\* anything else only when nothing stopped the tracker before.
FailedTracker(t, result) ==
  IF result = "BUDGET_EXHAUSTED" THEN Stopped(t, result)
  ELSE IF t.stop # "none" THEN t
  ELSE Stopped(t, IF result = "PROVIDER_FAILURE" THEN "MODEL_FAILURE" ELSE "TOOL_FAILURE")

End(result) == attempt' = [attempt EXCEPT !.pc = "ended", !.result = result]

\* The attempt fails with `result`, its tracker in state t at that point.
Fail(result, t) == End(result) /\ trk' = FailedTracker(t, result)

----------------------------------------------------------------------------
(* One native attempt.                                                       *)

\* The tracker, if the request configures one, may know the state before repair.
BeginAttempt ==
  /\ attempt.pc = "idle" /\ attempt.count < MaxRepairs /\ attempt.result # "ACCEPTED"
  /\ attempt' = [pc |-> "turn", turns |-> 0, count |-> attempt.count + 1, result |-> "none"]
  /\ \/ trk' = NewTracker(FALSE, {})
     \/ \E known \in {{}} \cup {{s} : s \in States} : trk' = NewTracker(TRUE, known)
  /\ UNCHANGED << policy, ctl, lease, signals, seen >>

\* The turn's lease, if leases are installed; without one the attempt ends with
\* a signal under either policy.
AcquireTurn ==
  /\ attempt.pc = "turn" /\ attempt.turns < MaxTurns
  /\ UNCHANGED << policy, ctl, seen >>
  /\ IF lease.on /\ ~CanAcquire("local_repair")
       THEN /\ signals' = Emitted("LOCAL_REPAIR_BUDGET_EXHAUSTED")
            /\ Fail("REPLAN_REQUIRED", Stopped(trk, "REPLAN_REQUIRED"))
            /\ UNCHANGED lease
       ELSE /\ lease' = IF lease.on THEN Acquired("local_repair") ELSE lease
            /\ attempt' = [attempt EXCEPT !.pc = "answer", !.turns = @ + 1]
            /\ UNCHANGED << trk, signals >>

\* The kernel's own budget: a signal of its own.
TurnBudgetEnds ==
  /\ attempt.pc = "turn" /\ attempt.turns = MaxTurns
  /\ signals' = signals \cup {<< "BUDGET_EXHAUSTED", ctl.epoch >>}
  /\ Fail("BUDGET_EXHAUSTED", trk)
  /\ UNCHANGED << policy, ctl, lease, seen >>

\* The provider fails, or stops without an answer.
ModelFails ==
  /\ attempt.pc = "answer"
  /\ Fail("PROVIDER_FAILURE", trk)
  /\ UNCHANGED << policy, ctl, lease, signals, seen >>

\* A tool call and its observation, seen by the tracker and then by the
\* controller; the answer may hold further calls.
Observe(o) ==
  LET j == Judged(o)
      escalate == Aware /\ j.reason # "none"
      byController == IF escalate THEN Emitted(j.reason) ELSE signals
      t == Tracked(o)
  IN /\ attempt.pc = "answer"
     /\ ctl' = j.c
     /\ signals' = IF o.end = "CHANGE"
                     THEN byController \cup {<< "REPEATED_TOOL_FAILURE", ctl.epoch >>}
                     ELSE byController
     /\ seen' = [seen EXCEPT !.observations = More(@),
                             !.mismatch = @ \/ o.end = "MISMATCH"]
     /\ IF j.validate THEN End("VALIDATION_CANDIDATE") /\ trk' = t
        ELSE IF escalate THEN Fail("REPLAN_REQUIRED", Stopped(t, "REPLAN_REQUIRED"))
        ELSE IF t.stop # "none" THEN Fail(t.stop, t)
        ELSE /\ trk' = t
             /\ \/ attempt' = [attempt EXCEPT !.pc = "turn"]
                \/ /\ attempt.turns < MaxTurns
                   /\ attempt' = [attempt EXCEPT !.turns = @ + 1]
     /\ UNCHANGED << policy, lease >>

ClaimAccepted ==
  /\ attempt.pc = "answer"
  /\ End("ACCEPTED") /\ trk' = Stopped(trk, "VERIFIED")
  /\ UNCHANGED << policy, ctl, lease, signals, seen >>

\* A rejected claim counts in both, and each may end the attempt.
ClaimRejected ==
  LET c == [ctl EXCEPT !.rejections = @ + 1, !.noProgress = @ + 1]
      n == trk.noProgress + 1
      t == IF ~trk.on \/ trk.stop # "none" THEN trk
           ELSE [trk EXCEPT !.noProgress = n,
                            !.stop = IF n >= MaxNoProgress THEN "NO_PROGRESS" ELSE @]
      escalate == Aware /\ c.rejections >= MaxNoProgress
  IN /\ attempt.pc = "answer"
     /\ ctl' = c
     /\ seen' = [seen EXCEPT !.rejections = More(@)]
     /\ signals' = IF escalate THEN Emitted("REPEATED_VALIDATOR_REJECTION") ELSE signals
     /\ IF escalate THEN Fail("REPLAN_REQUIRED", Stopped(t, "REPLAN_REQUIRED"))
        ELSE IF t.stop # "none" THEN Fail(t.stop, t)
        ELSE trk' = t /\ attempt' = [attempt EXCEPT !.pc = "turn"]
     /\ UNCHANGED << policy, lease >>

\* The executor around the kernel: whatever ended as completed, a candidate for
\* validation included, stops its tracker as verified.
FinishAttempt ==
  /\ attempt.pc = "ended"
  /\ attempt' = [attempt EXCEPT !.pc = "idle"]
  /\ trk' = IF attempt.result \in {"ACCEPTED", "VALIDATION_CANDIDATE"}
              THEN Stopped(trk, "VERIFIED") ELSE FailedTracker(trk, attempt.result)
  /\ UNCHANGED << policy, ctl, lease, signals, seen >>

\* begin_strategy_epoch, after a replan: counters and evaluator start again, the
\* signals and the budget do not.  A broken form keeps the evaluator.
FreshControllerSticky == [NewController(ctl.epoch + 1) EXCEPT !.eval = ctl.eval]
FreshController == NewController(ctl.epoch + 1)

BeginEpoch ==
  /\ attempt.pc = "idle" /\ attempt.result \notin {"none", "ACCEPTED"}
  /\ attempt.count < MaxRepairs
  /\ ctl' = FreshController
  /\ seen' = NoHistory
  /\ attempt' = [attempt EXCEPT !.result = "none"]
  /\ UNCHANGED << policy, trk, lease, signals >>

RcNext ==
  \/ \E p \in Escalations \cup {"local_repair"}, n \in 1..RootCalls : reserve_capacity(p, n)
  \/ \E p \in Escalations : EscalationAcquires(p)
  \/ BeginAttempt \/ AcquireTurn \/ TurnBudgetEnds \/ ModelFails
  \/ \E o \in Observations : Observe(o)
  \/ ClaimAccepted \/ ClaimRejected \/ FinishAttempt \/ BeginEpoch

RcSpec == RcInit /\ [][RcNext]_rcVars

----------------------------------------------------------------------------
(* Properties.                                                               *)

SignalReasons == Reasons \cup {"BUDGET_EXHAUSTED", "REPEATED_TOOL_FAILURE"}
StopReasons == {"none", "VERIFIED", "NO_PROGRESS", "REPEATED_ACTION", "BUDGET_EXHAUSTED",
                "MODEL_FAILURE", "TOOL_FAILURE", "REPLAN_REQUIRED"}
Results == {"none", "ACCEPTED", "VALIDATION_CANDIDATE", "PROVIDER_FAILURE"} \cup StopReasons

\* The shape of the control plane's state; a tracker's stop reason is one that
\* repair_progress.REPAIR_STOP_REASONS lists.
RcTypeOK ==
  /\ ctl.epoch \in 1..(MaxRepairs + 1)
  /\ trk.stop \in StopReasons /\ trk.states \subseteq States
  /\ signals \subseteq SignalReasons \X (1..ctl.epoch)
  /\ attempt.result \in Results /\ attempt.turns \in 0..MaxTurns

\* A signal accuses the strategy of its own epoch.  Repetition, oscillation or
\* lack of progress is never concluded from what an earlier strategy did: the
\* epoch itself has made as many observations as the threshold takes.
EscalationIsEarned ==
  \A sig \in signals :
    sig[2] = ctl.epoch =>
      CASE sig[1] = "REPAIR_REPEATED_ACTION" ->
             seen.observations > MaxRepeatedAction
        [] sig[1] = "REPAIR_STATE_OSCILLATION" -> seen.observations >= 3
        [] sig[1] = "REPAIR_NO_PROGRESS" ->
             \/ seen.mismatch
             \/ seen.observations > MaxRepeatedState
             \/ seen.observations + seen.rejections >= MaxNoProgress
        [] sig[1] = "REPEATED_VALIDATOR_REJECTION" -> seen.rejections >= MaxNoProgress
        [] OTHER -> TRUE

=============================================================================
