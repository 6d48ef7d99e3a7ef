---------------------------- MODULE NativeKernel ----------------------------
(***************************************************************************)
(* One Attempt executed by NativeAgentKernel (src/lhas/native/kernel.py)   *)
(* through NativeToolDispatcher (native/tools.py), the side-effect         *)
(* receipts (side_effects.py) and CompletionAuthority (native/completion   *)
(* .py).                                                                   *)
(*                                                                         *)
(* As in RunLifecycle an action is one commit, or one step of the provider,*)
(* of a tool or of the validator, and the process may die between any two. *)
(* kernel.run may be entered again on the same attempt: after a death, or  *)
(* when the orchestrator reopens it.                                       *)
(*                                                                         *)
(* The snapshot's phase, current_failure, the ReplanSignals and the        *)
(* ValidationFailures only feed the model's prompt and are left out.       *)
(***************************************************************************)
EXTENDS SideEffects, Naturals, Sequences, FiniteSets

CONSTANTS
  CallIds,       \* ids the provider gives its tool calls
  Kind,          \* what the call with that id asks for
  Keyed,         \* request.metadata has an idempotency_key
  MaxTurns,      \* budget.max_turns
  MaxToolCalls,  \* budget.max_tool_calls
  MaxBatch,      \* bound: tool calls in one response
  MaxRuns        \* bound: entries of kernel.run for this attempt

ASSUME KernelConstants ==
  /\ Kind \in [CallIds -> Kinds]
  /\ Keyed \in BOOLEAN
  /\ MaxTurns \in Nat /\ MaxToolCalls \in Nat
  /\ MaxBatch \in Nat \ {0} /\ MaxRuns \in Nat

VARIABLES
  turns,     \* ExecutionSnapshot.model_turn_count
  calls,     \* ExecutionSnapshot.tool_call_count
  told,      \* calls with an entry in ExecutionSnapshot.recent_tool_outcomes
  inv,       \* NativeToolInvocationRow of each call id
  rcpt,      \* SideEffectReceiptRow.status of each call id
  cand,      \* status of the newest CompletionCandidateRow
  verdict,   \* newest ValidationResultRow of the attempt
  acted,     \* how often each call really took effect
  dirty,     \* the staged workspace differs from its baseline
  pc,        \* where kernel.run is, "idle" when it is not running
  todo,      \* tool calls of the response still to be handled
  res,       \* result of the step in progress
  news,      \* calls reconciled by this process and not yet saved
  stopped,   \* the control token is terminal
  detached,  \* tools that outlived their cancellation
  outcome,   \* AgentResult.status of the last return; a COMPLETED that only hands
             \* over a candidate (artifacts.validation_candidate) is CANDIDATE
  runs,      \* entries of kernel.run so far
  asked      \* provider calls so far

snapshot == <<turns, calls, told>>
ledger == <<inv, rcpt>>
completion == <<cand, verdict>>
world == <<acted, dirty, detached>>
control == <<stopped, outcome, runs, asked>>
vars == <<turns, calls, told, inv, rcpt, cand, verdict, acted, dirty, pc, todo,
          res, news, stopped, detached, outcome, runs, asked>>

----------------------------------------------------------------------------
InvocationStates == {"REQUESTED", "STARTED", "FINISHED", "RECONCILED"}
Decisions == {"SAFE_TO_RETRY", "DO_NOT_RETRY", "RECONCILE_FIRST", "UNKNOWN"}

NoInvocation == [state |-> None, ordinal |-> 0, rec |-> None]

\* Broken Known and Unfinished: an interrupted row is taken for a new call; a
\* row that was only requested is forgotten.
KnownFinished(c) == inv[c].state = "FINISHED"
UnfinishedStarted == {c \in CallIds : inv[c].state = "STARTED"}

\* The row that makes a repeated provider id a duplicate.
Known(c) == inv[c].state # None

Unfinished == {c \in CallIds : inv[c].state \in {"REQUESTED", "STARTED"}}

HasReceipt(c) == EffectClass(Kind[c]) # None

\* A workspace edit runs without giving up the event loop.
Cancellable(c) == Kind[c] # "edit"

This == Head(todo)

SetState(c, state) == inv' = [inv EXCEPT ![c].state = state]
SetReceipt(c, status) == rcpt' = [rcpt EXCEPT ![c] = status]

Goto(from, to) == pc = from /\ pc' = to

\* Leaves kernel.run.
Return(status) ==
  /\ pc' = "idle" /\ outcome' = status
  /\ todo' = <<>> /\ res' = None /\ news' = {}
  /\ UNCHANGED <<stopped, runs, asked>>

Init ==
  /\ turns = 0 /\ calls = 0 /\ told = {}
  /\ inv = [c \in CallIds |-> NoInvocation]
  /\ rcpt = [c \in CallIds |-> None]
  /\ cand = None /\ verdict = None
  /\ acted = [c \in CallIds |-> 0] /\ dirty = FALSE /\ detached = {}
  /\ pc = "idle" /\ todo = <<>> /\ res = None /\ news = {}
  /\ stopped = FALSE /\ outcome = None /\ runs = 0 /\ asked = 0

----------------------------------------------------------------------------
(***************************************************************************)
(* Entering run: a pending claim is judged first, then what a dead process *)
(* left of its tool calls is reconciled.                                   *)
(***************************************************************************)
Enter ==
  /\ Goto("idle", "resume")
  /\ runs < MaxRuns /\ runs' = runs + 1
  /\ stopped' = FALSE /\ outcome' = None
  /\ UNCHANGED <<snapshot, ledger, completion, world, todo, res, news, asked>>

\* resume_pending: judge the candidate, return the accepted one, or go on.
RevalidatePending ==
  /\ Goto("resume", "validating")
  /\ ~stopped /\ cand = "CANDIDATE_COMPLETION"
  /\ res' = "resume"
  /\ UNCHANGED <<snapshot, ledger, completion, world, todo, news, control>>

AdoptPending ==
  /\ ~stopped /\ pc = "resume" /\ cand # "CANDIDATE_COMPLETION"
  /\ IF cand = "ACCEPTED"
       THEN Return("COMPLETED")
       ELSE pc' = "reconcile" /\ UNCHANGED <<todo, res, news, control>>
  /\ UNCHANGED <<snapshot, ledger, completion, world>>

\* A row that says by itself whether the call may be repeated.
PlainDecision(c) ==
  IF inv[c].state = "REQUESTED" \/ SideEffectClass(Kind[c]) = "READ_ONLY"
    THEN "SAFE_TO_RETRY"
  ELSE IF rcpt[c] \in Settled THEN "DO_NOT_RETRY"
  ELSE IF rcpt[c] = "COMMIT_STATE_UNKNOWN" THEN "UNKNOWN"
  ELSE None

\* mutation_probe looks for any change of the workspace, and may fail.
Probe == {IF dirty THEN "yes" ELSE "no", "unknown"}

ProbeDecision(present) ==
  IF present = "yes" THEN "DO_NOT_RETRY" ELSE "RECONCILE_FIRST"

\* A broken ReceiptDecision: the probe has the last word.
ReceiptDecisionProbeOnly(status, present) == ProbeDecision(present)

ReceiptDecision(status, present) ==
  IF status \in Settled THEN "DO_NOT_RETRY"
  ELSE IF status = "COMMIT_STATE_UNKNOWN" THEN "UNKNOWN"
  ELSE ProbeDecision(present)

\* The row of an interrupted call gets its decision.
WriteReconciled(c, decision) ==
  /\ inv' = [inv EXCEPT ![c].state = "RECONCILED", ![c].rec = decision]
  /\ news' = news \cup {c}

ReconcilePlain ==
  /\ pc = "reconcile"
  /\ \E c \in Unfinished :
       /\ PlainDecision(c) # None
       /\ WriteReconciled(c, PlainDecision(c))
  /\ UNCHANGED <<snapshot, rcpt, completion, world, pc, todo, res, control>>

ReconcileWithoutReceipt ==
  /\ pc = "reconcile"
  /\ \E c \in Unfinished, present \in Probe :
       /\ PlainDecision(c) = None /\ rcpt[c] = None
       /\ WriteReconciled(c, ProbeDecision(present))
  /\ UNCHANGED <<snapshot, rcpt, completion, world, pc, todo, res, control>>

\* The receipt is reconciled first, the invocation in a second commit.
ReconcileReceipt ==
  /\ Goto("reconcile", "reconciling")
  /\ \E c \in Unfinished, present \in Probe :
       LET status == Reconcile(EffectClass(Kind[c]), rcpt[c], present)
       IN  /\ PlainDecision(c) = None /\ rcpt[c] # None
           /\ SetReceipt(c, status)
           /\ todo' = <<c>> /\ res' = ReceiptDecision(status, present)
  /\ UNCHANGED <<snapshot, inv, completion, world, news, control>>

ReconcileInvocation ==
  /\ Goto("reconciling", "reconcile")
  /\ WriteReconciled(This, res)
  /\ todo' = <<>> /\ res' = None
  /\ UNCHANGED <<snapshot, rcpt, completion, world, control>>

\* Calls that finished although the snapshot was not saved afterwards.
RecoveredFinished ==
  {c \in CallIds : inv[c].state = "FINISHED" /\ inv[c].ordinal > calls}

Counts == {calls} \cup {inv[c].ordinal : c \in CallIds}

\* The snapshot catches up with the invocations, in one save.
CatchUp ==
  /\ Goto("reconcile", "turn")
  /\ Unfinished = {}
  /\ IF news \cup RecoveredFinished = {}
       THEN UNCHANGED <<told, calls>>
       ELSE /\ told' = told \cup news \cup RecoveredFinished
            /\ \E n \in Counts : (\A m \in Counts : m <= n) /\ calls' = n
  /\ news' = {}
  /\ UNCHANGED <<turns, ledger, completion, world, todo, res, control>>

----------------------------------------------------------------------------
(***************************************************************************)
(* One turn of the loop: budgets, the provider call, its answer.           *)
(***************************************************************************)
\* The turn budget is read before the control token, the call budget after.
BudgetExhausted ==
  /\ pc = "turn"
  /\ turns >= MaxTurns \/ (~stopped /\ calls >= MaxToolCalls)
  /\ Return("FAILED")
  /\ UNCHANGED <<snapshot, ledger, completion, world>>

WithinBudget == turns < MaxTurns /\ calls < MaxToolCalls

\* The provider is not the durable effective target: the turn is not counted.
TargetDiverges ==
  /\ pc = "turn" /\ ~stopped /\ WithinBudget
  /\ Return("FAILED")
  /\ UNCHANGED <<snapshot, ledger, completion, world>>

\* The recovery controller's local lease protects the escalation reserve: the call
\* is announced but not made, and the turn is not counted.
LeaseRefused ==
  /\ pc = "turn" /\ ~stopped /\ WithinBudget
  /\ Return("FAILED")
  /\ UNCHANGED <<snapshot, ledger, completion, world>>

CallProvider ==
  /\ Goto("turn", "model")
  /\ ~stopped /\ WithinBudget
  /\ asked' = IF asked < MaxTurns + MaxRuns THEN asked + 1 ELSE asked
  /\ UNCHANGED <<snapshot, ledger, completion, world, todo, res, news, stopped,
                 outcome, runs>>

\* A failed, timed out or known to be blocked provider still costs a turn.
ProviderFails ==
  /\ \/ pc = "turn" /\ ~stopped /\ WithinBudget
     \/ pc = "model"
  /\ turns' = turns + 1
  /\ Return("FAILED")
  /\ UNCHANGED <<calls, told, ledger, completion, world>>

ParseFails ==
  /\ pc = "model" /\ ~stopped
  /\ turns' = turns + 1
  /\ Return("FAILED")
  /\ UNCHANGED <<calls, told, ledger, completion, world>>

\* The answer is parsed and the turn saved; a late one is rejected (Halt).
Answered(to, queue) ==
  /\ Goto("model", to)
  /\ ~stopped
  /\ turns' = turns + 1
  /\ todo' = queue
  /\ UNCHANGED <<calls, told, ledger, completion, world, res, news, control>>

AnswerTools ==
  \E n \in 1..MaxBatch : \E queue \in [1..n -> CallIds] :
    Answered("batch", queue)

AnswerClaim == Answered("claimed", <<>>)

AnswerNothing == Answered("silent", <<>>)

ModelStopped ==
  /\ pc = "silent"
  /\ Return("FAILED")
  /\ UNCHANGED <<snapshot, ledger, completion, world>>

\* The whole answer has to fit into what is left of the call budget.
StartBatch ==
  /\ pc = "batch"
  /\ IF calls + Len(todo) > MaxToolCalls
       THEN Return("FAILED")
       ELSE pc' = "call" /\ UNCHANGED <<todo, res, news, control>>
  /\ UNCHANGED <<snapshot, ledger, completion, world>>

----------------------------------------------------------------------------
(***************************************************************************)
(* NativeToolDispatcher.dispatch for the first call of todo.               *)
(***************************************************************************)
EndBatch ==
  /\ Goto("call", "turn")
  /\ todo = <<>> /\ ~stopped
  /\ UNCHANGED <<snapshot, ledger, completion, world, todo, res, news, control>>

\* The stored outcome of the logical call is returned.
Duplicate ==
  /\ Goto("call", "observed")
  /\ todo # <<>> /\ ~stopped /\ Known(This)
  /\ UNCHANGED <<snapshot, ledger, completion, world, todo, res, news, control>>

\* A broken Request: the token is only read before the batch.
RequestUnchecked ==
  /\ Goto("call", "requested")
  /\ todo # <<>> /\ ~Known(This)
  /\ inv' = [inv EXCEPT ![This] = [state |-> "REQUESTED", ordinal |-> calls + 1,
                                   rec |-> None]]
  /\ UNCHANGED <<snapshot, rcpt, completion, world, todo, res, news, control>>

Request ==
  /\ Goto("call", "requested")
  /\ todo # <<>> /\ ~stopped /\ ~Known(This)
  /\ inv' = [inv EXCEPT ![This] = [state |-> "REQUESTED", ordinal |-> calls + 1,
                                   rec |-> None]]
  /\ UNCHANGED <<snapshot, rcpt, completion, world, todo, res, news, control>>

\* Unknown, not allowed, not approved, not the step's arguments.
Deny ==
  /\ Goto("requested", "observed")
  /\ ~stopped
  /\ SetState(This, "FINISHED")
  /\ UNCHANGED <<snapshot, rcpt, completion, world, todo, res, news, control>>

BeginReceipt ==
  /\ Goto("requested", "begun")
  /\ ~stopped /\ HasReceipt(This)
  /\ SetReceipt(This, "REQUEST_CREATED")
  /\ UNCHANGED <<snapshot, inv, completion, world, todo, res, news, control>>

DispatchReceipt ==
  /\ Goto("begun", "dispatching")
  /\ SetReceipt(This, MarkDispatchStarted(rcpt[This]))
  /\ UNCHANGED <<snapshot, inv, completion, world, todo, res, news, control>>

\* A broken StartInvocation: the row is only written when the tool is done.
StartInvocationLate ==
  /\ \/ Goto("dispatching", "started")
     \/ Goto("requested", "started") /\ ~stopped /\ ~HasReceipt(This)
  /\ UNCHANGED <<snapshot, ledger, completion, world, todo, res, news, control>>

StartInvocation ==
  /\ \/ Goto("dispatching", "started")
     \/ Goto("requested", "started") /\ ~stopped /\ ~HasReceipt(This)
  /\ SetState(This, "STARTED")
  /\ UNCHANGED <<snapshot, rcpt, completion, world, todo, res, news, control>>

Invoke ==
  /\ Goto("started", "tool")
  /\ ~stopped
  /\ UNCHANGED <<snapshot, ledger, completion, world, todo, res, news, control>>

\* The tool takes effect.  An edit or a restore leaves the workspace different
\* from its baseline or equal to it.
TakeEffect(c) ==
  /\ acted' = [acted EXCEPT ![c] = @ + 1]
  /\ IF Kind[c] = "edit" THEN dirty' \in BOOLEAN ELSE UNCHANGED dirty

ToolActs ==
  /\ Goto("tool", "acted")
  /\ Kind[This] # "read"
  /\ TakeEffect(This)
  /\ UNCHANGED <<snapshot, ledger, completion, detached, todo, res, news, control>>

\* A workspace edit records its commit itself, before it returns.
ToolCommits ==
  /\ Goto("acted", "returned")
  /\ Kind[This] = "edit"
  /\ SetReceipt(This, MarkCommitted(rcpt[This]))
  /\ res' = "SUCCESS"
  /\ UNCHANGED <<snapshot, inv, completion, world, todo, news, control>>

\* Any other tool succeeds, or fails or times out after its effect.
ToolReturns ==
  /\ \/ pc = "acted" /\ Kind[This] # "edit" /\ res' \in {"SUCCESS", "FAILURE"}
     \/ pc = "tool" /\ Kind[This] = "read" /\ res' = "SUCCESS"
  /\ pc' = "returned"
  /\ UNCHANGED <<snapshot, ledger, completion, world, todo, news, control>>

\* The tool fails, times out or was a policy-denied no-op, without an effect so
\* far: one that does not heed its cancellation may still act later.
ToolFails ==
  /\ Goto("tool", "returned")
  /\ res' \in {"FAILURE"} \cup (IF HasReceipt(This) THEN {"NOOP"} ELSE {})
  /\ detached' \in {detached} \cup
       (IF res' = "FAILURE" /\ Cancellable(This) /\ Kind[This] # "read"
          THEN {detached \cup {This}} ELSE {})
  /\ UNCHANGED <<snapshot, ledger, completion, acted, dirty, todo, news, control>>

DetachedActs ==
  /\ \E c \in detached :
       TakeEffect(c) /\ detached' = detached \ {c}
  /\ UNCHANGED <<snapshot, ledger, completion, pc, todo, res, news, control>>

RecordReceipt ==
  /\ Goto("returned", "recorded")
  /\ ~stopped /\ HasReceipt(This)
  /\ SetReceipt(This,
       CASE res = "SUCCESS" -> MarkCommitted(rcpt[This])
         [] res = "FAILURE" -> MarkUnknown(rcpt[This])
         [] res = "NOOP"    -> Reconcile(EffectClass(Kind[This]), rcpt[This], "no"))
  /\ UNCHANGED <<snapshot, inv, completion, world, todo, res, news, control>>

FinishInvocation ==
  /\ \/ Goto("recorded", "finished")
     \/ Goto("returned", "finished") /\ ~stopped /\ ~HasReceipt(This)
  /\ SetState(This, "FINISHED")
  /\ res' = None
  /\ UNCHANGED <<snapshot, rcpt, completion, world, todo, news, control>>

ObserveReceipt ==
  /\ Goto("finished", "observed")
  /\ SetReceipt(This, IF rcpt[This] = "COMMITTED" THEN "OBSERVED" ELSE rcpt[This])
  /\ UNCHANGED <<snapshot, inv, completion, world, todo, res, news, control>>

\* await_with_control has checked the token a last time and cleans up; the token may
\* end before the kernel goes on.
LeaveAwait ==
  /\ ~stopped
  /\ \/ Goto("observed", "delivered")
     \/ Goto("judged", "ruled") /\ res = "claim"
  /\ UNCHANGED <<snapshot, ledger, completion, world, todo, res, news, control>>

\* Back in the kernel: the call is counted and its outcome saved.  Then a recovery
\* controller may hand the attempt over as a candidate for the outer validator
\* (_validation_candidate) or escalate, and the progress tracker may stop it.
CountCall ==
  /\ pc = "delivered"
  /\ calls' = calls + 1 /\ told' = told \cup {This}
  /\ \/ pc' = "call" /\ todo' = Tail(todo) /\ UNCHANGED <<res, news, control>>
     \/ Return("CANDIDATE")
     \/ Return("FAILED")
  /\ UNCHANGED <<turns, ledger, completion, world>>

----------------------------------------------------------------------------
(***************************************************************************)
(* CompletionAuthority: candidate, verdict and status, one commit each.    *)
(***************************************************************************)
\* The claim is taken up: the check of await_with_control passes, its coroutine
\* starts a turn of the event loop later.
BeginClaim ==
  /\ Goto("claimed", "claiming")
  /\ ~stopped
  /\ UNCHANGED <<snapshot, ledger, completion, world, todo, res, news, control>>

CreateCandidate ==
  /\ Goto("claiming", "validating")
  /\ cand' = "CANDIDATE_COMPLETION" /\ res' = "claim"
  /\ UNCHANGED <<snapshot, ledger, verdict, world, todo, news, control>>

\* "claim" is a pass without the result of a process behind it.
Validate ==
  /\ Goto("validating", "verdict")
  /\ verdict' \in {"pass", "claim", "fail"}
  /\ UNCHANGED <<snapshot, ledger, cand, world, todo, res, news, control>>

\* A broken Authoritative: passed is enough.
AuthoritativePassed(v) == v # "fail"

Authoritative(v) == v = "pass"

SettleCandidate ==
  /\ Goto("verdict", "judged")
  /\ cand' = IF Authoritative(verdict) THEN "ACCEPTED" ELSE "REJECTED"
  /\ UNCHANGED <<snapshot, ledger, verdict, world, todo, res, news, control>>

\* A broken ActOnVerdict: a rejected claim is submitted again instead of told to the
\* model.
ActOnVerdictAgain ==
  /\ pc = "ruled" \/ (pc = "judged" /\ res = "resume")
  /\ \/ cand = "ACCEPTED" /\ Return("COMPLETED")
     \/ cand # "ACCEPTED" /\ res = "claim" /\ Return("FAILED")
     \/ /\ cand # "ACCEPTED"
        /\ pc' = IF res = "resume" THEN "reconcile" ELSE "claimed"
        /\ res' = None /\ UNCHANGED <<todo, news, control>>
  /\ UNCHANGED <<snapshot, ledger, completion, world>>

\* The control token counts for a claim of this run, not for a resumed one.  A
\* rejected claim ends the run when the recovery controller escalates repeated
\* rejections or the progress tracker stops.
ActOnVerdict ==
  /\ pc = "ruled" \/ (pc = "judged" /\ res = "resume")
  /\ \/ cand = "ACCEPTED" /\ Return("COMPLETED")
     \/ cand # "ACCEPTED" /\ res = "claim" /\ Return("FAILED")
     \/ /\ cand # "ACCEPTED"
        /\ pc' = IF res = "resume" THEN "reconcile" ELSE "turn"
        /\ res' = None /\ UNCHANGED <<todo, news, control>>
  /\ UNCHANGED <<snapshot, ledger, completion, world>>

----------------------------------------------------------------------------
\* Where the kernel reads its control token or waits under it.
CheckPoints ==
  { "resume", "model", "call", "requested", "started", "tool", "returned",
    "observed", "claimed" }

AtCheckPoint ==
  \/ pc \in CheckPoints
  \/ pc = "turn" /\ turns < MaxTurns
  \/ pc = "acted" /\ Cancellable(This)
  \/ pc \in {"validating", "judged"} /\ res = "claim"

\* _control_terminated.  A tool in flight may outlive its cancellation.
Halt ==
  /\ stopped /\ AtCheckPoint
  /\ Return("CANCELLED")
  /\ detached' \in {detached} \cup
       (IF pc = "tool" /\ Cancellable(This) /\ Kind[This] # "read"
          THEN {detached \cup {This}} ELSE {})
  /\ UNCHANGED <<snapshot, ledger, completion, acted, dirty>>

\* Cancellation or the root deadline, at any time.
Stop ==
  /\ pc # "idle" /\ ~stopped /\ stopped' = TRUE
  /\ UNCHANGED <<snapshot, ledger, completion, world, pc, todo, res, news,
                 outcome, runs, asked>>

\* The process dies, and its detached tools with it.
Crash ==
  /\ pc # "idle" \/ detached # {}
  /\ pc' = "idle" /\ todo' = <<>> /\ res' = None /\ news' = {}
  /\ detached' = {} /\ outcome' = None
  /\ UNCHANGED <<snapshot, ledger, completion, acted, dirty, stopped, runs, asked>>

Progress ==
  \/ RevalidatePending \/ AdoptPending
  \/ ReconcilePlain \/ ReconcileWithoutReceipt \/ ReconcileReceipt
  \/ ReconcileInvocation \/ CatchUp
  \/ BudgetExhausted \/ TargetDiverges \/ LeaseRefused \/ CallProvider
  \/ ProviderFails
  \/ ParseFails \/ AnswerTools \/ AnswerClaim \/ AnswerNothing \/ ModelStopped
  \/ StartBatch \/ EndBatch \/ Duplicate \/ Request \/ Deny
  \/ BeginReceipt \/ DispatchReceipt \/ StartInvocation \/ Invoke
  \/ ToolActs \/ ToolCommits \/ ToolReturns \/ ToolFails
  \/ RecordReceipt \/ FinishInvocation \/ ObserveReceipt \/ LeaveAwait \/ CountCall
  \/ BeginClaim \/ CreateCandidate \/ Validate \/ SettleCandidate \/ ActOnVerdict
  \/ Halt

Next == Enter \/ Progress \/ DetachedActs \/ Stop \/ Crash

Spec == Init /\ [][Next]_vars

\* A live kernel keeps going: the provider call and the tools are bounded by
\* their timeouts, everything else is local.
FairSpec == Spec /\ WF_vars(Progress)

----------------------------------------------------------------------------
Locations ==
  { "idle", "resume", "reconcile", "reconciling", "turn", "model", "batch",
    "silent", "call", "requested", "begun", "dispatching", "started", "tool",
    "acted", "returned", "recorded", "finished", "observed", "delivered",
    "claimed", "claiming", "validating", "verdict", "judged", "ruled" }

Invocation == [ state   : InvocationStates \cup {None},
                ordinal : Nat,
                rec     : Decisions \cup {None} ]

\* Every row holds what its columns allow.
TypeOK ==
  /\ turns \in Nat /\ calls \in Nat /\ told \subseteq CallIds
  /\ inv \in [CallIds -> Invocation]
  /\ rcpt \in [CallIds -> ReceiptStatuses \cup {None}]
  /\ cand \in {None, "CANDIDATE_COMPLETION", "ACCEPTED", "REJECTED"}
  /\ verdict \in {None, "pass", "claim", "fail"}
  /\ acted \in [CallIds -> Nat] /\ dirty \in BOOLEAN
  /\ detached \subseteq CallIds
  /\ pc \in Locations
  /\ todo \in Seq(CallIds)
  /\ res \in Decisions \cup {None, "resume", "claim", "SUCCESS", "FAILURE", "NOOP"}
  /\ news \subseteq CallIds
  /\ stopped \in BOOLEAN
  /\ outcome \in {None, "COMPLETED", "CANDIDATE", "FAILED", "CANCELLED"}
  /\ runs \in Nat /\ asked \in Nat

\* A logical call, whatever crashed and however often the provider repeats its
\* id, takes effect at most once (the lookup at the top of dispatch).
EffectAtMostOnce == \A c \in CallIds : acted[c] <= 1

\* The model is told SAFE_TO_RETRY only of calls that have not taken effect and
\* never will (reconcile_unfinished: REQUESTED precedes the execution).
SafeToRetryIsSafe ==
  \A c \in CallIds :
    inv[c].rec = "SAFE_TO_RETRY" => acted[c] = 0 /\ c \notin detached

\* Nothing is left open when the model is asked: no call is both unfinished and
\* out of sight of the prompt (kernel.run reconciles before its loop).
NothingOpenAtModelCall ==
  pc = "model" =>
    \A c \in CallIds : inv[c].state \notin {"REQUESTED", "STARTED"}

\* The invocation ledger and the receipt ledger never disagree on a commit, nor
\* on what nobody can know, although each is written in its own transaction.
LedgersAgree ==
  \A c \in CallIds :
    inv[c].state = "RECONCILED" /\ rcpt[c] # None =>
      LET replay == ReplayDecision(EffectClass(Kind[c]), rcpt[c], Keyed)
      IN  /\ replay = "REUSE_COMMITTED" => inv[c].rec = "DO_NOT_RETRY"
          /\ inv[c].rec = "UNKNOWN" => replay = "REQUIRE_HUMAN"
          /\ rcpt[c] = "COMMIT_STATE_UNKNOWN" => inv[c].rec = "UNKNOWN"

\* The receipt of a declared external effect never claims more than is known: it
\* is committed only after the effect, and never reconciled as absent (reconcile).
ExternalReceiptsHonest ==
  \A c \in CallIds :
    Kind[c] \in {"idempotent", "receipt", "unverifiable"} =>
      /\ rcpt[c] \in Settled => acted[c] = 1
      /\ rcpt[c] # "RECONCILED"

\* A commit the tool recorded survives its own timeout, the reconciliation of a
\* later process and every late result (mark_committed, mark_unknown).
CommitIsForever ==
  [][ \A c \in CallIds : rcpt[c] \in Settled => rcpt'[c] \in Settled ]_vars

\* AcceptedCompletionValidator, the outer validator: it passes an attempt for its
\* newest candidate, accepted, with the result of a process behind it.
OuterPasses == cand = "ACCEPTED" /\ verdict = "pass"

\* A COMPLETED of the kernel is a SUCCESS for the orchestrator whether a claim was
\* accepted or effects only made a candidate.  The outer validator passes the first
\* and never the second, over rejections, restarts and judged pending claims.
CompletedIsAccepted ==
  /\ outcome = "COMPLETED" => OuterPasses
  /\ outcome = "CANDIDATE" => ~OuterPasses

\* After acceptance no process asks the model, calls a tool or judges again
\* (kernel.run looks at the pending candidate first).
AcceptedIsFinal ==
  [][ cand = "ACCEPTED" => UNCHANGED <<cand, verdict, turns, asked, inv>> ]_vars

\* Once the token is terminal the provider is not asked, no call is registered, no
\* tool invoked, no claim taken up and no pending claim judged.  An invocation is
\* still recorded as started, and a candidate created, only where the check before
\* it passed while the token was alive (kernel.run, dispatch, await_with_control).
NothingStartsAfterStop ==
  [][ stopped /\ stopped' =>
        /\ asked' = asked
        /\ \A c \in CallIds : inv'[c].state \in {"REQUESTED", "STARTED"} =>
             \/ inv'[c] = inv[c]
             \/ pc \in {"begun", "dispatching"}
        /\ pc' = "tool" => pc = "tool"
        /\ pc' = "claiming" => pc = "claiming"
        /\ pc' = "validating" => pc \in {"claiming", "validating"} ]_vars

\* kernel.run returns, whatever the provider answers and the tools do.
KernelReturns == (pc # "idle") ~> (pc = "idle")

============================================================================
