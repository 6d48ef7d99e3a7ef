------------------------ MODULE NativeKernel_proofs ------------------------
(***************************************************************************)
(* What holds of the native kernel for every set of call ids, every kind   *)
(* of call, every budget and any number of restarts.  EffectsOK relates an *)
(* effect to the row of its call, Placed and Closed say which row may be   *)
(* open at each place, Judged ties candidate, verdict and outcome, and     *)
(* LedgerOK the receipts to the decisions and to the effects themselves.   *)
(***************************************************************************)
EXTENDS NativeKernel, TLAPS, SequenceTheorems

Dispatching == {"requested", "begun", "dispatching", "started", "tool", "acted",
                "returned", "recorded"}

\* Places where every invocation has been dealt with.
Quiet == {"turn", "model", "batch", "silent", "call", "finished", "observed",
          "delivered", "claimed", "claiming"}

Judging == {"validating", "verdict", "judged", "ruled"}

Open(c) == inv[c].state \in {"REQUESTED", "STARTED"}

\* What an effect, done or still to come, implies about the rows of its call.
EffectsOK ==
  \A c \in CallIds :
    /\ acted[c] <= 1
    /\ c \in detached => acted[c] = 0
    /\ acted[c] # 0 \/ c \in detached =>
         /\ Kind[c] # "read"
         /\ inv[c].state \in {"STARTED", "FINISHED", "RECONCILED"}
         /\ inv[c].rec # "SAFE_TO_RETRY"
    /\ inv[c].rec # None => inv[c].state = "RECONCILED"

\* What a process at a place knows of the call it is handling.
Placed ==
  /\ pc \in Dispatching \cup {"finished", "observed", "delivered", "reconciling"} =>
       todo # <<>>
  /\ pc \in {"requested", "begun", "dispatching"} => inv[This].state = "REQUESTED"
  /\ pc \in {"started", "tool", "acted", "returned", "recorded", "reconciling"} =>
       inv[This].state = "STARTED"
  /\ pc = "finished" => inv[This].state = "FINISHED"
  /\ pc \in {"started", "tool"} => acted[This] = 0 /\ This \notin detached
  /\ pc = "returned" => res \in {"SUCCESS", "FAILURE", "NOOP"}
  /\ pc = "reconciling" => res \in Decisions \ {"SAFE_TO_RETRY"}
  /\ pc \in Judging => res \in {"claim", "resume"}

\* At most the call being handled is open.
Closed ==
  /\ pc \in Quiet \/ (pc \in Judging /\ res = "claim") =>
       \A c \in CallIds : ~Open(c)
  /\ pc \in Dispatching => \A c \in CallIds : c # This => ~Open(c)

\* Candidate, verdict and outcome move together.
Judged ==
  /\ pc \in {"validating", "verdict"} => cand = "CANDIDATE_COMPLETION"
  /\ cand = "ACCEPTED" =>
       verdict = "pass" /\ pc \in {"idle", "resume", "judged", "ruled"}
  /\ pc # "idle" => outcome = None
  /\ outcome = "COMPLETED" => cand = "ACCEPTED"
  /\ outcome = "CANDIDATE" => cand # "ACCEPTED"

IInv == TypeOK /\ EffectsOK /\ Placed /\ Closed /\ Judged
----------------------------------------------------------------------------
\* The call being handled is one of the ids, and so is every call behind it.
LEMMA ThisType ==
  ASSUME TypeOK, todo # <<>>
  PROVE  /\ This \in CallIds /\ Kind[This] \in Kinds
         /\ Tail(todo) \in Seq(CallIds)
<1>1. This \in CallIds /\ Tail(todo) \in Seq(CallIds)
  BY HeadTailProperties DEF TypeOK, This
<1>2. QED
  BY <1>1, KernelConstants

\* Every answer of the provider is a sequence of call ids.
LEMMA QueueType ==
  ASSUME NEW n \in 1..MaxBatch, NEW queue \in [1..n -> CallIds]
  PROVE  queue \in Seq(CallIds)
  BY IsASeq, KernelConstants

\* Receipts only take the statuses the table allows.
LEMMA ReceiptTypes ==
  ASSUME NEW status \in ReceiptStatuses \cup {None}, NEW class, NEW present
  PROVE  /\ MarkDispatchStarted(status) \in ReceiptStatuses \cup {None}
         /\ MarkCommitted(status) \in ReceiptStatuses
         /\ MarkUnknown(status) \in ReceiptStatuses
         /\ Reconcile(class, status, present) \in ReceiptStatuses
  BY DEF MarkDispatchStarted, MarkCommitted, MarkUnknown, Reconcile,
         ReceiptStatuses, Settled, None

\* Only a row that was never started, or a read, is declared safe to retry.
LEMMA DecisionTypes ==
  ASSUME NEW c \in CallIds, NEW status, NEW present
  PROVE  /\ PlainDecision(c) \in Decisions \cup {None}
         /\ PlainDecision(c) = "SAFE_TO_RETRY" =>
              inv[c].state = "REQUESTED" \/ Kind[c] = "read"
         /\ PlainDecision(c) = None => inv[c].state # "REQUESTED"
         /\ ProbeDecision(present) \in Decisions \ {"SAFE_TO_RETRY"}
         /\ ReceiptDecision(status, present) \in Decisions \ {"SAFE_TO_RETRY"}
  BY KernelConstants DEF PlainDecision, ProbeDecision, ReceiptDecision, Decisions,
     None, SideEffectClass, Kinds

\* A step that leaves the invocations and the world alone keeps EffectsOK.
LEMMA EffectsFrame ==
  ASSUME EffectsOK, UNCHANGED <<inv, acted, detached>>
  PROVE  EffectsOK'
  BY DEF EffectsOK

\* Writing the state of one invocation leaves its decision and every other row.
LEMMA SetStateFacts ==
  ASSUME TypeOK, NEW c \in CallIds, NEW state \in InvocationStates,
         SetState(c, state)
  PROVE  /\ inv' \in [CallIds -> Invocation]
         /\ inv'[c].state = state /\ inv'[c].rec = inv[c].rec
         /\ \A d \in CallIds : d # c => inv'[d] = inv[d]
<1>1. inv' = [inv EXCEPT ![c] = [inv[c] EXCEPT !.state = state]]
  BY DEF SetState, TypeOK
<1>2. inv[c] \in Invocation
  BY DEF TypeOK
<1>3. [inv[c] EXCEPT !.state = state] \in Invocation
  BY <1>2 DEF Invocation
<1>4. QED
  BY <1>1, <1>2, <1>3 DEF TypeOK, Invocation

\* Writing a decision closes that invocation and no other row.
LEMMA WriteReconciledFacts ==
  ASSUME TypeOK, NEW c \in CallIds, NEW decision \in Decisions,
         WriteReconciled(c, decision)
  PROVE  /\ inv' \in [CallIds -> Invocation] /\ news' \subseteq CallIds
         /\ inv'[c].state = "RECONCILED" /\ inv'[c].rec = decision
         /\ \A d \in CallIds : d # c => inv'[d] = inv[d]
<1> DEFINE row == [inv[c] EXCEPT !.state = "RECONCILED", !.rec = decision]
<1>1. inv' = [inv EXCEPT ![c] = row]
  BY DEF WriteReconciled, TypeOK
<1>2. inv[c] \in Invocation
  BY DEF TypeOK
<1>3. row \in Invocation /\ row.state = "RECONCILED" /\ row.rec = decision
  BY <1>2 DEF Invocation, InvocationStates
<1>4. QED
  BY <1>1, <1>3 DEF TypeOK, WriteReconciled

\* Entering kernel.run and catching up.
LEMMA EntrySteps ==
  ASSUME IInv
  PROVE  (Enter \/ RevalidatePending \/ AdoptPending \/ CatchUp) => IInv'
<1>1. ASSUME Enter PROVE IInv'
  <2>1. EffectsOK'
    BY <1>1, EffectsFrame DEF IInv, Enter, snapshot, ledger, completion,
       world, control
  <2>2. stopped' \in BOOLEAN
    BY <1>1, Zenon DEF IInv, TypeOK, Enter, Return, control
  <2>3. TypeOK'
    BY <1>1, <2>2 DEF IInv, Enter, TypeOK, Locations, Goto, Return, snapshot,
       ledger, completion, world, control, None
  <2>4. Placed' /\ Closed' /\ Judged'
    BY <1>1 DEF IInv, Enter, Placed, Closed, Judged, Dispatching, Quiet,
       Judging, Open, This, Goto, Return, snapshot, ledger, completion, world,
       control, None
  <2>5. QED
    BY <2>1, <2>3, <2>4 DEF IInv
<1>2. ASSUME RevalidatePending PROVE IInv'
  <2>1. EffectsOK'
    BY <1>2, EffectsFrame DEF IInv, RevalidatePending, snapshot, ledger,
       completion, world, control
  <2>2. TypeOK'
    BY <1>2 DEF IInv, RevalidatePending, TypeOK, Locations, Goto, Return,
       snapshot, ledger, completion, world, control, None
  <2>3. Placed' /\ Closed' /\ Judged'
    BY <1>2 DEF IInv, RevalidatePending, Placed, Closed, Judged, Dispatching,
       Quiet, Judging, Open, This, Goto, Return, snapshot, ledger, completion,
       world, control, None
  <2>4. QED
    BY <2>1, <2>2, <2>3 DEF IInv
<1>3. ASSUME AdoptPending PROVE IInv'
  <2>1. EffectsOK'
    BY <1>3, EffectsFrame DEF IInv, AdoptPending, snapshot, ledger,
       completion, world, control
  <2>2. CASE cand = "ACCEPTED"
    <3>1. TypeOK'
      BY <1>3, <2>2 DEF IInv, AdoptPending, TypeOK, Locations, Return,
         snapshot, ledger, completion, world, None
    <3>2. Placed' /\ Closed' /\ Judged'
      BY <1>3, <2>2 DEF IInv, AdoptPending, Placed, Closed, Judged,
         Dispatching, Quiet, Judging, Open, Return, snapshot, ledger,
         completion, world, control, None
    <3>3. QED
      BY <2>1, <3>1, <3>2 DEF IInv
  <2>3. CASE ~(cand = "ACCEPTED")
    <3>1. TypeOK'
      BY <1>3, <2>3 DEF IInv, AdoptPending, TypeOK, Locations, snapshot,
         ledger, completion, world, control, None
    <3>2. Placed' /\ Closed' /\ Judged'
      BY <1>3, <2>3 DEF IInv, AdoptPending, Placed, Closed, Judged,
         Dispatching, Quiet, Judging, Open, This, snapshot, ledger,
         completion, world, control, None
    <3>3. QED
      BY <2>1, <3>1, <3>2 DEF IInv
  <2>4. QED
    BY <2>2, <2>3
<1>4. ASSUME CatchUp PROVE IInv'
  <2>1. EffectsOK'
    BY <1>4, EffectsFrame DEF IInv, CatchUp, Unfinished, Counts,
       RecoveredFinished, Invocation, snapshot, ledger, completion, world,
       control
  <2>2. TypeOK'
    BY <1>4 DEF IInv, CatchUp, Unfinished, Counts, RecoveredFinished,
       Invocation, TypeOK, Locations, Goto, Return, snapshot, ledger,
       completion, world, control, None
  <2>3. Placed' /\ Closed' /\ Judged'
    BY <1>4 DEF IInv, CatchUp, Unfinished, Counts, RecoveredFinished,
       Invocation, Placed, Closed, Judged, Dispatching, Quiet, Judging, Open,
       This, Goto, Return, snapshot, ledger, completion, world, control, None
  <2>4. QED
    BY <2>1, <2>2, <2>3 DEF IInv
<1>5. QED
  BY <1>1, <1>2, <1>3, <1>4

\* One turn: budgets, the provider call and its answer.
LEMMA TurnSteps ==
  ASSUME IInv
  PROVE  (BudgetExhausted \/ TargetDiverges \/ LeaseRefused \/ CallProvider \/
          ProviderFails \/ ParseFails \/ AnswerTools \/ AnswerClaim \/ AnswerNothing \/
          ModelStopped \/ StartBatch \/ EndBatch \/ Duplicate) => IInv'
<1>1. ASSUME BudgetExhausted PROVE IInv'
  <2>1. EffectsOK'
    BY <1>1, EffectsFrame DEF IInv, BudgetExhausted, snapshot, ledger,
       completion, world, control
  <2>2. TypeOK'
    BY <1>1 DEF IInv, BudgetExhausted, TypeOK, Locations, Goto, Return,
       snapshot, ledger, completion, world, control, None
  <2>3. Placed' /\ Closed' /\ Judged'
    BY <1>1 DEF IInv, BudgetExhausted, Placed, Closed, Judged, Dispatching,
       Quiet, Judging, Open, This, Goto, Return, snapshot, ledger, completion,
       world, control, None
  <2>4. QED
    BY <2>1, <2>2, <2>3 DEF IInv
<1>2. ASSUME TargetDiverges PROVE IInv'
  <2>1. EffectsOK'
    BY <1>2, EffectsFrame DEF IInv, TargetDiverges, snapshot, ledger,
       completion, world, control
  <2>2. TypeOK'
    BY <1>2 DEF IInv, TargetDiverges, TypeOK, Locations, Goto, Return,
       snapshot, ledger, completion, world, control, None
  <2>3. Placed' /\ Closed' /\ Judged'
    BY <1>2 DEF IInv, TargetDiverges, Placed, Closed, Judged, Dispatching,
       Quiet, Judging, Open, This, Goto, Return, snapshot, ledger, completion,
       world, control, None
  <2>4. QED
    BY <2>1, <2>2, <2>3 DEF IInv
<1>3. ASSUME CallProvider PROVE IInv'
  <2>1. EffectsOK'
    BY <1>3, EffectsFrame DEF IInv, CallProvider, WithinBudget, snapshot,
       ledger, completion, world, control
  <2>2. TypeOK'
    BY <1>3, KernelConstants DEF IInv, CallProvider, WithinBudget, TypeOK,
       Locations, Goto, Return, snapshot, ledger, completion, world, control,
       None
  <2>3. Placed' /\ Closed' /\ Judged'
    BY <1>3 DEF IInv, CallProvider, WithinBudget, Placed, Closed, Judged,
       Dispatching, Quiet, Judging, Open, This, Goto, Return, snapshot,
       ledger, completion, world, control, None
  <2>4. QED
    BY <2>1, <2>2, <2>3 DEF IInv
<1>4. ASSUME ProviderFails PROVE IInv'
  <2>1. EffectsOK'
    BY <1>4, EffectsFrame DEF IInv, ProviderFails, snapshot, ledger,
       completion, world, control
  <2>2. TypeOK'
    BY <1>4 DEF IInv, ProviderFails, TypeOK, Locations, Goto, Return,
       snapshot, ledger, completion, world, control, None
  <2>3. Placed' /\ Closed' /\ Judged'
    BY <1>4 DEF IInv, ProviderFails, Placed, Closed, Judged, Dispatching,
       Quiet, Judging, Open, This, Goto, Return, snapshot, ledger, completion,
       world, control, None
  <2>4. QED
    BY <2>1, <2>2, <2>3 DEF IInv
<1>5. ASSUME ParseFails PROVE IInv'
  <2>1. EffectsOK'
    BY <1>5, EffectsFrame DEF IInv, ParseFails, snapshot, ledger, completion,
       world, control
  <2>2. TypeOK'
    BY <1>5 DEF IInv, ParseFails, TypeOK, Locations, Goto, Return, snapshot,
       ledger, completion, world, control, None
  <2>3. Placed' /\ Closed' /\ Judged'
    BY <1>5 DEF IInv, ParseFails, Placed, Closed, Judged, Dispatching, Quiet,
       Judging, Open, This, Goto, Return, snapshot, ledger, completion, world,
       control, None
  <2>4. QED
    BY <2>1, <2>2, <2>3 DEF IInv
<1>6. ASSUME AnswerTools PROVE IInv'
  <2>1. EffectsOK'
    BY <1>6, EffectsFrame DEF IInv, AnswerTools, Answered, snapshot, ledger,
       completion, world, control
  <2>2. TypeOK'
    BY <1>6, QueueType DEF IInv, AnswerTools, Answered, TypeOK, Locations,
       Goto, Return, snapshot, ledger, completion, world, control, None
  <2>3. Placed' /\ Closed' /\ Judged'
    BY <1>6 DEF IInv, AnswerTools, Answered, Placed, Closed, Judged,
       Dispatching, Quiet, Judging, Open, This, Goto, Return, snapshot,
       ledger, completion, world, control, None
  <2>4. QED
    BY <2>1, <2>2, <2>3 DEF IInv
<1>7. ASSUME AnswerClaim PROVE IInv'
  <2>1. EffectsOK'
    BY <1>7, EffectsFrame DEF IInv, AnswerClaim, Answered, snapshot, ledger,
       completion, world, control
  <2>2. TypeOK'
    BY <1>7, EmptySeq DEF IInv, AnswerClaim, Answered, TypeOK, Locations,
       Goto, Return, snapshot, ledger, completion, world, control, None
  <2>3. Placed' /\ Closed' /\ Judged'
    BY <1>7 DEF IInv, AnswerClaim, Answered, Placed, Closed, Judged,
       Dispatching, Quiet, Judging, Open, This, Goto, Return, snapshot,
       ledger, completion, world, control, None
  <2>4. QED
    BY <2>1, <2>2, <2>3 DEF IInv
<1>8. ASSUME AnswerNothing PROVE IInv'
  <2>1. EffectsOK'
    BY <1>8, EffectsFrame DEF IInv, AnswerNothing, Answered, snapshot, ledger,
       completion, world, control
  <2>2. TypeOK'
    BY <1>8, EmptySeq DEF IInv, AnswerNothing, Answered, TypeOK, Locations,
       Goto, Return, snapshot, ledger, completion, world, control, None
  <2>3. Placed' /\ Closed' /\ Judged'
    BY <1>8 DEF IInv, AnswerNothing, Answered, Placed, Closed, Judged,
       Dispatching, Quiet, Judging, Open, This, Goto, Return, snapshot,
       ledger, completion, world, control, None
  <2>4. QED
    BY <2>1, <2>2, <2>3 DEF IInv
<1>9. ASSUME ModelStopped PROVE IInv'
  <2>1. EffectsOK'
    BY <1>9, EffectsFrame DEF IInv, ModelStopped, snapshot, ledger,
       completion, world, control
  <2>2. TypeOK'
    BY <1>9 DEF IInv, ModelStopped, TypeOK, Locations, Goto, Return, snapshot,
       ledger, completion, world, control, None
  <2>3. Placed' /\ Closed' /\ Judged'
    BY <1>9 DEF IInv, ModelStopped, Placed, Closed, Judged, Dispatching,
       Quiet, Judging, Open, This, Goto, Return, snapshot, ledger, completion,
       world, control, None
  <2>4. QED
    BY <2>1, <2>2, <2>3 DEF IInv
<1>10. ASSUME StartBatch PROVE IInv'
  <2>1. EffectsOK'
    BY <1>10, EffectsFrame DEF IInv, StartBatch, snapshot, ledger, completion,
       world, control
  <2>2. CASE calls + Len(todo) > MaxToolCalls
    <3>1. TypeOK'
      BY <1>10, <2>2 DEF IInv, StartBatch, TypeOK, Locations, Return,
         snapshot, ledger, completion, world, None
    <3>2. Placed' /\ Closed' /\ Judged'
      BY <1>10, <2>2 DEF IInv, StartBatch, Placed, Closed, Judged,
         Dispatching, Quiet, Judging, Open, Return, snapshot, ledger,
         completion, world, control, None
    <3>3. QED
      BY <2>1, <3>1, <3>2 DEF IInv
  <2>3. CASE ~(calls + Len(todo) > MaxToolCalls)
    <3>1. TypeOK'
      BY <1>10, <2>3 DEF IInv, StartBatch, TypeOK, Locations, snapshot,
         ledger, completion, world, control, None
    <3>2. Placed' /\ Closed' /\ Judged'
      BY <1>10, <2>3 DEF IInv, StartBatch, Placed, Closed, Judged,
         Dispatching, Quiet, Judging, Open, This, snapshot, ledger,
         completion, world, control, None
    <3>3. QED
      BY <2>1, <3>1, <3>2 DEF IInv
  <2>4. QED
    BY <2>2, <2>3
<1>11. ASSUME EndBatch PROVE IInv'
  <2>1. EffectsOK'
    BY <1>11, EffectsFrame DEF IInv, EndBatch, snapshot, ledger, completion,
       world, control
  <2>2. TypeOK'
    BY <1>11 DEF IInv, EndBatch, TypeOK, Locations, Goto, Return, snapshot,
       ledger, completion, world, control, None
  <2>3. Placed' /\ Closed' /\ Judged'
    BY <1>11 DEF IInv, EndBatch, Placed, Closed, Judged, Dispatching, Quiet,
       Judging, Open, This, Goto, Return, snapshot, ledger, completion, world,
       control, None
  <2>4. QED
    BY <2>1, <2>2, <2>3 DEF IInv
<1>12. ASSUME Duplicate PROVE IInv'
  <2>1. EffectsOK'
    BY <1>12, EffectsFrame DEF IInv, Duplicate, snapshot, ledger, completion,
       world, control
  <2>2. TypeOK'
    BY <1>12 DEF IInv, Duplicate, TypeOK, Locations, Goto, Return, snapshot,
       ledger, completion, world, control, None
  <2>3. Placed' /\ Closed' /\ Judged'
    BY <1>12 DEF IInv, Duplicate, Placed, Closed, Judged, Dispatching, Quiet,
       Judging, Open, This, Goto, Return, snapshot, ledger, completion, world,
       control, None
  <2>4. QED
    BY <2>1, <2>2, <2>3 DEF IInv
<1>13. ASSUME LeaseRefused PROVE IInv'
  <2>1. EffectsOK'
    BY <1>13, EffectsFrame DEF IInv, LeaseRefused, snapshot, ledger,
       completion, world, control
  <2>2. TypeOK'
    BY <1>13 DEF IInv, LeaseRefused, TypeOK, Locations, Goto, Return,
       snapshot, ledger, completion, world, control, None
  <2>3. Placed' /\ Closed' /\ Judged'
    BY <1>13 DEF IInv, LeaseRefused, Placed, Closed, Judged, Dispatching,
       Quiet, Judging, Open, This, Goto, Return, snapshot, ledger, completion,
       world, control, None
  <2>4. QED
    BY <2>1, <2>2, <2>3 DEF IInv
<1>14. QED
  BY <1>1, <1>2, <1>3, <1>4, <1>5, <1>6, <1>7, <1>8, <1>9, <1>10, <1>11, <1>12,
     <1>13

\* Candidate, verdict and status; the token.
LEMMA JudgingSteps ==
  ASSUME IInv
  PROVE  (BeginClaim \/ CreateCandidate \/ Validate \/ SettleCandidate \/
          ActOnVerdict \/ Stop) => IInv'
<1>1. ASSUME CreateCandidate PROVE IInv'
  <2>1. EffectsOK'
    BY <1>1, EffectsFrame DEF IInv, CreateCandidate, snapshot, ledger,
       completion, world, control
  <2>2. TypeOK'
    BY <1>1 DEF IInv, CreateCandidate, TypeOK, Locations, Goto, Return,
       snapshot, ledger, completion, world, control, None
  <2>3. Placed' /\ Closed' /\ Judged'
    BY <1>1 DEF IInv, CreateCandidate, Placed, Closed, Judged, Dispatching,
       Quiet, Judging, Open, This, Goto, Return, snapshot, ledger, completion,
       world, control, None
  <2>4. QED
    BY <2>1, <2>2, <2>3 DEF IInv
<1>2. ASSUME Validate PROVE IInv'
  <2>1. EffectsOK'
    BY <1>2, EffectsFrame DEF IInv, Validate, snapshot, ledger, completion,
       world, control
  <2>2. TypeOK'
    BY <1>2 DEF IInv, Validate, TypeOK, Locations, Goto, Return, snapshot,
       ledger, completion, world, control, None
  <2>3. Placed' /\ Closed' /\ Judged'
    BY <1>2 DEF IInv, Validate, Placed, Closed, Judged, Dispatching, Quiet,
       Judging, Open, This, Goto, Return, snapshot, ledger, completion, world,
       control, None
  <2>4. QED
    BY <2>1, <2>2, <2>3 DEF IInv
<1>3. ASSUME SettleCandidate PROVE IInv'
  <2>1. EffectsOK'
    BY <1>3, EffectsFrame DEF IInv, SettleCandidate, Authoritative, snapshot,
       ledger, completion, world, control
  <2>2. TypeOK'
    BY <1>3 DEF IInv, SettleCandidate, Authoritative, TypeOK, Locations, Goto,
       Return, snapshot, ledger, completion, world, control, None
  <2>3. Placed' /\ Closed' /\ Judged'
    BY <1>3 DEF IInv, SettleCandidate, Authoritative, Placed, Closed, Judged,
       Dispatching, Quiet, Judging, Open, This, Goto, Return, snapshot,
       ledger, completion, world, control, None
  <2>4. QED
    BY <2>1, <2>2, <2>3 DEF IInv
<1>4. ASSUME ActOnVerdict PROVE IInv'
  <2>1. EffectsOK'
    BY <1>4, EffectsFrame DEF IInv, ActOnVerdict, snapshot, ledger,
       completion, world, control
  <2>2. CASE cand = "ACCEPTED"
    <3>1. TypeOK'
      BY <1>4, <2>2 DEF IInv, ActOnVerdict, TypeOK, Locations, Return,
         snapshot, ledger, completion, world, None
    <3>2. Placed' /\ Closed' /\ Judged'
      BY <1>4, <2>2 DEF IInv, ActOnVerdict, Placed, Closed, Judged,
         Dispatching, Quiet, Judging, Open, Return, snapshot, ledger,
         completion, world, control, None
    <3>3. QED
      BY <2>1, <3>1, <3>2 DEF IInv
  <2>3. CASE cand # "ACCEPTED" /\ Return("FAILED")
    <3>1. TypeOK'
      BY <1>4, <2>3, EmptySeq DEF IInv, ActOnVerdict, TypeOK, Locations, Return,
         snapshot, ledger, completion, world, None
    <3>2. Placed' /\ Closed' /\ Judged'
      BY <1>4, <2>3 DEF IInv, ActOnVerdict, Placed, Closed, Judged,
         Dispatching, Quiet, Judging, Open, Return, snapshot, ledger,
         completion, world, control, None
    <3>3. QED
      BY <2>1, <3>1, <3>2 DEF IInv
  <2>4. CASE /\ cand # "ACCEPTED"
             /\ pc' = IF res = "resume" THEN "reconcile" ELSE "turn"
             /\ res' = None /\ UNCHANGED <<todo, news, control>>
    <3>1. TypeOK'
      BY <1>4, <2>4 DEF IInv, ActOnVerdict, TypeOK, Locations, snapshot,
         ledger, completion, world, control, None
    <3>2. Placed' /\ Closed' /\ Judged'
      BY <1>4, <2>4 DEF IInv, ActOnVerdict, Placed, Closed, Judged,
         Dispatching, Quiet, Judging, Open, This, snapshot, ledger,
         completion, world, control, None
    <3>3. QED
      BY <2>1, <3>1, <3>2 DEF IInv
  <2>5. QED
    BY <1>4, <2>2, <2>3, <2>4 DEF ActOnVerdict
<1>5. ASSUME Stop PROVE IInv'
  <2>1. EffectsOK'
    BY <1>5, EffectsFrame DEF IInv, Stop, snapshot, ledger, completion, world,
       control
  <2>2. TypeOK'
    BY <1>5 DEF IInv, Stop, TypeOK, Locations, Goto, Return, snapshot, ledger,
       completion, world, control, None
  <2>3. Placed' /\ Closed' /\ Judged'
    BY <1>5 DEF IInv, Stop, Placed, Closed, Judged, Dispatching, Quiet,
       Judging, Open, This, Goto, Return, snapshot, ledger, completion, world,
       control, None
  <2>4. QED
    BY <2>1, <2>2, <2>3 DEF IInv
<1>6. ASSUME BeginClaim PROVE IInv'
  <2>1. EffectsOK'
    BY <1>6, EffectsFrame DEF IInv, BeginClaim, snapshot, ledger,
       completion, world, control
  <2>2. TypeOK'
    BY <1>6 DEF IInv, BeginClaim, TypeOK, Locations, Goto, Return,
       snapshot, ledger, completion, world, control, None
  <2>3. Placed' /\ Closed' /\ Judged'
    BY <1>6 DEF IInv, BeginClaim, Placed, Closed, Judged, Dispatching,
       Quiet, Judging, Open, This, Goto, Return, snapshot, ledger, completion,
       world, control, None
  <2>4. QED
    BY <2>1, <2>2, <2>3 DEF IInv
<1>7. QED
  BY <1>1, <1>2, <1>3, <1>4, <1>5, <1>6

\* Steps of a dispatch that write at most the receipt.
LEMMA ReceiptSteps ==
  ASSUME IInv
  PROVE  (BeginReceipt \/ DispatchReceipt \/ Invoke \/ ToolCommits \/
          ToolReturns \/ RecordReceipt \/ ObserveReceipt \/ LeaveAwait \/
          CountCall) => IInv'
<1>1. ASSUME BeginReceipt PROVE IInv'
  <2>1. EffectsOK'
    BY <1>1, EffectsFrame DEF IInv, BeginReceipt, SetReceipt, snapshot,
       ledger, completion, world, control
  <2>2. This \in CallIds /\ Tail(todo) \in Seq(CallIds)
    BY <1>1, ThisType DEF IInv, BeginReceipt, Goto, Placed, Dispatching
  <2>3. TypeOK'
    BY <1>1, <2>2 DEF IInv, BeginReceipt, ReceiptStatuses, SetReceipt, TypeOK,
       Locations, Goto, snapshot, ledger, completion, world, control, None
  <2>4. Placed' /\ Closed' /\ Judged'
    BY <1>1 DEF IInv, BeginReceipt, Placed, Closed, Judged, Dispatching,
       Quiet, Judging, Open, This, Goto, snapshot, ledger, completion, world,
       control, None
  <2>5. QED
    BY <2>1, <2>3, <2>4 DEF IInv
<1>2. ASSUME DispatchReceipt PROVE IInv'
  <2>1. EffectsOK'
    BY <1>2, EffectsFrame DEF IInv, DispatchReceipt, SetReceipt, snapshot,
       ledger, completion, world, control
  <2>2. This \in CallIds /\ Tail(todo) \in Seq(CallIds)
    BY <1>2, ThisType DEF IInv, DispatchReceipt, Goto, Placed, Dispatching
  <2>3. rcpt' \in [CallIds -> ReceiptStatuses \cup {None}]
    BY <1>2, <2>2, ReceiptTypes DEF IInv, DispatchReceipt, SetReceipt, TypeOK
  <2>4. TypeOK'
    BY <1>2, <2>3 DEF IInv, DispatchReceipt, TypeOK, Locations, Goto, snapshot,
       completion, world, control
  <2>5. Placed' /\ Closed' /\ Judged'
    BY <1>2 DEF IInv, DispatchReceipt, Placed, Closed, Judged, Dispatching,
       Quiet, Judging, Open, This, Goto, snapshot, ledger, completion, world,
       control, None
  <2>6. QED
    BY <2>1, <2>4, <2>5 DEF IInv
<1>3. ASSUME Invoke PROVE IInv'
  <2>1. EffectsOK'
    BY <1>3, EffectsFrame DEF IInv, Invoke, SetReceipt, snapshot, ledger,
       completion, world, control
  <2>2. This \in CallIds /\ Tail(todo) \in Seq(CallIds)
    BY <1>3, ThisType DEF IInv, Invoke, Goto, Placed, Dispatching
  <2>3. TypeOK'
    BY <1>3, <2>2 DEF IInv, Invoke, SetReceipt, TypeOK, Locations, Goto,
       snapshot, ledger, completion, world, control, None
  <2>4. Placed' /\ Closed' /\ Judged'
    BY <1>3 DEF IInv, Invoke, Placed, Closed, Judged, Dispatching, Quiet,
       Judging, Open, This, Goto, snapshot, ledger, completion, world,
       control, None
  <2>5. QED
    BY <2>1, <2>3, <2>4 DEF IInv
<1>4. ASSUME ToolCommits PROVE IInv'
  <2>1. EffectsOK'
    BY <1>4, EffectsFrame DEF IInv, ToolCommits, SetReceipt, snapshot, ledger,
       completion, world, control
  <2>2. This \in CallIds /\ Tail(todo) \in Seq(CallIds)
    BY <1>4, ThisType DEF IInv, ToolCommits, Goto, Placed, Dispatching
  <2>3. TypeOK'
    BY <1>4, <2>2, ReceiptTypes DEF IInv, ToolCommits, SetReceipt, TypeOK,
       Locations, Goto, snapshot, ledger, completion, world, control, None
  <2>4. Placed' /\ Closed' /\ Judged'
    BY <1>4 DEF IInv, ToolCommits, Placed, Closed, Judged, Dispatching, Quiet,
       Judging, Open, This, Goto, snapshot, ledger, completion, world,
       control, None
  <2>5. QED
    BY <2>1, <2>3, <2>4 DEF IInv
<1>5. ASSUME ToolReturns PROVE IInv'
  <2>1. EffectsOK'
    BY <1>5, EffectsFrame DEF IInv, ToolReturns, SetReceipt, snapshot, ledger,
       completion, world, control
  <2>2. This \in CallIds /\ Tail(todo) \in Seq(CallIds)
    BY <1>5, ThisType DEF IInv, ToolReturns, Goto, Placed, Dispatching
  <2>3. TypeOK'
    BY <1>5, <2>2 DEF IInv, ToolReturns, SetReceipt, TypeOK, Locations, Goto,
       snapshot, ledger, completion, world, control, None
  <2>4. Placed' /\ Closed' /\ Judged'
    BY <1>5 DEF IInv, ToolReturns, Placed, Closed, Judged, Dispatching, Quiet,
       Judging, Open, This, Goto, snapshot, ledger, completion, world,
       control, None
  <2>5. QED
    BY <2>1, <2>3, <2>4 DEF IInv
<1>6. ASSUME RecordReceipt PROVE IInv'
  <2>1. EffectsOK'
    BY <1>6, EffectsFrame DEF IInv, RecordReceipt, SetReceipt, snapshot,
       ledger, completion, world, control
  <2>2. This \in CallIds /\ Tail(todo) \in Seq(CallIds)
    BY <1>6, ThisType DEF IInv, RecordReceipt, Goto, Placed, Dispatching
  <2>3. TypeOK'
    BY <1>6, <2>2, ReceiptTypes DEF IInv, RecordReceipt, Placed, SetReceipt,
       TypeOK, Locations, Goto, snapshot, ledger, completion, world, control,
       None
  <2>4. Placed' /\ Closed' /\ Judged'
    BY <1>6 DEF IInv, RecordReceipt, Placed, Closed, Judged, Dispatching,
       Quiet, Judging, Open, This, Goto, snapshot, ledger, completion, world,
       control, None
  <2>5. QED
    BY <2>1, <2>3, <2>4 DEF IInv
<1>7. ASSUME ObserveReceipt PROVE IInv'
  <2>1. EffectsOK'
    BY <1>7, EffectsFrame DEF IInv, ObserveReceipt, SetReceipt, snapshot,
       ledger, completion, world, control
  <2>2. This \in CallIds /\ Tail(todo) \in Seq(CallIds)
    BY <1>7, ThisType DEF IInv, ObserveReceipt, Goto, Placed, Dispatching
  <2>3. TypeOK'
    BY <1>7, <2>2 DEF IInv, ObserveReceipt, ReceiptStatuses, SetReceipt,
       TypeOK, Locations, Goto, snapshot, ledger, completion, world, control,
       None
  <2>4. Placed' /\ Closed' /\ Judged'
    BY <1>7 DEF IInv, ObserveReceipt, Placed, Closed, Judged, Dispatching,
       Quiet, Judging, Open, This, Goto, snapshot, ledger, completion, world,
       control, None
  <2>5. QED
    BY <2>1, <2>3, <2>4 DEF IInv
<1>8. ASSUME LeaveAwait PROVE IInv'
  <2>1. EffectsOK'
    BY <1>8, EffectsFrame DEF IInv, LeaveAwait, snapshot, ledger, completion,
       world, control
  <2>2. TypeOK'
    BY <1>8 DEF IInv, LeaveAwait, TypeOK, Locations, Goto, snapshot, ledger,
       completion, world, control, None
  <2>3. Placed' /\ Closed' /\ Judged'
    BY <1>8 DEF IInv, LeaveAwait, Placed, Closed, Judged, Dispatching, Quiet,
       Judging, Open, This, Goto, snapshot, ledger, completion, world, control,
       None
  <2>4. QED
    BY <2>1, <2>2, <2>3 DEF IInv
<1>9. ASSUME CountCall PROVE IInv'
  <2>1. EffectsOK'
    BY <1>9, EffectsFrame DEF IInv, CountCall, ledger, completion, world
  <2>2. This \in CallIds /\ Tail(todo) \in Seq(CallIds)
    BY <1>9, ThisType DEF IInv, CountCall, Placed
  <2>3. cand # "ACCEPTED" /\ \A c \in CallIds : ~Open(c)
    BY <1>9 DEF IInv, CountCall, Judged, Closed, Quiet
  <2>4. CASE pc' = "call" /\ todo' = Tail(todo) /\ UNCHANGED <<res, news, control>>
    <3>1. TypeOK'
      BY <1>9, <2>2, <2>4 DEF IInv, CountCall, TypeOK, Locations, ledger,
         completion, world, control, None
    <3>2. Placed' /\ Closed' /\ Judged'
      BY <1>9, <2>3, <2>4 DEF IInv, CountCall, Placed, Closed, Judged, Dispatching,
         Quiet, Judging, Open, ledger, completion, world, control, None
    <3>3. QED
      BY <2>1, <3>1, <3>2 DEF IInv
  <2>5. CASE Return("CANDIDATE") \/ Return("FAILED")
    <3>1. /\ pc' = "idle" /\ outcome' \in {"CANDIDATE", "FAILED"}
          /\ todo' = <<>> /\ res' = None /\ news' = {}
          /\ UNCHANGED <<stopped, runs, asked>>
      BY <2>5, Zenon DEF Return
    <3>2. TypeOK'
      BY <1>9, <2>2, <3>1, EmptySeq DEF IInv, CountCall, TypeOK, Locations,
         ledger, completion, world, None
    <3>3. Placed' /\ Closed' /\ Judged'
      BY <1>9, <2>3, <3>1 DEF IInv, CountCall, Placed, Closed, Judged, Dispatching,
         Quiet, Judging, Open, ledger, completion, world, None
    <3>4. QED
      BY <2>1, <3>2, <3>3 DEF IInv
  <2>6. QED
    BY <1>9, <2>4, <2>5 DEF CountCall
<1>10. QED
  BY <1>1, <1>2, <1>3, <1>4, <1>5, <1>6, <1>7, <1>8, <1>9

\* Steps of a dispatch that write the invocation row.
LEMMA InvocationSteps ==
  ASSUME IInv
  PROVE  (Request \/ Deny \/ StartInvocation \/ FinishInvocation) => IInv'
<1>1. ASSUME Request PROVE IInv'
  <2>1. This \in CallIds
    BY <1>1, ThisType DEF IInv, Request, Goto, Placed, Dispatching
  <2>2. /\ inv' \in [CallIds -> Invocation]
        /\ inv'[This].state = "REQUESTED" /\ inv'[This].rec = None
        /\ \A d \in CallIds : d # This => inv'[d] = inv[d]
    BY <1>1, <2>1 DEF IInv, Request, TypeOK, Invocation, InvocationStates
  <2>3. TypeOK'
    BY <1>1, <2>1, <2>2 DEF IInv, Request, TypeOK, Locations, Goto, snapshot,
       ledger, completion, world, control, None
  <2>4. EffectsOK'
    BY <1>1, <2>1, <2>2 DEF IInv, Request, Known, EffectsOK, Placed, Goto,
       snapshot, ledger, completion, world, control, None
  <2>5. Placed'
    BY <1>1, <2>1, <2>2 DEF IInv, Request, EffectsOK, Placed, Dispatching,
       Judging, This, Goto, snapshot, ledger, completion, world, control, None
  <2>6. Closed' /\ Judged'
    BY <1>1, <2>1, <2>2 DEF IInv, Request, Placed, Closed, Judged,
       Dispatching, Quiet, Judging, Open, This, Goto, snapshot, ledger,
       completion, world, control, None
  <2>7. QED
    BY <2>3, <2>4, <2>5, <2>6 DEF IInv
<1>2. ASSUME Deny PROVE IInv'
  <2>1. This \in CallIds
    BY <1>2, ThisType DEF IInv, Deny, Goto, Placed, Dispatching
  <2>2. /\ inv' \in [CallIds -> Invocation]
        /\ inv'[This].state = "FINISHED" /\ inv'[This].rec = inv[This].rec
        /\ \A d \in CallIds : d # This => inv'[d] = inv[d]
    BY <1>2, <2>1, SetStateFacts DEF IInv, Deny, InvocationStates
  <2>3. TypeOK'
    BY <1>2, <2>1, <2>2 DEF IInv, Deny, TypeOK, Locations, Goto, snapshot,
       ledger, completion, world, control, None
  <2>4. EffectsOK'
    BY <1>2, <2>1, <2>2 DEF IInv, Deny, EffectsOK, Placed, Goto, snapshot,
       ledger, completion, world, control, None
  <2>5. Placed'
    BY <1>2, <2>1, <2>2 DEF IInv, Deny, EffectsOK, Placed, Dispatching,
       Judging, This, Goto, snapshot, ledger, completion, world, control, None
  <2>6. Closed' /\ Judged'
    BY <1>2, <2>1, <2>2 DEF IInv, Deny, Placed, Closed, Judged, Dispatching,
       Quiet, Judging, Open, This, Goto, snapshot, ledger, completion, world,
       control, None
  <2>7. QED
    BY <2>3, <2>4, <2>5, <2>6 DEF IInv
<1>3. ASSUME StartInvocation PROVE IInv'
  <2>1. This \in CallIds
    BY <1>3, ThisType DEF IInv, StartInvocation, Goto, Placed, Dispatching
  <2>2. /\ inv' \in [CallIds -> Invocation]
        /\ inv'[This].state = "STARTED" /\ inv'[This].rec = inv[This].rec
        /\ \A d \in CallIds : d # This => inv'[d] = inv[d]
    BY <1>3, <2>1, SetStateFacts DEF IInv, StartInvocation, InvocationStates
  <2>3. TypeOK'
    BY <1>3, <2>1, <2>2 DEF IInv, StartInvocation, TypeOK, Locations, Goto,
       snapshot, ledger, completion, world, control, None
  <2>4. EffectsOK'
    BY <1>3, <2>1, <2>2 DEF IInv, StartInvocation, EffectsOK, Placed, Goto,
       snapshot, ledger, completion, world, control, None
  <2>5. Placed'
    BY <1>3, <2>1, <2>2 DEF IInv, StartInvocation, EffectsOK, Placed,
       Dispatching, Judging, This, Goto, snapshot, ledger, completion, world,
       control, None
  <2>6. Closed' /\ Judged'
    BY <1>3, <2>1, <2>2 DEF IInv, StartInvocation, Placed, Closed, Judged,
       Dispatching, Quiet, Judging, Open, This, Goto, snapshot, ledger,
       completion, world, control, None
  <2>7. QED
    BY <2>3, <2>4, <2>5, <2>6 DEF IInv
<1>4. ASSUME FinishInvocation PROVE IInv'
  <2>1. This \in CallIds
    BY <1>4, ThisType DEF IInv, FinishInvocation, Goto, Placed, Dispatching
  <2>2. /\ inv' \in [CallIds -> Invocation]
        /\ inv'[This].state = "FINISHED" /\ inv'[This].rec = inv[This].rec
        /\ \A d \in CallIds : d # This => inv'[d] = inv[d]
    BY <1>4, <2>1, SetStateFacts DEF IInv, FinishInvocation, InvocationStates
  <2>3. TypeOK'
    BY <1>4, <2>1, <2>2 DEF IInv, FinishInvocation, TypeOK, Locations, Goto,
       snapshot, ledger, completion, world, control, None
  <2>4. EffectsOK'
    BY <1>4, <2>1, <2>2 DEF IInv, FinishInvocation, EffectsOK, Placed, Goto,
       snapshot, ledger, completion, world, control, None
  <2>5. Placed'
    BY <1>4, <2>1, <2>2 DEF IInv, FinishInvocation, EffectsOK, Placed,
       Dispatching, Judging, This, Goto, snapshot, ledger, completion, world,
       control, None
  <2>6. Closed' /\ Judged'
    BY <1>4, <2>1, <2>2 DEF IInv, FinishInvocation, Placed, Closed, Judged,
       Dispatching, Quiet, Judging, Open, This, Goto, snapshot, ledger,
       completion, world, control, None
  <2>7. QED
    BY <2>3, <2>4, <2>5, <2>6 DEF IInv
<1>5. QED
  BY <1>1, <1>2, <1>3, <1>4

\* What a dead process left is reconciled.
LEMMA ReconcileSteps ==
  ASSUME IInv
  PROVE  (ReconcilePlain \/ ReconcileWithoutReceipt \/ ReconcileReceipt \/
          ReconcileInvocation) => IInv'
<1>1. ASSUME ReconcilePlain PROVE IInv'
  <2>1. PICK c \in Unfinished :
          PlainDecision(c) # None /\ WriteReconciled(c, PlainDecision(c))
    BY <1>1 DEF ReconcilePlain
  <2> DEFINE decision == PlainDecision(c)
  <2>2. /\ c \in CallIds /\ Open(c)
        /\ decision \in Decisions
        /\ decision = "SAFE_TO_RETRY" =>
             inv[c].state = "REQUESTED" \/ Kind[c] = "read"
    BY <2>1, DecisionTypes DEF Unfinished, Open, None
  <2>3. /\ inv' \in [CallIds -> Invocation] /\ news' \subseteq CallIds
        /\ inv'[c].state = "RECONCILED" /\ inv'[c].rec = decision
        /\ \A d \in CallIds : d # c => inv'[d] = inv[d]
    BY <2>1, <2>2, WriteReconciledFacts DEF IInv
  <2> HIDE DEF decision
  <2>4. TypeOK'
    BY <1>1, <2>3 DEF IInv, ReconcilePlain, TypeOK, Locations, snapshot,
       ledger, completion, world, control, None
  <2>5. EffectsOK'
    BY <1>1, <2>2, <2>3 DEF IInv, ReconcilePlain, EffectsOK, Open, snapshot,
       ledger, completion, world, control, None
  <2>6. Placed' /\ Closed' /\ Judged'
    BY <1>1, <2>3 DEF IInv, ReconcilePlain, Placed, Closed, Judged,
       Dispatching, Quiet, Judging, snapshot, ledger, completion, world,
       control, None
  <2>7. QED
    BY <2>4, <2>5, <2>6 DEF IInv
<1>2. ASSUME ReconcileWithoutReceipt PROVE IInv'
  <2>1. PICK c \in Unfinished, present \in Probe :
          PlainDecision(c) = None /\ WriteReconciled(c, ProbeDecision(present))
    BY <1>2 DEF ReconcileWithoutReceipt
  <2> DEFINE decision == ProbeDecision(present)
  <2>2. /\ c \in CallIds /\ Open(c)
        /\ decision \in Decisions
        /\ decision = "SAFE_TO_RETRY" =>
             inv[c].state = "REQUESTED" \/ Kind[c] = "read"
    BY <2>1, DecisionTypes DEF Unfinished, Open, None
  <2>3. /\ inv' \in [CallIds -> Invocation] /\ news' \subseteq CallIds
        /\ inv'[c].state = "RECONCILED" /\ inv'[c].rec = decision
        /\ \A d \in CallIds : d # c => inv'[d] = inv[d]
    BY <2>1, <2>2, WriteReconciledFacts DEF IInv
  <2> HIDE DEF decision
  <2>4. TypeOK'
    BY <1>2, <2>3 DEF IInv, ReconcileWithoutReceipt, TypeOK, Locations,
       snapshot, ledger, completion, world, control, None
  <2>5. EffectsOK'
    BY <1>2, <2>2, <2>3 DEF IInv, ReconcileWithoutReceipt, EffectsOK, Open,
       snapshot, ledger, completion, world, control, None
  <2>6. Placed' /\ Closed' /\ Judged'
    BY <1>2, <2>3 DEF IInv, ReconcileWithoutReceipt, Placed, Closed, Judged,
       Dispatching, Quiet, Judging, snapshot, ledger, completion, world,
       control, None
  <2>7. QED
    BY <2>4, <2>5, <2>6 DEF IInv
<1>3. ASSUME ReconcileReceipt PROVE IInv'
  <2>1. PICK c \in Unfinished, present \in Probe :
          LET status == Reconcile(EffectClass(Kind[c]), rcpt[c], present)
          IN  /\ PlainDecision(c) = None
              /\ SetReceipt(c, status)
              /\ todo' = <<c>> /\ res' = ReceiptDecision(status, present)
    BY <1>3 DEF ReconcileReceipt
  <2>2. c \in CallIds /\ inv[c].state = "STARTED"
    BY <2>1, DecisionTypes DEF Unfinished
  <2>3. /\ res' \in Decisions \ {"SAFE_TO_RETRY"}
        /\ rcpt' \in [CallIds -> ReceiptStatuses \cup {None}]
    BY <2>1, <2>2, DecisionTypes, ReceiptTypes DEF IInv, TypeOK, SetReceipt
  <2>4. todo' \in Seq(CallIds) /\ todo' # <<>> /\ This' = c
    BY <2>1, <2>2 DEF This
  <2>5. TypeOK'
    BY <1>3, <2>3, <2>4 DEF IInv, ReconcileReceipt, Goto, TypeOK, Locations,
       snapshot, ledger, completion, world, control, None
  <2>6. EffectsOK'
    BY <1>3, EffectsFrame DEF IInv, ReconcileReceipt, snapshot, ledger,
       completion, world, control
  <2>7. Placed' /\ Closed' /\ Judged'
    BY <1>3, <2>2, <2>3, <2>4 DEF IInv, ReconcileReceipt, Goto, Placed,
       Closed, Judged, Dispatching, Quiet, Judging, snapshot, ledger,
       completion, world, control, None
  <2>8. QED
    BY <2>5, <2>6, <2>7 DEF IInv
<1>4. ASSUME ReconcileInvocation PROVE IInv'
  <2>1. /\ This \in CallIds /\ res \in Decisions \ {"SAFE_TO_RETRY"}
        /\ inv[This].state = "STARTED"
    BY <1>4, ThisType DEF IInv, ReconcileInvocation, Goto, Placed, Dispatching
  <2>2. /\ inv' \in [CallIds -> Invocation] /\ news' \subseteq CallIds
        /\ inv'[This].state = "RECONCILED" /\ inv'[This].rec = res
        /\ \A d \in CallIds : d # This => inv'[d] = inv[d]
    BY <1>4, <2>1, WriteReconciledFacts DEF IInv, ReconcileInvocation
  <2>3. TypeOK'
    BY <1>4, <2>2, EmptySeq DEF IInv, ReconcileInvocation, Goto, TypeOK,
       Locations, snapshot, ledger, completion, world, control, None
  <2>4. EffectsOK'
    BY <1>4, <2>1, <2>2 DEF IInv, ReconcileInvocation, EffectsOK, snapshot,
       ledger, completion, world, control, None
  <2>5. Placed' /\ Closed' /\ Judged'
    BY <1>4, <2>2 DEF IInv, ReconcileInvocation, Goto, Placed, Closed, Judged,
       Dispatching, Quiet, Judging, snapshot, ledger, completion, world,
       control, None
  <2>6. QED
    BY <2>3, <2>4, <2>5 DEF IInv
<1>5. QED
  BY <1>1, <1>2, <1>3, <1>4

\* What the tools do to the world, on time or after their cancellation, and how
\* a process stops.
LEMMA WorldSteps ==
  ASSUME IInv
  PROVE  (ToolActs \/ ToolFails \/ DetachedActs \/ Halt \/ Crash) => IInv'
<1>1. ASSUME ToolActs PROVE IInv'
  <2>1. This \in CallIds
    BY <1>1, ThisType DEF IInv, ToolActs, Goto, Placed, Dispatching
  <2>2. /\ acted' = [acted EXCEPT ![This] = @ + 1]
        /\ dirty' \in BOOLEAN
    BY <1>1, Zenon DEF ToolActs, TakeEffect, IInv, TypeOK
  <2>3. TypeOK'
    BY <1>1, <2>1, <2>2 DEF IInv, ToolActs, TypeOK, Locations, Goto, snapshot,
       ledger, completion, control
  <2>4. EffectsOK'
    BY <1>1, <2>1, <2>2 DEF IInv, TypeOK, ToolActs, EffectsOK, Placed, Goto,
       ledger, None
  <2>5. Placed' /\ Closed' /\ Judged'
    BY <1>1 DEF IInv, ToolActs, Placed, Closed, Judged, Dispatching, Quiet,
       Judging, Open, This, Goto, ledger, completion, control
  <2>6. QED
    BY <2>3, <2>4, <2>5 DEF IInv
<1>2. ASSUME ToolFails PROVE IInv'
  <2>1. This \in CallIds
    BY <1>2, ThisType DEF IInv, ToolFails, Goto, Placed, Dispatching
  <2>2. /\ res' \in {"FAILURE", "NOOP"}
        /\ detached' = detached \/
             (detached' = detached \cup {This} /\ Kind[This] # "read")
    BY <1>2 DEF ToolFails
  <2>3. TypeOK'
    BY <1>2, <2>1, <2>2 DEF IInv, ToolFails, TypeOK, Locations, Goto, snapshot,
       ledger, completion, control
  <2>4. EffectsOK'
    BY <1>2, <2>1, <2>2 DEF IInv, TypeOK, ToolFails, EffectsOK, Placed, Goto,
       ledger, None
  <2>5. Placed' /\ Closed' /\ Judged'
    BY <1>2, <2>2 DEF IInv, ToolFails, Placed, Closed, Judged, Dispatching,
       Quiet, Judging, Open, This, Goto, ledger, completion, control
  <2>6. QED
    BY <2>3, <2>4, <2>5 DEF IInv
<1>3. ASSUME DetachedActs PROVE IInv'
  <2>1. PICK c \in detached : TakeEffect(c) /\ detached' = detached \ {c}
    BY <1>3 DEF DetachedActs
  <2>2. c \in CallIds
    BY DEF IInv, TypeOK
  <2>3. /\ acted' = [acted EXCEPT ![c] = @ + 1]
        /\ dirty' \in BOOLEAN
    BY <2>1, Zenon DEF TakeEffect, IInv, TypeOK
  <2>4. TypeOK'
    BY <1>3, <2>1, <2>2, <2>3 DEF IInv, DetachedActs, TypeOK, snapshot, ledger,
       completion, control
  <2>5. EffectsOK'
    BY <1>3, <2>1, <2>2, <2>3 DEF IInv, TypeOK, DetachedActs, EffectsOK, ledger
  <2>6. ASSUME pc \in {"started", "tool"}
        PROVE  This \in CallIds /\ This # c
    BY <2>6, ThisType DEF IInv, Placed, Dispatching
  <2>7. Placed' /\ Closed' /\ Judged'
    BY <1>3, <2>1, <2>2, <2>3, <2>6 DEF IInv, TypeOK, DetachedActs, Placed,
       Closed, Judged, Dispatching, Quiet, Judging, Open, This, ledger,
       completion, control
  <2>8. QED
    BY <2>4, <2>5, <2>7 DEF IInv
<1>4. ASSUME Halt PROVE IInv'
  <2>1. \/ detached' = detached
        \/ /\ pc = "tool" /\ Kind[This] # "read"
           /\ detached' = detached \cup {This}
    BY <1>4 DEF Halt
  <2>2. pc = "tool" => This \in CallIds
    BY ThisType DEF IInv, Placed, Dispatching
  <2>3. TypeOK'
    BY <1>4, <2>1, <2>2, EmptySeq DEF IInv, Halt, TypeOK, Locations, Return,
       snapshot, ledger, completion, None
  <2>4. EffectsOK'
    BY <1>4, <2>1, <2>2 DEF IInv, Halt, EffectsOK, Placed, ledger, None
  <2>5. Placed' /\ Closed' /\ Judged'
    BY <1>4 DEF IInv, Halt, Placed, Closed, Judged, Dispatching, Quiet, Judging,
       Return, completion
  <2>6. QED
    BY <2>3, <2>4, <2>5 DEF IInv
<1>5. ASSUME Crash PROVE IInv'
  <2>1. TypeOK'
    BY <1>5, EmptySeq DEF IInv, Crash, TypeOK, Locations, snapshot, ledger,
       completion, None
  <2>2. EffectsOK'
    BY <1>5 DEF IInv, Crash, EffectsOK, ledger
  <2>3. Placed' /\ Closed' /\ Judged'
    BY <1>5 DEF IInv, Crash, Placed, Closed, Judged, Dispatching, Quiet, Judging,
       completion, None
  <2>4. QED
    BY <2>1, <2>2, <2>3 DEF IInv
<1>6. QED
  BY <1>1, <1>2, <1>3, <1>4, <1>5
----------------------------------------------------------------------------
\* The invariant is inductive: it holds before the kernel is first entered, and
\* every commit, every step of a tool and every crash keeps it.
THEOREM KernelInductive == Spec => []IInv
<1>1. ASSUME Init PROVE IInv
  <2>1. todo \in Seq(CallIds) /\ stopped \in BOOLEAN /\ dirty \in BOOLEAN
    BY <1>1, EmptySeq DEF Init
  <2>2. TypeOK
    BY <1>1, <2>1 DEF Init, TypeOK, Locations, Invocation, NoInvocation, None
  <2>3. EffectsOK
    BY <1>1 DEF Init, EffectsOK, NoInvocation, None
  <2>4. Placed /\ Closed /\ Judged
    BY <1>1 DEF Init, Placed, Closed, Judged, Dispatching, Quiet, Judging, None
  <2>5. QED
    BY <2>2, <2>3, <2>4 DEF IInv
<1>2. ASSUME IInv, [Next]_vars PROVE IInv'
  <2>1. CASE UNCHANGED vars
    BY <1>2, <2>1 DEF vars, IInv, TypeOK, EffectsOK, Placed, Closed, Judged, Open,
       This
  <2>2. CASE Next
    BY <1>2, <2>2, EntrySteps, TurnSteps, JudgingSteps, ReceiptSteps,
       InvocationSteps, ReconcileSteps, WorldSteps DEF Next, Progress
  <2>3. QED
    BY <1>2, <2>1, <2>2
<1>3. QED
  BY <1>1, <1>2, PTL DEF Spec

\* The rows always hold what their columns allow.
THEOREM KernelTypeCorrect == Spec => []TypeOK
<1>1. IInv => TypeOK
  BY DEF IInv
<1>2. QED
  BY <1>1, KernelInductive, PTL

\* A logical tool call takes effect at most once, over all processes that ever
\* run the attempt and all repetitions of its id.
THEOREM EffectsOnce == Spec => []EffectAtMostOnce
<1>1. IInv => EffectAtMostOnce
  BY DEF IInv, EffectsOK, EffectAtMostOnce
<1>2. QED
  BY <1>1, KernelInductive, PTL

\* SAFE_TO_RETRY is only ever said of a call that has not acted and cannot act.
THEOREM RetryIsSafe == Spec => []SafeToRetryIsSafe
<1>1. IInv => SafeToRetryIsSafe
  BY DEF IInv, TypeOK, EffectsOK, SafeToRetryIsSafe
<1>2. QED
  BY <1>1, KernelInductive, PTL

\* The model is never asked while a call of the attempt is open.
THEOREM ModelSeesNothingOpen == Spec => []NothingOpenAtModelCall
<1>1. IInv => NothingOpenAtModelCall
  BY DEF IInv, Closed, Quiet, Open, NothingOpenAtModelCall
<1>2. QED
  BY <1>1, KernelInductive, PTL

\* A COMPLETED for an accepted claim passes the outer validator, whatever was
\* rejected or judged again before; one that only hands over a candidate never does.
THEOREM CompletionIsAccepted == Spec => []CompletedIsAccepted
<1>1. IInv => CompletedIsAccepted
  BY DEF IInv, Judged, CompletedIsAccepted, OuterPasses
<1>2. QED
  BY <1>1, KernelInductive, PTL

\* Acceptance is final: no later step judges, asks the model or calls a tool.
THEOREM AcceptanceIsFinal == Spec => AcceptedIsFinal
<1>1. ASSUME IInv, [Next]_vars, cand = "ACCEPTED"
      PROVE  UNCHANGED <<cand, verdict, turns, asked, inv>>
  <2>1. pc \in {"idle", "resume", "judged", "ruled"}
    BY <1>1 DEF IInv, Judged
  <2>2. CASE UNCHANGED vars
    BY <2>2 DEF vars
  <2>3. CASE Enter \/ AdoptPending \/ LeaveAwait \/ ActOnVerdict \/ Halt \/ Stop \/
             Crash \/ DetachedActs
    BY <2>3, <1>1 DEF Enter, AdoptPending, LeaveAwait, ActOnVerdict, Halt, Stop, Crash,
       DetachedActs, Return, snapshot, ledger, completion, control
  <2>4. CASE RevalidatePending
    BY <2>4, <1>1 DEF RevalidatePending
  <2>5. QED
    BY <1>1, <2>1, <2>2, <2>3, <2>4 DEF Next, Progress, ReconcilePlain,
       ReconcileWithoutReceipt, ReconcileReceipt, ReconcileInvocation, CatchUp,
       BudgetExhausted, TargetDiverges, LeaseRefused, CallProvider, ProviderFails, ParseFails,
       AnswerTools, AnswerClaim, AnswerNothing, Answered, ModelStopped,
       StartBatch, EndBatch, Duplicate, Request, Deny, BeginReceipt,
       DispatchReceipt, StartInvocation, Invoke, ToolActs, ToolCommits,
       ToolReturns, ToolFails, RecordReceipt, FinishInvocation, ObserveReceipt,
       LeaveAwait, CountCall, BeginClaim, CreateCandidate, Validate, SettleCandidate, Goto
<1>2. QED
  BY <1>1, KernelInductive, PTL DEF Spec, AcceptedIsFinal

\* The steps that write an invocation row.
LEMMA InvocationWrites ==
  ASSUME [Next]_vars
  PROVE  \/ inv' = inv
         \/ Request \/ Deny \/ StartInvocation \/ FinishInvocation
         \/ ReconcilePlain \/ ReconcileWithoutReceipt \/ ReconcileInvocation
  BY DEF Next, Progress, vars, Enter, RevalidatePending, AdoptPending,
     ReconcileReceipt, CatchUp, BudgetExhausted, TargetDiverges, LeaseRefused, CallProvider,
     ProviderFails, ParseFails, AnswerTools, AnswerClaim, AnswerNothing, Answered,
     ModelStopped, StartBatch, EndBatch, Duplicate, BeginReceipt, DispatchReceipt,
     Invoke, ToolActs, ToolCommits, ToolReturns, ToolFails, RecordReceipt,
     ObserveReceipt, LeaveAwait, CountCall, BeginClaim, CreateCandidate, Validate, SettleCandidate,
     ActOnVerdict, Halt, Stop, Crash, DetachedActs, ledger

\* The only step that asks the provider is CallProvider.
LEMMA ProviderCalls ==
  ASSUME [Next]_vars
  PROVE  asked' = asked \/ CallProvider
  BY DEF Next, Progress, vars, Enter, RevalidatePending, AdoptPending,
     ReconcilePlain, ReconcileWithoutReceipt, ReconcileReceipt,
     ReconcileInvocation, CatchUp, BudgetExhausted, TargetDiverges, LeaseRefused, ProviderFails,
     ParseFails, AnswerTools, AnswerClaim, AnswerNothing, Answered, ModelStopped,
     StartBatch, EndBatch, Duplicate, Request, Deny, BeginReceipt,
     DispatchReceipt, StartInvocation, Invoke, ToolActs, ToolCommits, ToolReturns,
     ToolFails, RecordReceipt, FinishInvocation, ObserveReceipt, LeaveAwait, CountCall, BeginClaim,
     CreateCandidate, Validate, SettleCandidate, ActOnVerdict, Halt, Stop, Crash,
     DetachedActs, Return, control

\* Each reconciliation writes a decision for one call.
LEMMA ReconciledCall ==
  ASSUME IInv,
         ReconcilePlain \/ ReconcileWithoutReceipt \/ ReconcileInvocation
  PROVE  \E c \in CallIds, decision \in Decisions : WriteReconciled(c, decision)
<1>1. CASE ReconcilePlain
  BY <1>1, DecisionTypes DEF ReconcilePlain, Unfinished
<1>2. CASE ReconcileWithoutReceipt
  BY <1>2, DecisionTypes DEF ReconcileWithoutReceipt, Unfinished
<1>3. CASE ReconcileInvocation
  BY <1>3, ThisType DEF IInv, ReconcileInvocation, Goto, Placed
<1>4. QED
  BY <1>1, <1>2, <1>3

\* Where a tool begins to run, a claim is taken up and a candidate is judged.
LEMMA Beginnings ==
  ASSUME [Next]_vars
  PROVE  /\ pc' = "tool" => pc = "tool" \/ Invoke
         /\ pc' = "claiming" => pc = "claiming" \/ BeginClaim
         /\ pc' = "validating" =>
              pc \in {"claiming", "validating"} \/ RevalidatePending
  BY DEF Next, Progress, vars, Enter, AdoptPending,
     ReconcilePlain, ReconcileWithoutReceipt, ReconcileReceipt,
     ReconcileInvocation, CatchUp, BudgetExhausted, TargetDiverges, LeaseRefused,
     CallProvider, ProviderFails, ParseFails, AnswerTools, AnswerClaim,
     AnswerNothing, Answered, ModelStopped, StartBatch, EndBatch, Duplicate, Request,
     Deny, BeginReceipt, DispatchReceipt, StartInvocation, Invoke, BeginClaim,
     RevalidatePending, ToolActs, ToolCommits, ToolReturns, ToolFails, RecordReceipt,
     FinishInvocation, ObserveReceipt, LeaveAwait, CountCall, CreateCandidate,
     Validate, SettleCandidate, ActOnVerdict, Halt, Stop, Crash, DetachedActs,
     Goto, Return

\* Once the token is terminal the provider is not asked, no call registered, no tool
\* invoked, no claim taken up and no pending one judged; a row is only marked started
\* when its receipt is already being written, a candidate only created when the check
\* before it passed in time.
THEOREM NothingStarts == Spec => NothingStartsAfterStop
<1>1. ASSUME IInv, [Next]_vars, stopped, stopped'
      PROVE  /\ asked' = asked
             /\ \A c \in CallIds : inv'[c].state \in {"REQUESTED", "STARTED"} =>
                  \/ inv'[c] = inv[c]
                  \/ pc \in {"begun", "dispatching"}
             /\ pc' = "tool" => pc = "tool"
             /\ pc' = "claiming" => pc = "claiming"
             /\ pc' = "validating" => pc \in {"claiming", "validating"}
  <2>1. /\ pc' = "tool" => pc = "tool"
        /\ pc' = "claiming" => pc = "claiming"
        /\ pc' = "validating" => pc \in {"claiming", "validating"}
    BY <1>1, Beginnings DEF Invoke, BeginClaim, RevalidatePending
  <2>2. asked' = asked
    BY <1>1, ProviderCalls DEF CallProvider
  <2>3. CASE inv' = inv
    BY <2>2, <2>3, <2>1
  <2>4. CASE Request \/ Deny \/ StartInvocation
    BY <1>1, <2>2, <2>4, <2>1 DEF Request, Deny, StartInvocation, Goto
  <2>5. CASE FinishInvocation
    <3>1. This \in CallIds
      BY <1>1, <2>5, ThisType DEF IInv, FinishInvocation, Goto, Placed, Dispatching
    <3>2. inv'[This].state = "FINISHED"
          /\ \A d \in CallIds : d # This => inv'[d] = inv[d]
      BY <1>1, <2>5, <3>1, SetStateFacts DEF IInv, FinishInvocation,
         InvocationStates
    <3>3. QED
      BY <2>2, <2>1, <3>1, <3>2
  <2>6. CASE ReconcilePlain \/ ReconcileWithoutReceipt \/ ReconcileInvocation
    BY <1>1, <2>2, <2>6, <2>1, ReconciledCall, WriteReconciledFacts DEF IInv
  <2>7. QED
    BY <1>1, <2>3, <2>4, <2>5, <2>6, InvocationWrites
<1>2. QED
  BY <1>1, KernelInductive, PTL DEF Spec, NothingStartsAfterStop
----------------------------------------------------------------------------
\* A call without a row has no receipt, and none is begun twice.
ReceiptsOK ==
  /\ \A c \in CallIds : ~Known(c) => rcpt[c] = None
  /\ pc = "requested" => rcpt[This] = None

\* A receipt write that keeps a commit.
Keeps(c) == rcpt[c] \in Settled => rcpt'[c] \in Settled

\* Writing one receipt leaves every other alone.
LEMMA SetReceiptFacts ==
  ASSUME TypeOK, NEW c \in CallIds, NEW status, SetReceipt(c, status)
  PROVE  /\ rcpt'[c] = status
         /\ \A d \in CallIds : d # c => rcpt'[d] = rcpt[d]
  BY DEF SetReceipt, TypeOK

\* No way a receipt moves takes a commit back.
LEMMA SettledStays ==
  ASSUME NEW status \in Settled, NEW class, NEW present
  PROVE  /\ MarkDispatchStarted(status) \in Settled
         /\ MarkCommitted(status) \in Settled
         /\ MarkUnknown(status) \in Settled
         /\ Reconcile(class, status, present) \in Settled
  BY DEF MarkDispatchStarted, MarkCommitted, MarkUnknown, Reconcile, Settled

\* The steps that write a receipt write one of a known call and keep its commit.
LEMMA ReceiptWrites ==
  ASSUME IInv, ReceiptsOK, [Next]_vars
  PROVE  \/ rcpt' = rcpt
         \/ /\ inv' = inv /\ pc' # "requested"
            /\ \E c \in CallIds :
                 /\ Known(c) /\ Keeps(c)
                 /\ \A d \in CallIds : d # c => rcpt'[d] = rcpt[d]
<1>1. CASE BeginReceipt \/ DispatchReceipt \/ ToolCommits \/ RecordReceipt \/
           ObserveReceipt
  <2>1. /\ This \in CallIds /\ inv' = inv /\ pc' # "requested"
    BY <1>1, ThisType DEF IInv, Placed, Dispatching, BeginReceipt,
       DispatchReceipt, ToolCommits, RecordReceipt, ObserveReceipt, Goto, ledger
  <2>2. PICK status : /\ SetReceipt(This, status)
                      /\ rcpt[This] \in Settled => status \in Settled
    <3>1. CASE BeginReceipt
      BY <3>1 DEF BeginReceipt, ReceiptsOK, Goto, Settled, None
    <3>2. CASE DispatchReceipt
      BY <3>2, SettledStays DEF DispatchReceipt
    <3>3. CASE ToolCommits
      BY <3>3, SettledStays DEF ToolCommits
    <3>4. CASE RecordReceipt
      BY <3>4, SettledStays DEF RecordReceipt, IInv, Placed, Goto
    <3>5. CASE ObserveReceipt
      BY <3>5 DEF ObserveReceipt, Settled
    <3>6. QED
      BY <1>1, <3>1, <3>2, <3>3, <3>4, <3>5
  <2>3. Known(This)
    BY <1>1, <2>1 DEF IInv, Placed, Known, BeginReceipt, DispatchReceipt,
       ToolCommits, RecordReceipt, ObserveReceipt, Goto, None
  <2>4. QED
    BY <2>1, <2>2, <2>3, SetReceiptFacts DEF IInv, Keeps
<1>2. CASE ReconcileReceipt
  <2>1. PICK c \in Unfinished, present \in Probe :
          SetReceipt(c, Reconcile(EffectClass(Kind[c]), rcpt[c], present))
    BY <1>2 DEF ReconcileReceipt
  <2>2. c \in CallIds /\ Known(c)
    BY DEF Unfinished, Known, None
  <2>3. QED
    BY <1>2, <2>1, <2>2, SetReceiptFacts, SettledStays DEF IInv, Keeps,
       ReconcileReceipt, Goto
<1>3. QED
  BY <1>1, <1>2 DEF Next, Progress, vars, Enter, RevalidatePending, AdoptPending,
     ReconcilePlain, ReconcileWithoutReceipt, ReconcileInvocation, CatchUp,
     BudgetExhausted, TargetDiverges, LeaseRefused, CallProvider, ProviderFails, ParseFails,
     AnswerTools, AnswerClaim, AnswerNothing, Answered, ModelStopped, StartBatch,
     EndBatch, Duplicate, Request, Deny, StartInvocation, Invoke, ToolActs,
     ToolReturns, ToolFails, FinishInvocation, LeaveAwait, CountCall, BeginClaim, CreateCandidate,
     Validate, SettleCandidate, ActOnVerdict, Halt, Stop, Crash, DetachedActs,
     snapshot, ledger, completion, control

\* A row of the invocation table is never deleted.
LEMMA KnownStays ==
  ASSUME IInv, [Next]_vars, NEW c \in CallIds, Known(c)
  PROVE  Known(c)'
<1>1. CASE inv' = inv
  BY <1>1 DEF Known
<1>2. CASE Request
  <2>1. This \in CallIds /\ ~Known(This)
    BY <1>2, ThisType DEF IInv, Request
  <2>2. inv'[c] = inv[c]
    BY <1>2, <2>1 DEF Request, IInv, TypeOK
  <2>3. QED
    BY <2>2 DEF Known
<1>3. CASE Deny \/ StartInvocation \/ FinishInvocation
  <2>1. This \in CallIds
    BY <1>3, ThisType DEF IInv, Deny, StartInvocation, FinishInvocation, Goto,
       Placed, Dispatching
  <2>2. PICK state \in InvocationStates : SetState(This, state)
    BY <1>3 DEF Deny, StartInvocation, FinishInvocation, InvocationStates
  <2>3. inv'[c].state = state \/ inv'[c] = inv[c]
    BY <2>1, <2>2, SetStateFacts DEF IInv
  <2>4. QED
    BY <2>3 DEF Known, InvocationStates, None
<1>4. CASE \E d \in CallIds, decision \in Decisions : WriteReconciled(d, decision)
  <2>1. inv'[c].state = "RECONCILED" \/ inv'[c] = inv[c]
    BY <1>4, WriteReconciledFacts DEF IInv
  <2>2. QED
    BY <2>1 DEF Known, None
<1>5. QED
  <2>1. ReconcilePlain \/ ReconcileWithoutReceipt \/ ReconcileInvocation =>
          \E d \in CallIds, decision \in Decisions : WriteReconciled(d, decision)
    BY ReconciledCall
  <2>2. \/ inv' = inv
        \/ Request \/ Deny \/ StartInvocation \/ FinishInvocation
        \/ ReconcilePlain \/ ReconcileWithoutReceipt \/ ReconcileInvocation
    BY InvocationWrites
  <2>3. QED
    BY <1>1, <1>2, <1>3, <1>4, <2>1, <2>2

\* What the rows say of their receipts stays true.
LEMMA ReceiptsInductive ==
  ASSUME IInv, ReceiptsOK, [Next]_vars
  PROVE  ReceiptsOK'
<1>1. ASSUME NEW c \in CallIds, ~Known(c)' PROVE rcpt'[c] = None
  <2>1. ~Known(c)
    BY <1>1, KnownStays
  <2>2. rcpt'[c] = rcpt[c]
    BY <2>1, ReceiptWrites
  <2>3. QED
    BY <2>1, <2>2 DEF ReceiptsOK
<1>2. ASSUME pc' = "requested" PROVE rcpt'[This'] = None
  <2>1. rcpt' = rcpt
    BY <1>2, ReceiptWrites
  <2>2. CASE Request
    BY <2>1, <2>2, ThisType DEF IInv, Request, ReceiptsOK, This
  <2>3. (pc = "requested" /\ todo' = todo) \/ Request
    BY <1>2 DEF Next, Progress, vars, Enter, RevalidatePending, AdoptPending,
       ReconcilePlain, ReconcileWithoutReceipt, ReconcileReceipt,
       ReconcileInvocation, CatchUp, BudgetExhausted, TargetDiverges, LeaseRefused,
       CallProvider, ProviderFails, ParseFails, AnswerTools, AnswerClaim,
       AnswerNothing, Answered, ModelStopped, StartBatch, EndBatch, Duplicate,
       Deny, BeginReceipt, DispatchReceipt, StartInvocation, Invoke, ToolActs,
       ToolCommits, ToolReturns, ToolFails, RecordReceipt, FinishInvocation,
       ObserveReceipt, LeaveAwait, CountCall, BeginClaim, CreateCandidate, Validate, SettleCandidate,
       ActOnVerdict, Halt, Stop, Crash, DetachedActs, Goto, Return
  <2>4. QED
    BY <1>2, <2>1, <2>2, <2>3 DEF ReceiptsOK, This
<1>3. QED
  BY <1>1, <1>2 DEF ReceiptsOK

\* A recorded commit survives timeouts, crashes, reconciliations and late results.
THEOREM CommitsStay == Spec => CommitIsForever
<1>1. Init => ReceiptsOK
  BY DEF Init, ReceiptsOK, None
<1>2. ASSUME IInv, ReceiptsOK, [Next]_vars
      PROVE  /\ ReceiptsOK'
             /\ \A c \in CallIds : rcpt[c] \in Settled => rcpt'[c] \in Settled
  BY <1>2, ReceiptsInductive, ReceiptWrites DEF Keeps
<1>3. QED
  BY <1>1, <1>2, KernelInductive, PTL DEF Spec, CommitIsForever
----------------------------------------------------------------------------
\* What a decision and a receipt say of the same call.
Agrees(c, decision) ==
  rcpt[c] # None =>
    /\ rcpt[c] \in Settled => decision = "DO_NOT_RETRY"
    /\ rcpt[c] = "COMMIT_STATE_UNKNOWN" => decision = "UNKNOWN"
    /\ decision = "UNKNOWN" => rcpt[c] = "COMMIT_STATE_UNKNOWN"

External == {"idempotent", "receipt", "unverifiable"}

\* Only a classified call has a receipt, which has not moved far while the call
\* is only requested; a decision agrees with the receipt it was taken from, also
\* between the two commits of a reconciliation; and a commit is only claimed of
\* an external effect once that effect is there.
LedgerOK ==
  /\ \A c \in CallIds :
       /\ inv[c].state = "REQUESTED" => rcpt[c] \in {None, "REQUEST_CREATED", "DISPATCH_STARTED"}
       /\ ~HasReceipt(c) => rcpt[c] = None
       /\ inv[c].state = "RECONCILED" => Agrees(c, inv[c].rec)
       /\ Kind[c] \in External => (rcpt[c] \in Settled => acted[c] = 1) /\ rcpt[c] # "RECONCILED"
  /\ pc = "reconciling" => Agrees(This, res)
  /\ pc = "acted" => acted[This] = 1
  /\ pc = "returned" /\ res = "SUCCESS" /\ Kind[This] # "read" => acted[This] = 1

LEMMA ReceiptWriters ==
  ASSUME [Next]_vars
  PROVE  \/ rcpt' = rcpt
         \/ BeginReceipt \/ DispatchReceipt \/ ToolCommits \/ RecordReceipt \/ ObserveReceipt
         \/ ReconcileReceipt
  BY DEF Next, Progress, vars, Enter, RevalidatePending, AdoptPending,
     ReconcilePlain, ReconcileWithoutReceipt, ReconcileInvocation, CatchUp,
     BudgetExhausted, TargetDiverges, LeaseRefused, CallProvider, ProviderFails, ParseFails,
     AnswerTools, AnswerClaim, AnswerNothing, Answered, ModelStopped, StartBatch,
     EndBatch, Duplicate, Request, Deny, StartInvocation, Invoke, ToolActs,
     ToolReturns, ToolFails, FinishInvocation, LeaveAwait, CountCall, BeginClaim, CreateCandidate,
     Validate, SettleCandidate, ActOnVerdict, Halt, Stop, Crash, DetachedActs,
     ledger

LEMMA EffectWriters ==
  ASSUME [Next]_vars
  PROVE  acted' = acted \/ ToolActs \/ DetachedActs
  BY DEF Next, Progress, vars, Enter, RevalidatePending, AdoptPending,
     ReconcilePlain, ReconcileWithoutReceipt, ReconcileReceipt, ReconcileInvocation, CatchUp,
     BudgetExhausted, TargetDiverges, LeaseRefused, CallProvider, ProviderFails, ParseFails,
     AnswerTools, AnswerClaim, AnswerNothing, Answered, ModelStopped, StartBatch,
     EndBatch, Duplicate, Request, Deny, BeginReceipt, DispatchReceipt, StartInvocation,
     Invoke, ToolCommits, ToolReturns, ToolFails, RecordReceipt, FinishInvocation,
     ObserveReceipt, LeaveAwait, CountCall, BeginClaim, CreateCandidate,
     Validate, SettleCandidate, ActOnVerdict, Halt, Stop, Crash, world

\* How the places with a result in hand are reached.
LEMMA WithResult ==
  ASSUME [Next]_vars, pc' \in {"acted", "returned", "reconciling"}
  PROVE  \/ pc' = pc /\ todo' = todo /\ res' = res
         \/ ToolActs \/ ToolCommits \/ ToolReturns \/ ToolFails \/ ReconcileReceipt
  BY DEF Next, Progress, vars, Enter, RevalidatePending, AdoptPending,
     ReconcilePlain, ReconcileWithoutReceipt, ReconcileInvocation, CatchUp,
     BudgetExhausted, TargetDiverges, LeaseRefused, CallProvider, ProviderFails, ParseFails,
     AnswerTools, AnswerClaim, AnswerNothing, Answered, ModelStopped, StartBatch,
     EndBatch, Duplicate, Request, Deny, BeginReceipt, DispatchReceipt, StartInvocation,
     Invoke, RecordReceipt, FinishInvocation, ObserveReceipt, LeaveAwait, CountCall, BeginClaim, CreateCandidate,
     Validate, SettleCandidate, ActOnVerdict, Halt, Stop, Crash, DetachedActs, Goto, Return

\* An effect that is there stays the only one.
LEMMA EffectStays ==
  ASSUME IInv, IInv', [Next]_vars
  PROVE  /\ \A c \in CallIds : acted[c] = 1 => acted'[c] = 1
         /\ ToolActs => acted'[This] = 1
<1>1. ASSUME NEW d \in CallIds, TakeEffect(d)
      PROVE  acted'[d] = acted[d] + 1 /\ \A c \in CallIds : c # d => acted'[c] = acted[c]
  BY <1>1 DEF TakeEffect, IInv, TypeOK
<1>2. \A c \in CallIds : acted[c] \in Nat /\ acted'[c] \in Nat /\ acted'[c] <= 1
  BY DEF IInv, TypeOK, EffectsOK
<1>3. ASSUME ToolActs PROVE acted'[This] = 1
                            /\ \A c \in CallIds : acted[c] = 1 => acted'[c] = 1
  <2>1. This \in CallIds /\ acted[This] = 0 /\ TakeEffect(This)
    BY <1>3, ThisType DEF ToolActs, Goto, IInv, Placed, Dispatching
  <2> QED
    BY <1>1, <2>1
<1>4. ASSUME DetachedActs PROVE \A c \in CallIds : acted[c] = 1 => acted'[c] = 1
  <2>1. PICK d \in detached : TakeEffect(d)
    BY <1>4 DEF DetachedActs
  <2>2. d \in CallIds /\ acted[d] = 0
    BY DEF IInv, TypeOK, EffectsOK
  <2> QED
    BY <1>1, <2>1, <2>2
<1> QED
  BY <1>3, <1>4, EffectWriters

\* How the receipt of a call moves that is not finished.
LEMMA ReceiptMoves ==
  ASSUME NEW c \in CallIds, NEW status \in ReceiptStatuses \cup {None}, NEW present
  PROVE  /\ MarkDispatchStarted(status) \in {status, "DISPATCH_STARTED"}
         /\ status = None => MarkDispatchStarted(status) = None
         /\ Kind[c] \in External =>
              LET r == Reconcile(EffectClass(Kind[c]), status, present)
              IN  r = status \/ r = "COMMIT_STATE_UNKNOWN"
<1>1. MarkDispatchStarted(status) \in {status, "DISPATCH_STARTED"}
      /\ (status = None => MarkDispatchStarted(status) = None)
  BY DEF MarkDispatchStarted, None
<1>2. Kind[c] \in External => EffectClass(Kind[c]) \notin LocalClasses
  BY DEF External, EffectClass, LocalClasses
<1>3. Kind[c] \in External =>
        LET r == Reconcile(EffectClass(Kind[c]), status, present)
        IN  r = status \/ r = "COMMIT_STATE_UNKNOWN"
  BY <1>2 DEF Reconcile, MarkUnknown
<1> QED
  BY <1>1, <1>3

\* What a step makes of one receipt, and for which call.
LEMMA ReceiptStep ==
  ASSUME IInv, IInv', ReceiptsOK, LedgerOK, [Next]_vars, NEW c \in CallIds, rcpt'[c] # rcpt[c]
  PROVE  /\ HasReceipt(c) /\ inv[c].state # "RECONCILED" /\ inv' = inv /\ acted' = acted
         /\ inv[c].state = "REQUESTED" => rcpt'[c] \in {"REQUEST_CREATED", "DISPATCH_STARTED"}
         /\ Kind[c] \in External => (rcpt'[c] \in Settled => acted[c] = 1)
                                    /\ rcpt'[c] # "RECONCILED"
<1>1. /\ inv[c].state = "REQUESTED" => rcpt[c] \in {None, "REQUEST_CREATED", "DISPATCH_STARTED"}
      /\ ~HasReceipt(c) => rcpt[c] = None
      /\ Kind[c] \in External => (rcpt[c] \in Settled => acted[c] = 1) /\ rcpt[c] # "RECONCILED"
      /\ rcpt[c] \in ReceiptStatuses \cup {None}
  BY DEF LedgerOK, IInv, TypeOK
<1>2. ASSUME NEW d \in CallIds, NEW status, SetReceipt(d, status)
      PROVE  d = c /\ rcpt'[c] = status
  BY <1>2, SetReceiptFacts DEF IInv
<1>3. CASE BeginReceipt
  <2>1. /\ This \in CallIds /\ inv[This].state = "REQUESTED" /\ HasReceipt(This)
        /\ SetReceipt(This, "REQUEST_CREATED") /\ inv' = inv /\ acted' = acted
    BY <1>3, ThisType DEF BeginReceipt, Goto, IInv, Placed, Dispatching, world
  <2>2. This = c /\ rcpt'[c] = "REQUEST_CREATED"
    BY <1>2, <2>1
  <2> QED
    BY <2>1, <2>2 DEF Settled
<1>4. CASE DispatchReceipt
  <2>1. /\ This \in CallIds /\ inv[This].state = "REQUESTED"
        /\ SetReceipt(This, MarkDispatchStarted(rcpt[This])) /\ inv' = inv /\ acted' = acted
    BY <1>4, ThisType DEF DispatchReceipt, Goto, IInv, Placed, Dispatching, world
  <2>2. This = c /\ rcpt'[c] = "DISPATCH_STARTED" /\ rcpt[c] # None
    BY <1>1, <1>2, <2>1, ReceiptMoves
  <2> QED
    BY <1>1, <2>1, <2>2 DEF Settled
<1>5. CASE ToolCommits
  <2>1. /\ This \in CallIds /\ inv[This].state = "STARTED" /\ Kind[This] = "edit"
        /\ SetReceipt(This, MarkCommitted(rcpt[This])) /\ inv' = inv /\ acted' = acted
    BY <1>5, ThisType DEF ToolCommits, Goto, IInv, Placed, Dispatching, world
  <2>2. This = c
    BY <1>2, <2>1
  <2>3. HasReceipt(This)
    BY <2>1 DEF HasReceipt, EffectClass, None
  <2> QED
    BY <2>1, <2>2, <2>3 DEF External
<1>6. CASE RecordReceipt
  <2>1. /\ This \in CallIds /\ inv[This].state = "STARTED" /\ HasReceipt(This)
        /\ inv' = inv /\ acted' = acted /\ res \in {"SUCCESS", "FAILURE", "NOOP"}
        /\ pc = "returned"
    BY <1>6, ThisType DEF RecordReceipt, Goto, IInv, Placed, Dispatching, world
  <2>2. /\ res = "SUCCESS" => SetReceipt(This, MarkCommitted(rcpt[This]))
        /\ res = "FAILURE" => SetReceipt(This, MarkUnknown(rcpt[This]))
        /\ res = "NOOP" => SetReceipt(This, Reconcile(EffectClass(Kind[This]), rcpt[This], "no"))
    BY <1>6 DEF RecordReceipt
  <2>3. This = c
    BY <1>2, <2>1, <2>2
  <2>4. CASE res = "SUCCESS"
    <3>1. Kind[c] \in External => acted[c] = 1
      BY <2>1, <2>3, <2>4 DEF LedgerOK, External
    <3>2. rcpt'[c] = MarkCommitted(rcpt[c])
      BY <1>2, <2>1, <2>2, <2>3, <2>4
    <3>3. rcpt'[c] # "RECONCILED"
      BY <1>1, <3>2 DEF MarkCommitted, Settled
    <3> QED
      BY <2>1, <2>3, <3>1, <3>3
  <2>5. CASE res = "FAILURE"
    <3>1. rcpt'[c] = MarkUnknown(rcpt[c])
      BY <1>2, <2>1, <2>2, <2>3, <2>5
    <3>2. rcpt'[c] = "COMMIT_STATE_UNKNOWN"
      BY <3>1 DEF MarkUnknown
    <3> QED
      BY <2>1, <2>3, <3>2 DEF Settled
  <2>6. CASE res = "NOOP"
    <3>1. rcpt'[c] = Reconcile(EffectClass(Kind[c]), rcpt[c], "no")
      BY <1>2, <2>1, <2>2, <2>3, <2>6
    <3>2. Kind[c] \in External => rcpt'[c] = "COMMIT_STATE_UNKNOWN"
      BY <1>1, <3>1, ReceiptMoves
    <3> QED
      BY <2>1, <2>3, <3>2 DEF Settled
  <2> QED
    BY <2>1, <2>4, <2>5, <2>6
<1>7. CASE ObserveReceipt
  <2>1. /\ This \in CallIds /\ inv[This].state = "FINISHED" /\ inv' = inv /\ acted' = acted
        /\ SetReceipt(This, IF rcpt[This] = "COMMITTED" THEN "OBSERVED" ELSE rcpt[This])
    BY <1>7, ThisType DEF ObserveReceipt, Goto, IInv, Placed, world
  <2>2. This = c /\ rcpt[c] = "COMMITTED" /\ rcpt'[c] = "OBSERVED"
    BY <1>2, <2>1
  <2> QED
    BY <1>1, <2>1, <2>2 DEF Settled, None
<1>8. CASE ReconcileReceipt
  <2>1. PICK d \in Unfinished, present \in Probe :
          /\ SetReceipt(d, Reconcile(EffectClass(Kind[d]), rcpt[d], present))
          /\ PlainDecision(d) = None /\ rcpt[d] # None
    BY <1>8 DEF ReconcileReceipt
  <2>2. d \in CallIds /\ inv[d].state = "STARTED"
    BY <2>1, DecisionTypes DEF Unfinished
  <2>3. d = c /\ rcpt'[c] = Reconcile(EffectClass(Kind[c]), rcpt[c], present)
    BY <1>2, <2>1, <2>2
  <2>4. inv' = inv /\ acted' = acted
    BY <1>8 DEF ReconcileReceipt, world
  <2>5. Kind[c] \in External => rcpt'[c] = "COMMIT_STATE_UNKNOWN"
    BY <1>1, <2>3, ReceiptMoves
  <2> QED
    BY <1>1, <2>1, <2>2, <2>3, <2>4, <2>5 DEF Settled
<1> QED
  BY <1>3, <1>4, <1>5, <1>6, <1>7, <1>8, ReceiptWriters

\* A call that becomes reconciled gets a decision its receipt agrees with.
LEMMA DecisionAgrees ==
  ASSUME IInv, IInv', ReceiptsOK, LedgerOK, [Next]_vars, NEW c \in CallIds,
         inv'[c] # inv[c], inv'[c].state = "RECONCILED"
  PROVE  Agrees(c, inv'[c].rec) /\ rcpt' = rcpt
<1>1. ASSUME NEW d \in CallIds, NEW state \in InvocationStates \ {"RECONCILED"}, SetState(d, state)
      PROVE  FALSE
  BY <1>1, SetStateFacts DEF IInv
<1>2. ASSUME NEW d \in CallIds, NEW decision \in Decisions, WriteReconciled(d, decision)
      PROVE  d = c /\ inv'[c].rec = decision
  BY <1>2, WriteReconciledFacts DEF IInv
<1>3. CASE Request
  <2>1. /\ This \in CallIds
        /\ inv' = [inv EXCEPT ![This] = [state |-> "REQUESTED", ordinal |-> calls + 1, rec |-> None]]
    BY <1>3, ThisType DEF Request, IInv
  <2> QED
    BY <2>1 DEF IInv, TypeOK
<1>4. ~(Deny \/ StartInvocation \/ FinishInvocation)
  <2>1. Deny \/ StartInvocation \/ FinishInvocation =>
          /\ This \in CallIds
          /\ \E state \in InvocationStates \ {"RECONCILED"} : SetState(This, state)
    BY ThisType DEF IInv, Deny, StartInvocation, FinishInvocation, Goto, Placed, Dispatching,
                    InvocationStates
  <2> QED
    BY <1>1, <2>1
<1>5. CASE ReconcilePlain
  <2>1. PICK d \in Unfinished : PlainDecision(d) # None /\ WriteReconciled(d, PlainDecision(d))
    BY <1>5 DEF ReconcilePlain
  <2>2. d \in CallIds /\ PlainDecision(d) \in Decisions
    BY <2>1, DecisionTypes DEF Unfinished
  <2>3. d = c /\ inv'[c].rec = PlainDecision(c)
    BY <1>2, <2>1, <2>2
  <2>4. rcpt' = rcpt
    BY <1>5 DEF ReconcilePlain
  <2>5. Kind[c] = "read" => ~HasReceipt(c)
    BY DEF HasReceipt, EffectClass, None
  <2>6. /\ inv[c].state = "REQUESTED" =>
             rcpt[c] \in {None, "REQUEST_CREATED", "DISPATCH_STARTED"}
        /\ Kind[c] = "read" => rcpt[c] = None
    BY <2>5 DEF LedgerOK
  <2>7. SideEffectClass(Kind[c]) = "READ_ONLY" => Kind[c] = "read"
    BY DEF SideEffectClass
  <2> QED
    BY <2>1, <2>3, <2>4, <2>6, <2>7 DEF Agrees, PlainDecision, Settled, None
<1>6. CASE ReconcileWithoutReceipt
  <2>1. PICK d \in Unfinished, present \in Probe :
          rcpt[d] = None /\ WriteReconciled(d, ProbeDecision(present))
    BY <1>6 DEF ReconcileWithoutReceipt
  <2>2. d \in CallIds /\ ProbeDecision(present) \in Decisions
    BY <2>1, DecisionTypes DEF Unfinished
  <2>3. d = c
    BY <1>2, <2>1, <2>2
  <2> QED
    BY <1>6, <2>1, <2>3 DEF Agrees, ReconcileWithoutReceipt
<1>7. CASE ReconcileInvocation
  <2>1. /\ This \in CallIds /\ res \in Decisions /\ WriteReconciled(This, res) /\ rcpt' = rcpt
        /\ Agrees(This, res)
    BY <1>7, ThisType DEF ReconcileInvocation, Goto, IInv, Placed, LedgerOK
  <2> QED
    BY <1>2, <2>1
<1> QED
  BY <1>3, <1>4, <1>5, <1>6, <1>7, InvocationWrites

\* What a process has in hand between two commits.
LEMMA HandStep ==
  ASSUME IInv, IInv', ReceiptsOK, LedgerOK, [Next]_vars
  PROVE  /\ pc' = "reconciling" => Agrees(This, res)'
         /\ pc' = "acted" => acted'[This'] = 1
         /\ pc' = "returned" /\ res' = "SUCCESS" /\ Kind[This'] # "read" => acted'[This'] = 1
<1> SUFFICES ASSUME pc' \in {"acted", "returned", "reconciling"}
             PROVE  /\ pc' = "reconciling" => Agrees(This, res)'
                    /\ pc' = "acted" => acted'[This'] = 1
                    /\ pc' = "returned" /\ res' = "SUCCESS" /\ Kind[This'] # "read" =>
                         acted'[This'] = 1
  OBVIOUS
<1>1. CASE pc' = pc /\ todo' = todo /\ res' = res
  <2>1. This' = This /\ This \in CallIds
    BY <1>1, ThisType DEF This, IInv, Placed, Dispatching
  <2>2. pc = "reconciling" => inv[This].state = "STARTED"
    BY DEF IInv, Placed
  <2>3. pc = "reconciling" => rcpt' = rcpt
    BY <1>1, ReceiptWriters
    DEF BeginReceipt, DispatchReceipt, ToolCommits, RecordReceipt, ObserveReceipt,
        ReconcileReceipt, Goto
  <2>4. acted[This] = 1 => acted'[This] = 1
    BY <2>1, EffectStays
  <2> QED
    BY <1>1, <2>1, <2>3, <2>4 DEF LedgerOK, Agrees
<1>2. CASE ToolActs
  <2>1. This' = This /\ pc' = "acted"
    BY <1>2 DEF ToolActs, Goto, This
  <2> QED
    BY <1>2, <2>1, EffectStays
<1>3. CASE ToolCommits
  <2>1. This' = This /\ pc = "acted" /\ pc' = "returned" /\ This \in CallIds
    BY <1>3, ThisType DEF ToolCommits, Goto, This, IInv, Placed, Dispatching
  <2> QED
    BY <2>1, EffectStays DEF LedgerOK
<1>4. CASE ToolReturns
  <2>1. /\ This' = This /\ pc' = "returned" /\ This \in CallIds
        /\ pc = "acted" \/ Kind[This] = "read"
    BY <1>4, ThisType DEF ToolReturns, This, IInv, Placed, Dispatching
  <2> QED
    BY <2>1, EffectStays DEF LedgerOK
<1>5. CASE ToolFails
  BY <1>5 DEF ToolFails, Goto
<1>6. CASE ReconcileReceipt
  <2>1. PICK c \in Unfinished, present \in Probe :
          LET status == Reconcile(EffectClass(Kind[c]), rcpt[c], present)
          IN  /\ SetReceipt(c, status)
              /\ todo' = << c >> /\ res' = ReceiptDecision(status, present)
    BY <1>6 DEF ReconcileReceipt
  <2>2. c \in CallIds /\ This' = c
    BY <2>1 DEF Unfinished, This
  <2>3. res' = ReceiptDecision(rcpt'[c], present)
    BY <2>1, <2>2, SetReceiptFacts DEF IInv
  <2>4. pc' = "reconciling"
    BY <1>6 DEF ReconcileReceipt, Goto
  <2>5. ~(rcpt'[c] \in Settled /\ rcpt'[c] = "COMMIT_STATE_UNKNOWN")
    BY DEF Settled
  <2> QED
    BY <2>2, <2>3, <2>4, <2>5 DEF Agrees, ReceiptDecision, ProbeDecision
<1> QED
  BY <1>1, <1>2, <1>3, <1>4, <1>5, <1>6, WithResult

\* The receipts tell the truth before and after every commit.
LEMMA LedgerStep ==
  ASSUME IInv, IInv', ReceiptsOK, LedgerOK, [Next]_vars
  PROVE  LedgerOK'
<1>1. ASSUME NEW c \in CallIds
      PROVE  /\ inv'[c].state = "REQUESTED" =>
                  rcpt'[c] \in {None, "REQUEST_CREATED", "DISPATCH_STARTED"}
             /\ ~HasReceipt(c) => rcpt'[c] = None
             /\ inv'[c].state = "RECONCILED" => Agrees(c, inv[c].rec)'
             /\ Kind[c] \in External => (rcpt'[c] \in Settled => acted'[c] = 1)
                                        /\ rcpt'[c] # "RECONCILED"
  <2>1. /\ inv[c].state = "REQUESTED" => rcpt[c] \in {None, "REQUEST_CREATED", "DISPATCH_STARTED"}
        /\ ~HasReceipt(c) => rcpt[c] = None
        /\ inv[c].state = "RECONCILED" => Agrees(c, inv[c].rec)
        /\ Kind[c] \in External => (rcpt[c] \in Settled => acted[c] = 1) /\ rcpt[c] # "RECONCILED"
    BY DEF LedgerOK
  <2>2. CASE rcpt'[c] # rcpt[c]
    BY <1>1, <2>1, <2>2, ReceiptStep
  <2>3. CASE rcpt'[c] = rcpt[c]
    <3>1. acted[c] = 1 => acted'[c] = 1
      BY EffectStays
    <3>2. inv'[c].state = "REQUESTED" => inv[c].state = "REQUESTED" \/ rcpt[c] = None
      <4>1. CASE inv' = inv
        BY <4>1
      <4>2. CASE Request
        <5>1. /\ This \in CallIds /\ ~Known(This)
              /\ inv' = [inv EXCEPT ![This] = [state |-> "REQUESTED", ordinal |-> calls + 1,
                                               rec |-> None]]
          BY <4>2, ThisType DEF Request, IInv
        <5>2. c # This => inv'[c] = inv[c]
          BY <5>1 DEF IInv, TypeOK
        <5> QED
          BY <5>1, <5>2 DEF ReceiptsOK
      <4>3. CASE Deny \/ StartInvocation \/ FinishInvocation
        <5>1. /\ This \in CallIds
              /\ \E state \in InvocationStates \ {"REQUESTED"} : SetState(This, state)
          BY <4>3, ThisType DEF IInv, Deny, StartInvocation, FinishInvocation, Goto, Placed,
                                Dispatching, InvocationStates
        <5> QED
          BY <5>1, SetStateFacts DEF IInv
      <4>4. CASE \E d \in CallIds, decision \in Decisions : WriteReconciled(d, decision)
        BY <4>4, WriteReconciledFacts DEF IInv
      <4> QED
        BY <4>1, <4>2, <4>3, <4>4, InvocationWrites, ReconciledCall
    <3>3. inv'[c].state = "RECONCILED" => Agrees(c, inv[c].rec)'
      <4>1. CASE inv'[c] = inv[c]
        BY <2>1, <2>3, <4>1 DEF Agrees
      <4>2. CASE inv'[c] # inv[c] /\ inv'[c].state = "RECONCILED"
        BY <2>3, <4>2, DecisionAgrees DEF Agrees
      <4> QED
        BY <4>1, <4>2
    <3> QED
      BY <2>1, <2>3, <3>1, <3>2, <3>3
  <2> QED
    BY <2>2, <2>3
<1> QED
  BY <1>1, HandStep DEF LedgerOK, HasReceipt

LEMMA LedgerInductive == Spec => [](IInv /\ LedgerOK)
<1>1. Init => ReceiptsOK /\ LedgerOK
  BY DEF Init, ReceiptsOK, LedgerOK, NoInvocation, Settled, None
<1>2. IInv /\ IInv' /\ ReceiptsOK /\ LedgerOK /\ [Next]_vars => ReceiptsOK' /\ LedgerOK'
  BY ReceiptsInductive, LedgerStep
<1> QED
  BY <1>1, <1>2, KernelInductive, PTL DEF Spec

\* The decision in the invocation ledger and the receipt never contradict each
\* other, although a process may die between the two commits that write them.
THEOREM LedgersNeverDisagree == Spec => []LedgersAgree
<1>1. IInv /\ LedgerOK => LedgersAgree
  <2> SUFFICES ASSUME IInv, LedgerOK, NEW c \in CallIds, inv[c].state = "RECONCILED",
                      rcpt[c] # None
               PROVE  LET replay == ReplayDecision(EffectClass(Kind[c]), rcpt[c], Keyed)
                      IN  /\ replay = "REUSE_COMMITTED" => inv[c].rec = "DO_NOT_RETRY"
                          /\ inv[c].rec = "UNKNOWN" => replay = "REQUIRE_HUMAN"
                          /\ rcpt[c] = "COMMIT_STATE_UNKNOWN" => inv[c].rec = "UNKNOWN"
    BY DEF LedgersAgree
  <2>1. /\ rcpt[c] \in Settled => inv[c].rec = "DO_NOT_RETRY"
        /\ rcpt[c] = "COMMIT_STATE_UNKNOWN" => inv[c].rec = "UNKNOWN"
        /\ inv[c].rec = "UNKNOWN" => rcpt[c] = "COMMIT_STATE_UNKNOWN"
    BY DEF LedgerOK, Agrees
  <2>2. rcpt[c] \in ReceiptStatuses
    BY DEF IInv, TypeOK
  <2> DEFINE replay == ReplayDecision(EffectClass(Kind[c]), rcpt[c], Keyed)
  <2>3. replay = "REUSE_COMMITTED" => rcpt[c] \in Settled
    BY <2>2 DEF ReplayDecision, ReceiptStatuses, Settled
  <2>4. rcpt[c] = "COMMIT_STATE_UNKNOWN" => replay = "REQUIRE_HUMAN"
    BY DEF ReplayDecision, Settled
  <2> QED
    BY <2>1, <2>3, <2>4
<1> QED
  BY <1>1, LedgerInductive, PTL

\* The receipt of an external effect never claims a commit before the effect, and
\* is never reconciled as absent (RecordReceipt, Reconcile).
THEOREM ExternalReceiptsAreHonest == Spec => []ExternalReceiptsHonest
<1>1. LedgerOK => ExternalReceiptsHonest
  BY DEF LedgerOK, External, ExternalReceiptsHonest
<1> QED
  BY <1>1, LedgerInductive, PTL
============================================================================
