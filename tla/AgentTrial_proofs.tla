------------------------- MODULE AgentTrial_proofs --------------------------
(***************************************************************************)
(* Proofs about one Phase 5 trial, for every set of calls, results and     *)
(* arms and every budget.                                                  *)
(*                                                                         *)
(* The gate keeps the last two attempts of a call.  When a call is         *)
(* released, the repeat rule looks at the last one only; the invariant     *)
(* says that the one before it was looked at when the last was released,   *)
(* so that no attempt in the gate's memory is an effect that a release     *)
(* would repeat.                                                           *)
(***************************************************************************)
EXTENDS AgentTrial, TLAPS

Places == {"setup", "adapter", "core", "tool", "classify", "done"}
Concluding == {"classify", "done"}
Conditions == {"clear", "NOT_READY", "DECLARED_UNKNOWN"}
AttemptRecords == [res : Results, state : [Keys -> Conditions] \X BOOLEAN]
Gates ==
  [ cond : [Keys -> Conditions], unsafe : BOOLEAN, att : [Calls -> Seq(AttemptRecords)],
    terminal : BOOLEAN ]
Slots == [call : Calls, index : Nat, retry : BOOLEAN]
Holdings == [queue : Seq(Slots), released : Seq(Slots)]
MaybeCalls == Calls \cup {NoCall}
Cores ==
  [ flag : BOOLEAN, kind : {"NONE", "STOP", "ESCALATION", "BUDGET_EXHAUSTION"},
    pending : {"none", "retry", "retry_with_context", "escalate", "stop"},
    pcall : MaybeCalls, last : MaybeCalls, batch : Seq(Calls), processed : SUBSET Nat,
    used : Nat, replanned : SUBSET MaybeCalls, unresolved : SUBSET {Tool[c] : c \in Calls},
    positive : BOOLEAN, final : {"none", "answer", "blocked", "terminated"} ]
EndReasons ==
  BudgetReasons \cup
  { "pending", "completed", "provider_transport_failure", "provider_protocol_failure",
    "policy_error", "runtime_validator_error", "infrastructure_error", "evidence_ledger_error",
    "toolmaze_unavailable", "treatment_component_error" }
Validities == {"pending", "VALID", "INVALID_INFRA"}
Trials ==
  [ arm : TrialArms, mode : RouteModes, tokens : TokenBudgets, rounds : Nat,
    reason : EndReasons, validity : Validities ]

TrialTyped ==
  /\ trial \in Trials /\ pc \in Places /\ gate \in Gates /\ core \in Cores /\ held \in Holdings
  /\ pc = "tool" => held.released # << >>

\* An answer and a stop of the gate end the trial.
StopsEnd ==
  /\ core.final = "answer" => pc \in Concluding
  /\ gate.terminal => pc \in Concluding

\* An attempt whose effect may be had again.
Repeatable(a) == ExecStatus(a.res) = "SUCCEEDED" => a.res.receipt

EarlierRepeatable ==
  \A c \in Calls \cap (SideEffect \ Idempotent) : \A i \in 1..Len(gate.att[c]) :
    i < Len(gate.att[c]) => Repeatable(gate.att[c][i])

TrialInv == TrialTyped /\ StopsEnd /\ AnswerIsBacked /\ EarlierRepeatable /\ EffectNotRepeated

\* Every initial state satisfies the invariant.
LEMMA TrialStart == Init => TrialInv
<1> SUFFICES ASSUME Init PROVE TrialInv
  OBVIOUS
<1>1. trial \in Trials
  BY DEF Init, Trials, EndReasons, Validities
<1>2. NewGate \in Gates /\ NewGate.terminal = FALSE /\ \A c \in Calls : Len(NewGate.att[c]) = 0
  BY DEF NewGate, Gates, Conditions
<1>3. NewCore \in Cores /\ NewCore.final = "none"
  BY DEF NewCore, Cores, MaybeCalls
<1>4. held \in Holdings
  BY DEF Init, Holdings
<1>5. gate = NewGate /\ core = NewCore /\ pc = "setup"
  BY DEF Init
<1>6. TrialTyped
  BY <1>1, <1>2, <1>3, <1>4, <1>5 DEF TrialTyped, Places
<1> QED
  BY <1>2, <1>3, <1>5, <1>6
  DEF TrialInv, StopsEnd, AnswerIsBacked, EarlierRepeatable, EffectNotRepeated

\* A step that observes no result and releases no call.
LEMMA QuietStep ==
  ASSUME TrialInv, trial' \in Trials, pc' \in Places \ {"tool"}, gate' \in Gates, core' \in Cores,
         held' \in Holdings, gate'.att = gate.att, StopsEnd', AnswerIsBacked'
  PROVE  TrialInv'
<1>1. TrialTyped'
  BY DEF TrialTyped
<1>2. EarlierRepeatable' /\ EffectNotRepeated'
  BY DEF TrialInv, EarlierRepeatable, EffectNotRepeated
<1> QED
  BY <1>1, <1>2 DEF TrialInv

\* While control is in the trial nothing was answered and the gate is open.
LEMMA NotYetEnded ==
  TrialInv /\ pc \notin Concluding => core.final # "answer" /\ ~gate.terminal
  BY DEF TrialInv, StopsEnd

\* A trial that ends for a reason keeps its arm.
LEMMA EndIsTyped ==
  ASSUME trial \in Trials, NEW reason \in EndReasons, End(reason)
  PROVE  trial' \in Trials /\ trial'.arm = trial.arm /\ pc' = "classify"
  BY DEF End, Trials

\* What is cleared before the model is asked says nothing of the results.
LEMMA ClearedIsCore ==
  ASSUME core \in Cores
  PROVE  /\ Cleared \in Cores
         /\ Cleared.final = core.final /\ Cleared.unresolved = core.unresolved
         /\ Cleared.positive = core.positive /\ Cleared.flag = core.flag
<1>1. /\ NoCall \in MaybeCalls /\ << >> \in Seq(Calls) /\ {} \in SUBSET Nat
  BY DEF MaybeCalls
<1>2. Cleared = [core EXCEPT !.pending = "none", !.pcall = NoCall, !.batch = << >>,
                             !.processed = {}]
  BY DEF Cleared
<1>3. Cleared \in Cores
  BY <1>1, <1>2 DEF Cores
<1> QED
  BY <1>2, <1>3 DEF Cores

\* A batch that the adapter takes over is typed, and begins with a safe gate.
LEMMA HoldIsTyped ==
  ASSUME gate \in Gates, NEW calls \in Seq(Calls), NEW retry \in BOOLEAN, Hold(calls, retry)
  PROVE  /\ held' \in Holdings /\ gate' \in Gates /\ pc' = "adapter"
         /\ gate'.att = gate.att /\ gate'.terminal = gate.terminal
<1> DEFINE q == [i \in 1..Len(calls) |-> [call |-> calls[i], index |-> i, retry |-> retry]]
<1>1. q \in Seq(Slots)
  <2>1. \A i \in 1..Len(calls) : [call |-> calls[i], index |-> i, retry |-> retry] \in Slots
    BY DEF Slots
  <2>2. q \in [1..Len(calls) -> Slots] /\ Len(calls) \in Nat
    BY <2>1
  <2> QED
    BY <2>2
<1>2. held' = [queue |-> q, released |-> << >>]
  BY DEF Hold
<1> HIDE DEF q
<1>3. << >> \in Seq(Slots)
  OBVIOUS
<1>4. held' \in Holdings
  BY <1>1, <1>2, <1>3 DEF Holdings
<1>5. gate' = [gate EXCEPT !.unsafe = FALSE] /\ pc' = "adapter"
  BY DEF Hold
<1>6. gate' \in Gates /\ gate'.att = gate.att /\ gate'.terminal = gate.terminal
  BY <1>5 DEF Gates
<1> QED
  BY <1>4, <1>5, <1>6

\* A route is one of five, and becomes one of four recovery actions.
LEMMA RouteIsAction ==
  ASSUME NEW mode, NEW act, NEW g, NEW c, NEW terminal, NEW replanned
  PROVE  RouteAction(Route(mode, act, g, c, terminal, replanned))
           \in {"retry", "retry_with_context", "escalate", "stop"}
<1> DEFINE r == Route(mode, act, g, c, terminal, replanned)
<1>1. r \in {"STOP", "ESCALATE", "RETRY_CHANGED", "RETRY_SAME", "REPLAN"}
  BY DEF Route, ReplanOrEscalate
<1> HIDE DEF r
<1>2. RouteAction("RETRY_SAME") = "retry" /\ RouteAction("STOP") = "stop"
  BY DEF RouteAction
<1>3. RouteAction("ESCALATE") = "escalate"
  BY DEF RouteAction
<1>4. /\ RouteAction("RETRY_CHANGED") = "retry_with_context"
      /\ RouteAction("REPLAN") = "retry_with_context"
  BY DEF RouteAction
<1> QED
  BY <1>1, <1>2, <1>3, <1>4 DEF r

\* Recovery decides what is done next; it leaves the results and the answer.
LEMMA RecoveryIsCore ==
  ASSUME NEW c \in Cores, NEW g, NEW act, NEW call \in MaybeCalls
  PROVE  /\ AuthorizeRecovery(c, g, act, call) \in Cores
         /\ AuthorizeRecovery(c, g, act, call).final = c.final
<1> DEFINE route == Route(trial.mode, act, g, call, g.terminal \/ c.flag, call \in c.replanned)
           todo == RouteAction(route)
           more == c.replanned \cup {call}
           known == IF route = "REPLAN" THEN [c EXCEPT !.replanned = more] ELSE c
           taken == [known EXCEPT !.pending = todo, !.pcall = call]
<1>1. todo \in {"retry", "retry_with_context", "escalate", "stop"}
  BY RouteIsAction
<1>2. \/ AuthorizeRecovery(c, g, act, call) = c
      \/ AuthorizeRecovery(c, g, act, call) = [taken EXCEPT !.kind = "STOP"]
      \/ AuthorizeRecovery(c, g, act, call) = [taken EXCEPT !.kind = "ESCALATION"]
      \/ AuthorizeRecovery(c, g, act, call)
           = [known EXCEPT !.flag = TRUE, !.kind = "BUDGET_EXHAUSTION"]
      \/ AuthorizeRecovery(c, g, act, call) = [taken EXCEPT !.used = taken.used + 1]
      \/ AuthorizeRecovery(c, g, act, call) = [taken EXCEPT !.used = taken.used]
  BY DEF AuthorizeRecovery
<1> HIDE DEF todo, route
<1>3. known \in Cores /\ known.final = c.final
  <2>1. more \in SUBSET MaybeCalls
    BY DEF Cores
  <2> HIDE DEF more
  <2> QED
    BY <2>1 DEF Cores
<1> HIDE DEF known
<1>4. taken \in Cores /\ taken.final = c.final
  BY <1>1, <1>3 DEF Cores
<1> DEFINE out == AuthorizeRecovery(c, g, act, call)
           more1 == taken.used + 1
<1>9. \/ out = c
      \/ out = [taken EXCEPT !.kind = "STOP"]
      \/ out = [taken EXCEPT !.kind = "ESCALATION"]
      \/ out = [known EXCEPT !.flag = TRUE, !.kind = "BUDGET_EXHAUSTION"]
      \/ out = [taken EXCEPT !.used = more1]
      \/ out = [taken EXCEPT !.used = taken.used]
  BY <1>2
<1> HIDE DEF taken, out
<1>5. more1 \in Nat /\ taken.used \in Nat
  BY <1>4 DEF Cores
<1> HIDE DEF more1
<1>6. ASSUME out = [taken EXCEPT !.kind = "STOP"] \/ out = [taken EXCEPT !.kind = "ESCALATION"]
      PROVE  out \in Cores /\ out.final = c.final
  BY <1>4, <1>6 DEF Cores
<1>7. ASSUME out = [known EXCEPT !.flag = TRUE, !.kind = "BUDGET_EXHAUSTION"]
      PROVE  out \in Cores /\ out.final = c.final
  BY <1>3, <1>7 DEF Cores
<1>8. ASSUME out = [taken EXCEPT !.used = more1] \/ out = [taken EXCEPT !.used = taken.used]
      PROVE  out \in Cores /\ out.final = c.final
  BY <1>4, <1>5, <1>8 DEF Cores
<1>10. out \in Cores /\ out.final = c.final
  BY <1>6, <1>7, <1>8, <1>9
<1> QED
  BY <1>10 DEF out

\* The first and the last steps of a trial.
LEMMA OuterStep ==
  ASSUME TrialInv, Setup \/ AskCore \/ Terminated \/ Escalated \/ Conclude
  PROVE  TrialInv'
<1>0. trial \in Trials /\ pc \in Places /\ gate \in Gates /\ core \in Cores /\ held \in Holdings
  BY DEF TrialInv, TrialTyped
<1>1. CASE Setup
  <2>1. trial' \in Trials /\ pc' \in {"adapter", "done"}
    BY <1>0, <1>1 DEF Setup, Unwired, Trials, EndReasons, Validities
  <2>2. UNCHANGED << gate, core, held >> /\ pc \notin Concluding
    BY <1>1 DEF Setup, Concluding
  <2>3. StopsEnd' /\ AnswerIsBacked'
    BY <2>2, NotYetEnded DEF StopsEnd, AnswerIsBacked
  <2> QED
    BY <1>0, <2>1, <2>2, <2>3, QuietStep DEF Places
<1>2. CASE AskCore
  <2>1. UNCHANGED << trial, gate, core, held >> /\ pc' = "core" /\ pc \notin Concluding
    BY <1>2 DEF AskCore, Concluding
  <2>2. StopsEnd' /\ AnswerIsBacked'
    BY <2>1, NotYetEnded DEF StopsEnd, AnswerIsBacked
  <2> QED
    BY <1>0, <2>1, <2>2, QuietStep DEF Places
<1>3. CASE Terminated \/ Escalated
  <2>1. End("completed") /\ UNCHANGED << gate, held >>
    BY <1>3 DEF Terminated, Escalated, Finish
  <2>2. trial' \in Trials /\ pc' = "classify"
    BY <1>0, <2>1, EndIsTyped DEF EndReasons
  <2>3. core' \in Cores /\ core'.final = "terminated"
    BY <1>0, <1>3 DEF Terminated, Escalated, Finish, Cores, MaybeCalls
  <2>4. StopsEnd' /\ AnswerIsBacked'
    BY <2>2, <2>3 DEF StopsEnd, AnswerIsBacked, Concluding
  <2> QED
    BY <1>0, <2>1, <2>2, <2>3, <2>4, QuietStep DEF Places
<1>4. CASE Conclude
  <2>1. /\ UNCHANGED << gate, core, held >> /\ pc' = "done"
        /\ \E graderError \in BOOLEAN :
             trial' = [trial EXCEPT !.validity = Validity(trial.reason, graderError)]
    BY <1>4 DEF Conclude
  <2>2. \A graderError \in BOOLEAN : Validity(trial.reason, graderError) \in Validities
    BY DEF Validity, Validities
  <2>3. trial' \in Trials /\ trial'.arm = trial.arm
    BY <1>0, <2>1, <2>2 DEF Trials
  <2>4. StopsEnd' /\ AnswerIsBacked'
    BY <2>1, <2>3 DEF TrialInv, StopsEnd, AnswerIsBacked, Concluding
  <2> QED
    BY <1>0, <2>1, <2>3, <2>4, QuietStep DEF Places
<1> QED
  BY <1>1, <1>2, <1>3, <1>4

\* A retained call is refused, or the rest of the batch is.
LEMMA RefusedIsCore ==
  ASSUME NEW c \in Cores, NEW q \in Seq(Slots), NEW s \in Slots
  PROVE  /\ BlockRemaining(c, q) \in Cores /\ BlockRemaining(c, q).final = c.final
         /\ Blocked(c, s) \in Cores /\ Blocked(c, s).final = c.final
<1>1. Len(c.batch) \in Nat /\ s.index \in Nat
  BY DEF Cores, Slots
<1> DEFINE more == c.processed \cup ({ q[i].index : i \in 1..Len(q) } \cap 1..Len(c.batch))
           one == c.processed \cup {s.index}
<1>2. more \in SUBSET Nat /\ one \in SUBSET Nat
  BY <1>1 DEF Cores
<1>3. /\ BlockRemaining(c, q) = [c EXCEPT !.processed = more]
      /\ Blocked(c, s) = [c EXCEPT !.processed = one] \/ Blocked(c, s) = c
  BY DEF BlockRemaining, Blocked
<1> HIDE DEF more, one
<1> QED
  BY <1>2, <1>3 DEF Cores

\* Tails and heads of what is held are slots.
LEMMA QueueIsTyped ==
  ASSUME held \in Holdings, held.queue # << >>
  PROVE  /\ Head(held.queue) \in Slots /\ Tail(held.queue) \in Seq(Slots)
         /\ [held EXCEPT !.queue = << >>] \in Holdings
         /\ [held EXCEPT !.queue = Tail(held.queue)] \in Holdings
         /\ [queue |-> Tail(held.queue), released |-> << Head(held.queue) >>] \in Holdings
<1>1. held.queue \in Seq(Slots)
  BY DEF Holdings
<1>2. Head(held.queue) \in Slots /\ Tail(held.queue) \in Seq(Slots)
  BY <1>1
<1>3. << >> \in Seq(Slots) /\ << Head(held.queue) >> \in Seq(Slots)
  BY <1>2
<1> QED
  BY <1>2, <1>3 DEF Holdings

\* The adapter's steps.  A call it releases was allowed by the repeat rule, so
\* the last attempt the gate remembers of it may be had again as well.
LEMMA AdapterStep ==
  ASSUME TrialInv, HaltHeld \/ Propose
  PROVE  TrialInv'
<1>0. trial \in Trials /\ pc \in Places /\ gate \in Gates /\ core \in Cores /\ held \in Holdings
  BY DEF TrialInv, TrialTyped
<1>1. pc = "adapter" /\ held.queue # << >> /\ core.final # "answer" /\ ~gate.terminal
  BY NotYetEnded DEF HaltHeld, Propose, MayPropose, Concluding
<1>2. held.queue \in Seq(Slots) /\ Head(held.queue) \in Slots
  BY <1>0, <1>1, QueueIsTyped DEF Holdings
<1>3. CASE HaltHeld
  <2>1. /\ core' = BlockRemaining(core, held.queue) /\ held' = [held EXCEPT !.queue = << >>]
        /\ UNCHANGED << trial, pc, gate >>
    BY <1>3 DEF HaltHeld
  <2>2. core' \in Cores /\ core'.final = core.final /\ held' \in Holdings
    BY <1>0, <1>1, <1>2, <2>1, RefusedIsCore, QueueIsTyped
  <2>3. StopsEnd' /\ AnswerIsBacked'
    BY <1>1, <2>1, <2>2 DEF StopsEnd, AnswerIsBacked
  <2> QED
    BY <1>0, <1>1, <2>1, <2>2, <2>3, QuietStep DEF Places
<1>4. CASE Propose
  <2> DEFINE record == Head(held.queue)
             rule == Authorize(gate, record.call, record.retry)
  <2>1. CASE /\ rule = "ALLOW" /\ pc' = "tool" /\ UNCHANGED << trial, gate, core >>
             /\ held' = [queue |-> Tail(held.queue), released |-> << record >>]
    <3>1. record.call \in Calls
      BY <1>2 DEF Slots
    <3>2. held' \in Holdings /\ held'.released = << record >> /\ held'.released[1] = record
      BY <1>0, <1>1, <2>1, QueueIsTyped
    <3>3. TrialTyped'
      BY <1>0, <2>1, <3>2 DEF TrialTyped, Places
    <3>4. StopsEnd' /\ AnswerIsBacked' /\ EarlierRepeatable'
      BY <1>1, <2>1 DEF TrialInv, StopsEnd, AnswerIsBacked, EarlierRepeatable
    <3>5. EffectNotRepeated'
      <4> DEFINE a == gate.att[record.call]
      <4> SUFFICES ASSUME record.call \in SideEffect \ Idempotent, NEW i \in 1..Len(a)
                   PROVE  Repeatable(a[i])
        BY <2>1, <3>2 DEF EffectNotRepeated, Released, Repeatable
      <4>1. a \in Seq(AttemptRecords)
        BY <1>0, <3>1 DEF Gates
      <4>2. CASE i < Len(a)
        BY <3>1, <4>2 DEF TrialInv, EarlierRepeatable
      <4>3. CASE i = Len(a)
        <5>1. a # << >> /\ LastResult(gate, record.call) = a[i].res
          <6>1. record.call # NoCall
            BY <3>1, TrialConstants
          <6>2. Attempts(gate, record.call) = a
            BY <6>1 DEF Attempts
          <6>3. LastResult(gate, record.call) = a[Len(a)].res
            BY <6>2 DEF LastResult
          <6> QED
            BY <4>1, <4>3, <6>3
        <5>2. EvaluateRepeat(gate, record.call) = "ALLOW"
          BY <2>1 DEF Authorize
        <5>3. ~(/\ record.call \in SideEffect \ Idempotent
                /\ ExecStatus(LastResult(gate, record.call)) = "SUCCEEDED"
                /\ ~LastResult(gate, record.call).receipt)
          BY <5>1, <5>2 DEF EvaluateRepeat
        <5> QED
          BY <5>1, <5>3 DEF Repeatable
      <4> QED
        BY <4>1, <4>2, <4>3
    <3> QED
      BY <3>3, <3>4, <3>5 DEF TrialInv
  <2>2. CASE /\ held' = [held EXCEPT !.queue = Tail(held.queue)]
             /\ core' = Blocked(core, record) /\ UNCHANGED << trial, pc, gate >>
    <3>1. core' \in Cores /\ core'.final = core.final /\ held' \in Holdings
      BY <1>0, <1>1, <1>2, <2>2, RefusedIsCore, QueueIsTyped
    <3>2. StopsEnd' /\ AnswerIsBacked'
      BY <1>1, <2>2, <3>1 DEF StopsEnd, AnswerIsBacked
    <3> QED
      BY <1>0, <1>1, <2>2, <3>1, <3>2, QuietStep DEF Places
  <2>3. CASE /\ held' = [held EXCEPT !.queue = << >>]
             /\ core' = [BlockRemaining(core, held.queue) EXCEPT
                           !.flag = TRUE, !.kind = "STOP", !.final = "terminated"]
             /\ gate' = [gate EXCEPT !.terminal = TRUE]
             /\ End("completed")
    <3>1. trial' \in Trials /\ pc' = "classify"
      BY <1>0, <2>3, EndIsTyped DEF EndReasons
    <3>2. BlockRemaining(core, held.queue) \in Cores
      BY <1>0, <1>2, RefusedIsCore
    <3>3. core' \in Cores /\ core'.final = "terminated"
      BY <2>3, <3>2 DEF Cores
    <3>4. gate' \in Gates /\ gate'.att = gate.att /\ held' \in Holdings
      BY <1>0, <1>1, <2>3, QueueIsTyped DEF Gates
    <3>5. StopsEnd' /\ AnswerIsBacked'
      BY <3>1, <3>3 DEF StopsEnd, AnswerIsBacked, Concluding
    <3> QED
      BY <3>1, <3>3, <3>4, <3>5, QuietStep DEF Places
  <2> QED
    BY <1>4, <2>1, <2>2, <2>3 DEF Propose
<1> QED
  BY <1>3, <1>4

\* The model is asked, or cannot be.
LEMMA ModelStep ==
  ASSUME TrialInv, CannotAsk \/ OutOfTokens \/ ProviderFails \/ ValidatorFails
  PROVE  TrialInv'
<1>0. trial \in Trials /\ pc \in Places /\ gate \in Gates /\ core \in Cores /\ held \in Holdings
  BY DEF TrialInv, TrialTyped
<1>1. pc = "core" /\ core' = Cleared /\ UNCHANGED << gate, held >>
  BY DEF CannotAsk, OutOfTokens, ProviderFails, ValidatorFails, AsksModel, MayAsk, Request
<1>2. core' \in Cores /\ core'.final # "answer"
  BY <1>0, <1>1, ClearedIsCore, NotYetEnded DEF Concluding
<1>3. trial' \in Trials /\ pc' = "classify"
  <2>1. CASE \E reason \in EndReasons : End(reason)
    BY <1>0, <2>1, EndIsTyped
  <2>2. CASE ValidatorFails
    BY <1>0, <2>2 DEF ValidatorFails, Trials, EndReasons, Validities
  <2>3. CASE CannotAsk \/ OutOfTokens \/ ProviderFails
    <3>1. \E reason \in EndReasons : End(reason)
      <4>1. \A x, y : Exhausted(x, y) => \E reason \in BudgetReasons : End(reason)
        BY DEF Exhausted, BudgetReasons
      <4>2. CASE CannotAsk
        BY <4>1, <4>2 DEF CannotAsk, EndReasons
      <4>3. CASE OutOfTokens
        BY <4>1, <4>3 DEF OutOfTokens, EndReasons
      <4>4. CASE ProviderFails
        BY <4>4 DEF ProviderFails, EndReasons
      <4> QED
        BY <2>3, <4>2, <4>3, <4>4
    <3> QED
      BY <2>1, <3>1
  <2> QED
    BY <2>2, <2>3
<1>4. StopsEnd' /\ AnswerIsBacked'
  BY <1>2, <1>3 DEF StopsEnd, AnswerIsBacked, Concluding
<1> QED
  BY <1>0, <1>1, <1>2, <1>3, <1>4, QuietStep DEF Places

\* A batch, from the model or as a replay.
LEMMA BatchStep ==
  ASSUME TrialInv, ProposeBatch \/ Replay
  PROVE  TrialInv'
<1>0. trial \in Trials /\ pc \in Places /\ gate \in Gates /\ core \in Cores /\ held \in Holdings
  BY DEF TrialInv, TrialTyped
<1>1. pc = "core" /\ UNCHANGED trial /\ core.final # "answer" /\ ~gate.terminal
  BY NotYetEnded DEF ProposeBatch, Replay, Request, MayAsk, AsksModel, Concluding
<1>2. \E calls \in Seq(Calls), retry \in BOOLEAN :
        Hold(calls, retry) /\ core' \in Cores /\ core'.final = core.final
  <2>1. CASE ProposeBatch
    <3>1. PICK calls \in Batches :
            /\ core' = [Cleared EXCEPT !.batch = calls, !.last = calls[1]]
            /\ Hold(calls, FALSE)
      BY <2>1 DEF ProposeBatch
    <3>2. PICK n \in 1..MaxBatch : calls \in [1..n -> Calls]
      BY <3>1 DEF Batches
    <3>3. n \in Nat \ {0}
      BY <3>2, TrialConstants
    <3>4. calls \in Seq(Calls) /\ calls[1] \in Calls
      BY <3>2, <3>3
    <3>5. core' \in Cores /\ core'.final = core.final
      BY <1>0, <3>1, <3>4, ClearedIsCore DEF Cores, MaybeCalls
    <3> QED
      BY <3>1, <3>4, <3>5
  <2>2. CASE Replay
    <3>1. RetrySource \in Calls
      <4>1. core.pcall \in MaybeCalls /\ core.last \in MaybeCalls
        BY <1>0 DEF Cores
      <4>2. RetrySource = core.pcall \/ RetrySource = core.last
        BY DEF RetrySource
      <4>3. RetrySource # NoCall
        BY <2>2 DEF Replay
      <4>4. \A x \in MaybeCalls : x # NoCall => x \in Calls
        BY DEF MaybeCalls
      <4> QED
        BY <4>1, <4>2, <4>3, <4>4
    <3>2. << RetrySource >> \in Seq(Calls) /\ Hold(<< RetrySource >>, TRUE)
      <4>1. \A x \in Calls : << x >> \in Seq(Calls)
        OBVIOUS
      <4>2. Hold(<< RetrySource >>, TRUE)
        BY <2>2 DEF Replay
      <4> QED
        BY <3>1, <4>1, <4>2
    <3>3. core' = [core EXCEPT !.pending = "none", !.pcall = NoCall, !.last = RetrySource,
                               !.batch = << >>, !.processed = {}]
      BY <2>2 DEF Replay
    <3>4. core' \in Cores /\ core'.final = core.final
      <4> DEFINE source == RetrySource
      <4>1. /\ source \in MaybeCalls /\ NoCall \in MaybeCalls
            /\ << >> \in Seq(Calls) /\ {} \in SUBSET Nat
        BY <3>1 DEF MaybeCalls
      <4>2. core' = [core EXCEPT !.pending = "none", !.pcall = NoCall, !.last = source,
                                 !.batch = << >>, !.processed = {}]
        BY <3>3
      <4> HIDE DEF source
      <4> QED
        BY <1>0, <4>1, <4>2 DEF Cores
    <3> QED
      BY <3>2, <3>4
  <2> QED
    BY <2>1, <2>2
<1>3. /\ held' \in Holdings /\ gate' \in Gates /\ pc' = "adapter"
      /\ gate'.att = gate.att /\ gate'.terminal = gate.terminal
  BY <1>0, <1>2, HoldIsTyped
<1>4. StopsEnd' /\ AnswerIsBacked'
  BY <1>1, <1>2, <1>3 DEF StopsEnd, AnswerIsBacked
<1> QED
  BY <1>0, <1>1, <1>2, <1>3, <1>4, QuietStep DEF Places

\* The model answers: what a validating arm returns was accepted.
LEMMA AnswerStep ==
  ASSUME TrialInv, Answer
  PROVE  TrialInv'
<1>0. trial \in Trials /\ pc \in Places /\ gate \in Gates /\ core \in Cores /\ held \in Holdings
  BY DEF TrialInv, TrialTyped
<1>1. pc = "core" /\ UNCHANGED << gate, held >> /\ core.final # "answer" /\ ~gate.terminal
  BY NotYetEnded DEF Answer, Request, MayAsk, AsksModel, Concluding
<1>2. /\ Cleared \in Cores /\ Cleared.final = core.final
      /\ Cleared.unresolved = core.unresolved /\ Cleared.positive = core.positive
  BY <1>0, ClearedIsCore
<1>3. CASE \E empty \in BOOLEAN :
             /\ ~Validates(trial.arm) \/ Verdict(empty, core.unresolved, core.positive) = "ACCEPT"
             /\ core' = [Cleared EXCEPT !.final = "answer"]
             /\ End("completed")
  <2>1. trial' \in Trials /\ trial'.arm = trial.arm /\ pc' = "classify"
    BY <1>0, <1>3, EndIsTyped DEF EndReasons
  <2>2. /\ core' \in Cores /\ core'.unresolved = core.unresolved
        /\ core'.positive = core.positive
    BY <1>2, <1>3 DEF Cores
  <2>3. Validates(trial.arm) => core.unresolved = {} /\ core.positive
    BY <1>3 DEF Verdict
  <2>4. StopsEnd' /\ AnswerIsBacked'
    BY <2>1, <2>2, <2>3 DEF StopsEnd, AnswerIsBacked, Concluding
  <2> QED
    BY <1>0, <1>1, <2>1, <2>2, <2>4, QuietStep DEF Places
<1>4. CASE core' = [Cleared EXCEPT !.final = "blocked"] /\ End("completed")
  <2>1. trial' \in Trials /\ pc' = "classify"
    BY <1>0, <1>4, EndIsTyped DEF EndReasons
  <2>2. core' \in Cores /\ core'.final = "blocked"
    BY <1>2, <1>4 DEF Cores
  <2>3. StopsEnd' /\ AnswerIsBacked'
    BY <2>1, <2>2 DEF StopsEnd, AnswerIsBacked, Concluding
  <2> QED
    BY <1>0, <1>1, <2>1, <2>2, <2>3, QuietStep DEF Places
<1>5. CASE Rejected
  <2> DEFINE c == AuthorizeRecovery(Cleared, gate, Delegate("VALIDATION_REJECT", strat.attempt + 1),
                                    core.last)
  <2>1. c \in Cores /\ c.final = core.final
    BY <1>0, <1>2, RecoveryIsCore DEF Cores
  <2>2. \/ core' = [c EXCEPT !.final = "terminated"] /\ End("completed")
        \/ core' = c /\ UNCHANGED << trial, pc >>
    BY <1>5 DEF Rejected
  <2> HIDE DEF c
  <2>3. core' \in Cores /\ core'.final # "answer"
    BY <1>1, <2>1, <2>2 DEF Cores
  <2>4. trial' \in Trials /\ pc' \in {"classify", "core"}
    BY <1>0, <1>1, <2>2, EndIsTyped DEF EndReasons
  <2>5. StopsEnd' /\ AnswerIsBacked'
    BY <1>1, <2>3 DEF StopsEnd, AnswerIsBacked
  <2> QED
    BY <1>0, <1>1, <2>3, <2>4, <2>5, QuietStep DEF Places
<1> QED
  BY <1>3, <1>4, <1>5 DEF Answer

\* An observed result is the last attempt the gate remembers of its call, and
\* what it remembered before was checked when the call was released.
LEMMA ObserveKeeps ==
  ASSUME TrialInv, pc = "tool", NEW res \in Results
  PROVE  LET c == Released.call
             g == Observe(gate, c, res) IN
         /\ c \in Calls /\ Released \in Slots
         /\ g \in Gates /\ g.terminal = gate.terminal
         /\ \A d \in Calls \cap (SideEffect \ Idempotent) : \A i \in 1..Len(g.att[d]) :
              i < Len(g.att[d]) => Repeatable(g.att[d][i])
<1> DEFINE c == Released.call
           cond == UpdatedConditions(gate, c, res)
           unsafe == gate.unsafe \/ AffectsFollowups(c, res)
           x == [res |-> res, state |-> << cond, unsafe >>]
           a == gate.att[c]
           all == Append(a, x)
           recent == IF Len(all) > 2 THEN Tail(all) ELSE all
           g == Observe(gate, c, res)
<1>1. gate \in Gates /\ held.released \in Seq(Slots) /\ held.released # << >>
  BY DEF TrialInv, TrialTyped, Holdings
<1>2. Released \in Slots /\ c \in Calls
  <2>1. 1 \in 1..Len(held.released)
    BY <1>1
  <2>2. Released \in Slots
    BY <1>1, <2>1 DEF Released
  <2>3. \A s \in Slots : s.call \in Calls
    BY DEF Slots
  <2> QED
    BY <2>2, <2>3
<1>3. cond \in [Keys -> Conditions] /\ unsafe \in BOOLEAN
  BY <1>1 DEF UpdatedConditions, Gates, Conditions, AffectsFollowups
<1>4. g = [gate EXCEPT !.cond = cond, !.unsafe = unsafe, !.att[c] = recent]
  BY DEF Observe
<1>5. x \in AttemptRecords
  <2> HIDE DEF cond, unsafe
  <2> QED
    BY <1>3 DEF AttemptRecords
<1>6. a \in Seq(AttemptRecords)
  BY <1>1, <1>2 DEF Gates
<1> HIDE DEF cond, unsafe, x, g, c, a
<1>7. /\ all \in Seq(AttemptRecords) /\ Len(all) = Len(a) + 1 /\ Len(a) \in Nat
      /\ \A i \in 1..Len(a) : all[i] = a[i]
  BY <1>5, <1>6
<1> HIDE DEF all
<1>8. /\ recent \in Seq(AttemptRecords)
      /\ \A i \in 1..Len(recent) : i < Len(recent) => \E j \in 1..Len(a) : recent[i] = a[j]
  <2>1. CASE Len(all) > 2
    <3>1. all # << >> /\ Tail(all) \in Seq(AttemptRecords) /\ Len(Tail(all)) = Len(a)
      BY <1>7, <2>1
    <3>2. \A i \in 1..Len(a) : Tail(all)[i] = all[i + 1]
      BY <1>7, <2>1, <3>1
    <3>3. ASSUME NEW i \in 1..Len(a), i < Len(a) PROVE \E j \in 1..Len(a) : Tail(all)[i] = a[j]
      <4>1. i + 1 \in 1..Len(a)
        BY <1>7, <3>3
      <4> QED
        BY <1>7, <3>2, <4>1
    <3> QED
      BY <2>1, <3>1, <3>3
  <2>2. CASE ~(Len(all) > 2)
    BY <1>7, <2>2
  <2> QED
    BY <2>1, <2>2
<1> HIDE DEF recent
<1>9. g \in Gates /\ g.terminal = gate.terminal /\ g.att = [gate.att EXCEPT ![c] = recent]
  BY <1>1, <1>2, <1>3, <1>4, <1>8 DEF Gates
<1>10. ASSUME NEW d \in Calls \cap (SideEffect \ Idempotent), NEW i \in 1..Len(g.att[d]),
              i < Len(g.att[d])
       PROVE  Repeatable(g.att[d][i])
  <2>1. CASE d = c
    <3>1. g.att[d] = recent
      BY <1>1, <1>2, <1>9, <2>1 DEF Gates
    <3>2. PICK j \in 1..Len(a) : recent[i] = a[j]
      BY <1>8, <1>10, <3>1
    <3>3. Repeatable(a[j])
      BY <2>1 DEF TrialInv, EffectNotRepeated, Repeatable, a, c
    <3> QED
      BY <3>1, <3>2, <3>3
  <2>2. CASE d # c
    <3>1. g.att[d] = gate.att[d]
      BY <1>1, <1>2, <1>9, <2>2 DEF Gates
    <3> QED
      BY <1>10, <3>1 DEF TrialInv, EarlierRepeatable
  <2> QED
    BY <2>1, <2>2
<1> QED
  BY <1>2, <1>9, <1>10 DEF c, g

\* What is recorded of a result leaves the answer.
LEMMA RecordedIsCore ==
  ASSUME TrialInv, pc = "tool", NEW res \in Results
  PROVE  /\ Recorded(core, Released.call, res) \in Cores
         /\ Recorded(core, Released.call, res).final = core.final
<1> DEFINE call == Released.call
           done == IF core.batch # << >> THEN core.processed \cup {Released.index}
                   ELSE core.processed
           open == IF PublicFailure(res) THEN core.unresolved \cup {Tool[call]}
                   ELSE IF ExplicitSuccess(res) THEN core.unresolved \ {Tool[call]}
                   ELSE core.unresolved
           good == core.positive \/ ExplicitSuccess(res)
<1>1. core \in Cores
  BY DEF TrialInv, TrialTyped
<1>2. Recorded(core, call, res)
        = [core EXCEPT !.processed = done, !.last = call, !.unresolved = open, !.positive = good]
  BY DEF Recorded
<1>3. call \in Calls /\ Released.index \in Nat
  BY ObserveKeeps DEF Slots
<1>4. done \in SUBSET Nat /\ good \in BOOLEAN
  BY <1>1, <1>3 DEF Cores, ExplicitSuccess
<1>5. open \in SUBSET {Tool[d] : d \in Calls}
  <2>1. Tool[call] \in {Tool[d] : d \in Calls}
    BY <1>3
  <2> QED
    BY <1>1, <2>1 DEF Cores
<1> HIDE DEF done, open, good, call
<1> QED
  BY <1>1, <1>2, <1>3, <1>4, <1>5 DEF Cores, MaybeCalls, call

\* A result is received, or receiving it fails.
LEMMA ResultStep ==
  ASSUME TrialInv,
         (\E res \in Results : ReceiveResult(res) \/ PolicyFails(res)) \/ TreatmentFails
  PROVE  TrialInv'
<1>0. trial \in Trials /\ pc \in Places /\ gate \in Gates /\ core \in Cores /\ held \in Holdings
  BY DEF TrialInv, TrialTyped
<1>1. pc = "tool" /\ core.final # "answer" /\ ~gate.terminal
  BY NotYetEnded DEF ReceiveResult, PolicyFails, TreatmentFails, Concluding
<1>2. held' = [held EXCEPT !.released = << >>]
  <2>1. \A res \in Results : ReceiveResult(res) => held' = [held EXCEPT !.released = << >>]
    BY DEF ReceiveResult, NextRound
  <2>2. \A res \in Results : PolicyFails(res) => held' = [held EXCEPT !.released = << >>]
    BY DEF PolicyFails
  <2>3. TreatmentFails => held' = [held EXCEPT !.released = << >>]
    BY DEF TreatmentFails
  <2> QED
    BY <2>1, <2>2, <2>3
<1>3. held' \in Holdings
  <2>1. << >> \in Seq(Slots)
    OBVIOUS
  <2> QED
    BY <1>0, <1>2, <2>1 DEF Holdings
<1>4. CASE TreatmentFails
  <2>1. trial' \in Trials /\ pc' = "classify" /\ UNCHANGED << gate, core >>
    BY <1>0, <1>4 DEF TreatmentFails, Trials, EndReasons, Validities
  <2>2. StopsEnd' /\ AnswerIsBacked'
    BY <1>1, <2>1 DEF StopsEnd, AnswerIsBacked
  <2> QED
    BY <1>0, <1>3, <2>1, <2>2, QuietStep DEF Places
<1>5. ASSUME NEW res \in Results, ReceiveResult(res) \/ PolicyFails(res)
      PROVE  TrialInv'
  <2> DEFINE c == Recorded(core, Released.call, res)
             g == Observe(gate, Released.call, res)
  <2>1. /\ Released.call \in MaybeCalls
        /\ g \in Gates /\ g.terminal = gate.terminal
        /\ \A d \in Calls \cap (SideEffect \ Idempotent) : \A i \in 1..Len(g.att[d]) :
             i < Len(g.att[d]) => Repeatable(g.att[d][i])
    BY <1>1, ObserveKeeps DEF MaybeCalls
  <2>2. c \in Cores /\ c.final = core.final
    BY <1>1, RecordedIsCore
  <2>3. gate' = g
    BY <1>5 DEF ReceiveResult, PolicyFails
  <2>4. core' \in Cores /\ core'.final = core.final
    <3>1. \/ core' = c
          \/ \E act : core' = AuthorizeRecovery(c, g, act, Released.call)
      BY <1>5 DEF ReceiveResult, PolicyFails
    <3> HIDE DEF c, g
    <3> QED
      BY <2>1, <2>2, <3>1, RecoveryIsCore
  <2>5. trial' \in Trials /\ pc' \in {"adapter", "classify"}
    <3>1. CASE ReceiveResult(res)
      <4>1. /\ pc' \in {"adapter", "classify"}
            /\ \/ trial' = [trial EXCEPT !.rounds = trial.rounds + 1, !.reason = "completed"]
               \/ trial' = [trial EXCEPT !.rounds = trial.rounds + 1, !.reason = trial.reason]
        BY <3>1 DEF ReceiveResult, NextRound
      <4> DEFINE n == trial.rounds + 1
      <4>2. n \in Nat /\ trial.reason \in EndReasons /\ "completed" \in EndReasons
        BY <1>0 DEF Trials, EndReasons
      <4>3. \/ trial' = [trial EXCEPT !.rounds = n, !.reason = "completed"]
            \/ trial' = [trial EXCEPT !.rounds = n, !.reason = trial.reason]
        BY <4>1
      <4> HIDE DEF n
      <4> QED
        BY <1>0, <4>1, <4>2, <4>3 DEF Trials
    <3>2. CASE PolicyFails(res)
      <4>1. End("policy_error")
        BY <3>2 DEF PolicyFails
      <4> QED
        BY <1>0, <4>1, EndIsTyped DEF EndReasons
    <3> QED
      BY <1>5, <3>1, <3>2
  <2> HIDE DEF g, c
  <2>6. TrialTyped'
    BY <1>3, <2>1, <2>3, <2>4, <2>5 DEF TrialTyped, Places
  <2>7. StopsEnd' /\ AnswerIsBacked'
    BY <1>1, <2>1, <2>3, <2>4 DEF StopsEnd, AnswerIsBacked
  <2>8. EarlierRepeatable' /\ EffectNotRepeated'
    BY <2>1, <2>3, <2>5 DEF EarlierRepeatable, EffectNotRepeated
  <2> QED
    BY <2>6, <2>7, <2>8 DEF TrialInv
<1> QED
  BY <1>4, <1>5

\* Every step of the trial preserves the invariant.
LEMMA TrialStep == TrialInv /\ [Next]_vars => TrialInv'
<1> SUFFICES ASSUME TrialInv, [Next]_vars PROVE TrialInv'
  OBVIOUS
<1>1. CASE UNCHANGED vars
  BY <1>1 DEF vars, TrialInv, TrialTyped, StopsEnd, AnswerIsBacked, EarlierRepeatable,
     EffectNotRepeated, Released
<1> QED
  BY <1>1, OuterStep, AdapterStep, ModelStep, BatchStep, AnswerStep, ResultStep DEF Next

\* The inductive invariant holds in every behaviour of a trial.
THEOREM TrialInductive == Spec => []TrialInv
  BY TrialStart, TrialStep, PTL DEF Spec

\* No side effect that was had without a receipt is released again
\* (ExecutionAuthorizationGate, RecoveryRouteDecider).
THEOREM EffectsAreNotRepeated == Spec => []EffectNotRepeated
  BY TrialInductive, PTL DEF TrialInv

\* An answer of a validating arm is backed by a public success and leaves no
\* public failure unresolved (PublicEvidenceCompletionValidator).
THEOREM AnswersAreBacked == Spec => []AnswerIsBacked
  BY TrialInductive, PTL DEF TrialInv

\* After a terminal decision no retained call is released and the model is not
\* asked (the adapter's step, next_model_action).
THEOREM HaltsAreFinal == Spec => HaltIsHalt
<1> DEFINE Quiet == TerminalPending(core) \/ gate.terminal
                      => /\ driver' = driver
                         /\ held'.released # << >> => held.released # << >>
<1>1. TrialInv /\ [Next]_vars => [Quiet]_vars
  <2> SUFFICES ASSUME TrialInv, Next, TerminalPending(core) \/ gate.terminal
               PROVE  /\ driver' = driver
                      /\ held'.released # << >> => held.released # << >>
    OBVIOUS
  <2>0. held \in Holdings
    BY DEF TrialInv, TrialTyped
  <2>1. ~MayAsk
    BY NotYetEnded DEF MayAsk, AsksModel, TerminalPending, Concluding
  <2>2. ~Propose
    BY NotYetEnded DEF Propose, MayPropose, Concluding
  <2>3. driver' = driver
    BY <2>1, <2>2
    DEF Next, Setup, HaltHeld, AskCore, Terminated, Escalated, Finish, Replay, CannotAsk,
        OutOfTokens, ProviderFails, ProposeBatch, Answer, ValidatorFails, ReceiveResult,
        PolicyFails, TreatmentFails, Conclude, Request
  <2>4. \/ held' = held
        \/ held' = [held EXCEPT !.queue = << >>]
        \/ held' = [held EXCEPT !.released = << >>]
        \/ \E q : held' = [queue |-> q, released |-> << >>]
    BY <2>1, <2>2
    DEF Next, Setup, HaltHeld, AskCore, Terminated, Escalated, Finish, Replay, CannotAsk,
        OutOfTokens, ProviderFails, ProposeBatch, Answer, ValidatorFails, ReceiveResult,
        PolicyFails, TreatmentFails, Conclude, Request, Hold, NextRound
  <2>5. held'.released # << >> => held.released # << >>
    BY <2>0, <2>4 DEF Holdings
  <2> QED
    BY <2>3, <2>5
<1> QED
  BY <1>1, TrialInductive, PTL DEF Spec, HaltIsHalt
=============================================================================
