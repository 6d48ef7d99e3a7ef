----------------------------- MODULE RunLedger ------------------------------
(***************************************************************************)
(* The budget and effect authorities of one benchmark run:                 *)
(*                                                                         *)
(*   RunBudgetLedger       evals/reliability/p45_executor.py               *)
(*   PhaseEffectPolicy     evals/reliability/effect_policy.py              *)
(*                                                                         *)
(* The initial attempt, the local repair and the replanned strategy all    *)
(* reserve their provider calls on one ledger.  A refused reservation      *)
(* marks the ledger exhausted for good.  The effect policy decides whether *)
(* the alternate edit of the experiment may touch the workspace.           *)
(***************************************************************************)
EXTENDS Naturals

CONSTANT MaxProviderCalls   \* the frozen protocol's max_model_calls

ASSUME LedgerConstants == MaxProviderCalls \in Nat

MaxRepairs == 1

Ledgers ==
  [ initial : Nat, nested : Nat, blocked : Nat, repairs : Nat, replans : Nat,
    maxReplans : {0, 1}, exhausted : BOOLEAN ]

\* configure_frozen_budget and _run_budget: only the experiment may replan.
NewLedger(experiment) ==
  [ initial |-> 0, nested |-> 0, blocked |-> 0, repairs |-> 0, replans |-> 0,
    maxReplans |-> IF experiment THEN 1 ELSE 0, exhausted |-> FALSE ]

ProviderCalls(l) == l.initial + l.nested
Remaining(l) == IF ProviderCalls(l) >= MaxProviderCalls
                  THEN 0 ELSE MaxProviderCalls - ProviderCalls(l)

\* A broken form: recovery is given a budget of its own.
RefusedPerPhase(l) == l.exhausted \/ l.initial >= MaxProviderCalls
                                 \/ l.nested >= MaxProviderCalls
Refused(l) == l.exhausted \/ ProviderCalls(l) >= MaxProviderCalls

\* One provider call, or a refusal before the transport is used.
Reserve(l, phase) ==
  IF Refused(l) THEN [l EXCEPT !.exhausted = TRUE, !.blocked = @ + 1]
  ELSE IF phase = "initial" THEN [l EXCEPT !.initial = @ + 1]
  ELSE [l EXCEPT !.nested = @ + 1]

CanStartRepair(l) == ~l.exhausted /\ l.repairs < MaxRepairs /\ Remaining(l) > 0
ReserveRepair(l) == [l EXCEPT !.repairs = @ + 1]

CanReplan(l) == ~l.exhausted /\ Remaining(l) > 0 /\ l.replans < l.maxReplans
ReserveReplan(l) == [l EXCEPT !.replans = @ + 1]

----------------------------------------------------------------------------
EffectPhases == {"initial", "local_repair", "post_replan"}

\* bind_provider_phase: a new run forgets an earlier run's acceptance.
BindPhase(e, phase) ==
  IF phase = "initial" THEN [e EXCEPT !.replanned = FALSE, !.phase = "initial"]
  ELSE [e EXCEPT !.phase = IF e.replanned THEN "post_replan" ELSE "local_repair"]

MarkReplanAccepted(e) == [e EXCEPT !.replanned = TRUE, !.phase = "post_replan"]

\* PhaseGuardedTool: a denied alternate effect is an observable no-op.
Authorized(e) == e.phase = "post_replan"
=============================================================================
