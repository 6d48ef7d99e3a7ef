----------------------------- MODULE PlanGraph -----------------------------
(***************************************************************************)
(* The pure rules of the planning layer: which step of a plan may run,     *)
(* which steps a failure touches, what the trigger policy and the workflow *)
(* verifier decide.  A plan is a function from step ids to rows            *)
(*   [st, dep, pre, cnt, pend, prov]                                       *)
(* status, dependencies, precondition, repair_attempt_count, whether a     *)
(* local repair waits for its lineage, and the failure provenance kept in  *)
(* step.evidence.  Step ids are numbers; the plan lists them in order.     *)
(***************************************************************************)
EXTENDS Integers, FiniteSets

PlanStepStatus ==
  { "PENDING", "RUNNING", "VERIFIED", "FAILED", "BLOCKED", "CLASSIFIED_FAILURE",
    "PRECONDITION_FAILED", "WAITING_FOR_HUMAN_APPROVAL", "WAITING_FOR_VERIFICATION", "STALE" }

PlanStatus ==
  { "READY", "RUNNING", "WAITING_FOR_HUMAN_APPROVAL", "WAITING_FOR_VERIFICATION",
    "COMPLETED", "FAILED" }

\* _TERMINAL_VERIFIED_STATUSES and _FAILED_OR_BLOCKED_STATUSES; the legacy
\* COMPLETED status is never written any more and is left out.
TerminalVerified == {"VERIFIED"}
FailedOrBlocked == {"FAILED", "BLOCKED", "CLASSIFIED_FAILURE"}

\* What a failure report says of the failed step, as far as the repair scope
\* tells reports apart; "none" is a step with no provenance yet.
Provenance == {"none", "systemic", "assumption", "plain"}

Row == [st : PlanStepStatus, dep : SUBSET Nat, pre : {"none", "runtime", "static"},
        cnt : Nat, pend : BOOLEAN, prov : Provenance]

NewRow(deps, pre) ==
  [st |-> "PENDING", dep |-> deps, pre |-> pre, cnt |-> 0, pend |-> FALSE, prov |-> "none"]

With(rows, i, s) == [rows EXCEPT ![i].st = s]
WithAll(rows, S, s) == [i \in DOMAIN rows |-> IF i \in S THEN [rows[i] EXCEPT !.st = s] ELSE rows[i]]
Having(rows, statuses) == {i \in DOMAIN rows : rows[i].st \in statuses}

\* _get_dependents and _affected_subgraph: everything downstream of a set.
Downstream(rows, S) ==
  LET reach[T \in SUBSET DOMAIN rows] ==
        LET more == {k \in DOMAIN rows \ T : rows[k].dep \cap T # {}}
        IN  IF more = {} THEN T ELSE reach[T \cup more]
  IN  reach[S]

\* Plan.validate_dependencies: known ids and no cycle.
validate_dependencies(rows) ==
  /\ \A i \in DOMAIN rows : rows[i].dep \subseteq DOMAIN rows \ {i}
  /\ \A i \in DOMAIN rows : Downstream(rows, {i}) \cap rows[i].dep = {}

(***************************************************************************)
(* evaluate_step_eligibility.  The reasons are the code's, without the id. *)
(* "met" says whether the step's precondition holds in the context the     *)
(* caller supplies; the scheduler supplies none and defers runtime.* keys. *)
(***************************************************************************)
\* Mutant: a claim that still waits for its verdict satisfies a dependency.
UnmetByClaim(rows, i) == rows[i].dep \ Having(rows, {"VERIFIED", "WAITING_FOR_VERIFICATION"})
\* _DEPENDENCY_SATISFIED_STATUSES holds VERIFIED alone.
Unmet(rows, i) == rows[i].dep \ Having(rows, {"VERIFIED"})

evaluate_step_eligibility(rows, i, met) ==
  LET unmet == Unmet(rows, i)
      first == CHOOSE d \in unmet : \A e \in unmet : d <= e
  IN
  IF rows[i].st \in {"RUNNING", "WAITING_FOR_VERIFICATION"} THEN "already_running"
  ELSE IF rows[i].st \in TerminalVerified THEN "already_completed"
  ELSE IF rows[i].st \in FailedOrBlocked \cup {"STALE", "PRECONDITION_FAILED"}
    THEN "not_eligible_failed"
  ELSE IF unmet # {}
    THEN IF first \notin DOMAIN rows THEN "missing_dependency"
         ELSE IF rows[first].st \in FailedOrBlocked THEN "dependency_failed"
         ELSE "dependency_not_verified"
  ELSE IF rows[i].pre # "none" /\ ~met THEN "precondition_failed"
  ELSE "all_conditions_met"

SchedulingReason(rows, i) == evaluate_step_eligibility(rows, i, rows[i].pre = "runtime")

\* TaskGraphScheduler.calculate: a reason that contains "failed" or "blocked"
\* puts the step among the blocked ones, whichever rule it comes from.
Schedule(rows) ==
  LET open == DOMAIN rows \ Having(rows, TerminalVerified \cup FailedOrBlocked
                \cup {"STALE", "WAITING_FOR_HUMAN_APPROVAL", "RUNNING", "WAITING_FOR_VERIFICATION"})
      why(i) == SchedulingReason(rows, i)
      ready == {i \in open : why(i) = "all_conditions_met"}
      blocked == {i \in open : why(i) \in {"not_eligible_failed", "dependency_failed", "precondition_failed"}}
  IN  [ready |-> ready, blocked |-> blocked, pending |-> open \ (ready \cup blocked)]

\* compute_repair_scope: <<scope, affected step ids>>.
compute_repair_scope(rows, i, prov) ==
  CASE prov = "systemic" -> <<"MACRO_REPLAN", {}>>
    [] prov = "assumption" /\ Downstream(rows, {i}) # {i} ->
         <<"AFFECTED_SUBGRAPH", Downstream(rows, {i})>>
    [] OTHER -> <<"LOCAL", {i}>>

\* invalidate_affected_subgraph: also a VERIFIED dependent becomes STALE.
invalidate_affected_subgraph(rows, S) == WithAll(rows, S, "STALE")

(***************************************************************************)
(* ReplanTriggerPolicy.evaluate over what the run left in the database: a  *)
(* typed control signal wins, then an invalid assumption, then a rejected  *)
(* validation, then the same error twice.                                  *)
(***************************************************************************)
RunEvidence ==
  {"stored_signal", "typed_signal", "invalid_assumption", "rejected_validation", "repeated_error"}

evaluate(ev) ==
  IF "typed_signal" \in ev THEN "TYPED_ESCALATION"
  ELSE IF "invalid_assumption" \in ev THEN "INVALID_ASSUMPTION"
  ELSE IF "rejected_validation" \in ev THEN "VALIDATOR_REJECTION"
  ELSE IF "repeated_error" \in ev THEN "REPEATED_STEP_FAILURE"
  ELSE "none"

\* _record_step_replan_signal followed by the lookup in _maybe_replan: a
\* signal the kernel already stored is bound to the step, otherwise the policy
\* may create one.  Before a success only stored signals count.
SignalsAfterFailure(ev) == "stored_signal" \in ev \/ evaluate(ev) # "none"
SignalsAfterSuccess(ev) == "stored_signal" \in ev

(***************************************************************************)
(* WorkflowVerifier.verify: fail closed without an acceptance contract,    *)
(* only tool-contract evidence is trusted, and a verdict needs the attempt *)
(* that produced it.  Without that attempt no validation row exists, so a  *)
(* rejection carries no provenance.                                        *)
(***************************************************************************)
Claims == [contract : BOOLEAN, provenance : {"TOOL_CONTRACT_EVIDENCE", "AGENT_CLAIM"},
           met : BOOLEAN, attempt : BOOLEAN]

trusted_evidence(c) == c.provenance = "TOOL_CONTRACT_EVIDENCE"

verify(c) ==
  IF c.contract /\ trusted_evidence(c) /\ c.met /\ c.attempt THEN "accepted"
  ELSE IF c.attempt THEN "rejected"
  ELSE "rejected_no_attempt"
=============================================================================
