--------------------------- MODULE PlanExecution ---------------------------
(***************************************************************************)
(* PlanExecutionService over one durable plan.  A call loads the plan,     *)
(* schedules, dispatches steps one at a time, and after each run repairs,  *)
(* replans or verifies.  A process keeps its copy of the plan in mem and   *)
(* writes the whole copy back (PlanRepository.update); only an accepted    *)
(* macro replan is guarded by the plan version (update_if_version).        *)
(* A process may die at any time and the next call finds what was written. *)
(***************************************************************************)
EXTENDS PlanGraph, FiniteSetsExt

CONSTANTS
  Procs,            \* processes that execute the plan
  Graph,            \* the first plan: step -> [dep, pre]
  Gated,            \* steps whose capability asks for a human approval
  Modes,            \* plan modes to consider
  Contexts,         \* what the caller's context says: see CallContexts
  HasVerifier,      \* a workflow verifier is configured
  ReusedIds,        \* statuses of rows whose ids the planner may propose again
  MaxRepair,        \* step.budget.max_repair_attempts
  MaxReplans,       \* bound: plans the planner proposes
  MaxCalls,         \* bound: calls of execute_goal and repair_after_failure
  MaxCrashes        \* bound: process deaths

\* "official" is official_benchmark_recovery, "external" is
\* external_validator_authority, "handover" turns external once a replan is
\* accepted (_external_validator_on_replan).
CallContexts == {"plain", "official", "external", "handover"}

ASSUME PlanAssumption ==
  /\ Contexts \subseteq CallContexts /\ Modes \subseteq {"LINEAR", "SIMPLE_DEPENDENCY"}
  /\ HasVerifier \in BOOLEAN /\ ReusedIds \subseteq PlanStepStatus
  /\ {MaxRepair, MaxReplans, MaxCalls, MaxCrashes} \subseteq Nat
  /\ DOMAIN Graph = 1 .. Cardinality(DOMAIN Graph) /\ IsFiniteSet(DOMAIN Graph)
  /\ Gated \subseteq DOMAIN Graph
  /\ \A i \in DOMAIN Graph : /\ Graph[i].dep \subseteq DOMAIN Graph
                             /\ Graph[i].pre \in {"none", "runtime", "static"}

VARIABLES
  db,        \* the plan rows: [version, status, rows, started]
  mode,      \* plan.mode
  mem,       \* process -> its copy of the plan
  pc,        \* process -> where its call is
  todo,      \* process -> ready steps not yet dispatched
  run,       \* process -> the step whose task it executes (0: none)
  call,      \* process -> [ctx, grant, repair] of the call
  base,      \* process -> the plan the pending replan started from
  after,     \* process -> what a refused replan goes back to
  proposals, \* plans proposed so far
  calls,     \* calls so far
  crashes    \* deaths so far

vars == <<db, mode, mem, pc, todo, run, call, base, after, proposals, calls, crashes>>

Steps == DOMAIN Graph
NoCall == [ctx |-> "plain", grant |-> {}, repair |-> {}]
FirstPlan ==
  [version |-> 0, status |-> "READY", started |-> FALSE,
   rows |-> [i \in Steps |-> NewRow(Graph[i].dep, Graph[i].pre)]]
\* The step of the first plan that a replacement stands for.
Original(i) == ((i - 1) % Cardinality(Steps)) + 1

Init ==
  /\ db = FirstPlan
  /\ mode \in Modes
  /\ mem = [p \in Procs |-> FirstPlan]
  /\ pc = [p \in Procs |-> "idle"]
  /\ todo = [p \in Procs |-> {}]
  /\ run = [p \in Procs |-> 0]
  /\ call = [p \in Procs |-> NoCall]
  /\ base = [p \in Procs |-> FirstPlan]
  /\ after = [p \in Procs |-> "none"]
  /\ proposals = 0 /\ calls = 0 /\ crashes = 0

Context(p) == call[p].ctx
Goto(p, label) == pc' = [pc EXCEPT ![p] = label]

\* The rows of new, and those of old that new does not have (the first case
\* spares TLC building the function again).
Over(new, old) ==
  IF DOMAIN old \subseteq DOMAIN new THEN new
  ELSE [i \in DOMAIN new \cup DOMAIN old |-> IF i \in DOMAIN new THEN new[i] ELSE old[i]]
\* PlanRepository.update: every row of the copy, and the plan's own columns;
\* rows of the table that the copy does not have stay.
Written(plan) == [plan EXCEPT !.rows = Over(plan.rows, db.rows)]
Update(p, plan) == db' = Written(plan) /\ mem' = [mem EXCEPT ![p] = plan]
SetRows(p, rows) == [mem[p] EXCEPT !.rows = rows]
\* The call returns: the copy and the rest of the frame go.
Return(p) ==
  /\ pc' = [pc EXCEPT ![p] = "idle"] /\ mem' = [mem EXCEPT ![p] = FirstPlan]
  /\ todo' = [todo EXCEPT ![p] = {}] /\ run' = [run EXCEPT ![p] = 0]
  /\ call' = [call EXCEPT ![p] = NoCall] /\ base' = [base EXCEPT ![p] = FirstPlan]
  /\ after' = [after EXCEPT ![p] = "none"]
ReturnWith(p, plan) == db' = Written(plan) /\ Return(p)
Frame == <<todo, run, call, base, after>>

(***************************************************************************)
(* execute_goal and the preamble of _execute_dependency_plan: repair       *)
(* targets and the steps they blocked go back to PENDING, granted steps    *)
(* too.  CLAIMED_COMPLETE is never written, the verdict is, and a second   *)
(* official repair already stops in repair_after_failure.                  *)
(***************************************************************************)
\* Mutant: invalidated steps are left out.
RepairableNotStale == {"FAILED", "CLASSIFIED_FAILURE", "BLOCKED", "PRECONDITION_FAILED"}
Repairable == {"FAILED", "CLASSIFIED_FAILURE", "BLOCKED", "STALE", "PRECONDITION_FAILED"}

ResetForRepair(rows, scope) ==
  LET own == WithAll(rows, scope \cap Having(rows, Repairable), "PENDING")
  IN  WithAll(own, {i \in Having(own, {"BLOCKED"}) : own[i].dep \cap scope # {}}, "PENDING")

Preamble(plan, c) ==
  LET reset == IF c.repair = {} THEN plan.rows ELSE ResetForRepair(plan.rows, c.repair)
  IN  [plan EXCEPT !.rows = WithAll(reset, c.grant \cap Having(reset, {"WAITING_FOR_HUMAN_APPROVAL"}), "PENDING"),
                   !.started = @ \/ (c.repair # {} /\ c.ctx = "official")]

Begin(p, c, plan) ==
  IF mode = "LINEAR"
  THEN /\ call' = [call EXCEPT ![p] = c] /\ Update(p, plan) /\ Goto(p, "linear_load")
       /\ UNCHANGED <<todo, run, base, after>>
  ELSE /\ call' = [call EXCEPT ![p] = c] /\ Update(p, Preamble(plan, c)) /\ Goto(p, "schedule")
       /\ UNCHANGED <<todo, run, base, after>>

execute_goal(p) ==
  /\ pc[p] = "idle" /\ calls < MaxCalls /\ calls' = calls + 1
  /\ \E ctx \in Contexts : Begin(p, [ctx |-> ctx, grant |-> {}, repair |-> {}], db)
  /\ UNCHANGED <<mode, proposals, crashes>>

resume_after_approval(p) ==
  /\ pc[p] = "idle" /\ calls < MaxCalls /\ calls' = calls + 1
  /\ \E ctx \in Contexts, i \in Having(db.rows, {"WAITING_FOR_HUMAN_APPROVAL"}) :
       Begin(p, [ctx |-> ctx, grant |-> {i}, repair |-> {}], db)
  /\ UNCHANGED <<mode, proposals, crashes>>

\* A typed signal of a NO_PROGRESS_AWARE controller turns any scope into a replan.
EscalatedScope(scope, typed) == IF typed THEN "MACRO_REPLAN" ELSE scope

\* refused: the root lease does not grant another repair.
repair_after_failure(p) ==
  /\ pc[p] = "idle" /\ calls < MaxCalls /\ calls' = calls + 1
  /\ \E ctx \in Contexts, i \in Having(db.rows, {"FAILED", "CLASSIFIED_FAILURE"}), typed, refused \in BOOLEAN :
       LET scoped == compute_repair_scope(db.rows, i, db.rows[i].prov)
           scope == EscalatedScope(scoped[1], typed)
           counted == [k \in DOMAIN db.rows |->
             IF k \in scoped[2] THEN [db.rows[k] EXCEPT !.cnt = @ + 1] ELSE db.rows[k]]
       IN \/ /\ ctx = "official" /\ db.started
             /\ UNCHANGED <<db, mem, pc, Frame>>
          \/ /\ ~(ctx = "official" /\ db.started) /\ scope = "MACRO_REPLAN"
             /\ IF ctx = "official" THEN UNCHANGED <<db, mem, pc, Frame>>
                ELSE /\ mem' = [mem EXCEPT ![p] = db] /\ Goto(p, "replan")
                     /\ base' = [base EXCEPT ![p] = db] /\ after' = [after EXCEPT ![p] = "repair"]
                     /\ run' = [run EXCEPT ![p] = i] /\ UNCHANGED <<db, todo, call>>
          \/ /\ ~(ctx = "official" /\ db.started) /\ scope # "MACRO_REPLAN"
             /\ IF refused \/ db.rows[i].cnt >= MaxRepair THEN UNCHANGED <<db, mem, pc, Frame>>
                ELSE Begin(p, [ctx |-> ctx, grant |-> {}, repair |-> scoped[2]],
                           [db EXCEPT !.rows = counted])
  /\ UNCHANGED <<mode, proposals, crashes>>

\* The head of the loop: reload, block what can no longer run, list the rest.
ScheduleSteps(p) ==
  /\ pc[p] = "schedule"
  /\ LET s == Schedule(db.rows)
     IN  /\ Update(p, [db EXCEPT !.rows = WithAll(@, s.blocked, "BLOCKED")])
         /\ todo' = [todo EXCEPT ![p] = s.ready]
  /\ Goto(p, "dispatch")
  /\ UNCHANGED <<mode, run, call, base, after, proposals, calls, crashes>>

NeedsApproval(p, i) == Original(i) \in Gated /\ i \notin call[p].grant

\* One ready step: approval gate, eligibility against the reloaded plan, task.
Dispatch(p) ==
  /\ pc[p] = "dispatch" /\ todo[p] # {}
  /\ LET i == Min(todo[p])
         mine == mem[p].rows
     IN \E met \in BOOLEAN :
        LET why == evaluate_step_eligibility(db.rows, i, met)
        IN  /\ todo' = [todo EXCEPT ![p] = @ \ {i}]
            /\ \/ /\ NeedsApproval(p, i)
                  /\ Update(p, [SetRows(p, With(mine, i, "WAITING_FOR_HUMAN_APPROVAL"))
                                  EXCEPT !.status = "WAITING_FOR_HUMAN_APPROVAL"])
                  /\ UNCHANGED <<pc, run>>
               \/ /\ ~NeedsApproval(p, i) /\ why # "all_conditions_met"
                  /\ Update(p, SetRows(p, IF why = "precondition_failed"
                                          THEN With(mine, i, "PRECONDITION_FAILED") ELSE mine))
                  /\ UNCHANGED <<pc, run>>
               \/ /\ ~NeedsApproval(p, i) /\ why = "all_conditions_met"
                  /\ Update(p, SetRows(p, With(mine, i, "RUNNING")))
                  /\ run' = [run EXCEPT ![p] = i] /\ Goto(p, "running")
  /\ UNCHANGED <<mode, call, base, after, proposals, calls, crashes>>

Back == IF mode = "LINEAR" THEN "linear" ELSE "dispatch"

\* The step's failure or success asks the planner: consume reads the plan.
AskPlanner(p, plan, then) ==
  /\ mem' = [mem EXCEPT ![p] = plan] /\ base' = [base EXCEPT ![p] = db]
  /\ after' = [after EXCEPT ![p] = then] /\ Goto(p, "replan")
  /\ UNCHANGED <<db, todo, run, call>>

NextStep(p, plan) ==
  /\ Update(p, plan) /\ Goto(p, Back) /\ run' = [run EXCEPT ![p] = 0]
  /\ UNCHANGED <<todo, call, base, after>>

\* _prepare_inline_local_repair, when the lease grants it.
CanRepair(rows, i, granted) == granted /\ rows[i].cnt < MaxRepair
\* Mutant: the repair is not counted.
LocalRepairUncounted(rows, i) == [rows EXCEPT ![i].st = "PENDING", ![i].pend = TRUE]
LocalRepair(rows, i) == [rows EXCEPT ![i].st = "PENDING", ![i].cnt = @ + 1, ![i].pend = TRUE]
\* _finalize_inline_repair_lineage, once the repair run has an attempt.
Finalized(rows, i) == [rows EXCEPT ![i].pend = FALSE]

\* _create_step_failure_provenance: the latest report of the run's attempts.
Failed(rows, i, prov) == [rows EXCEPT ![i].st = "FAILED", ![i].prov = prov]
\* _handle_verification_rejection: the verdict's attempt, or no provenance.
Rejected(rows, i, c) ==
  [rows EXCEPT ![i].st = "CLASSIFIED_FAILURE", ![i].prov = IF verify(c) = "rejected" THEN "plain" ELSE @]

(***************************************************************************)
(* The run ends.  A worker whose plan version is no longer the durable one *)
(* fails with STALE_PLAN before any tool runs (_TaskGraphAgentExecutor).   *)
(***************************************************************************)
Authoritative(p) == db.version = mem[p].version /\ run[p] \in DOMAIN db.rows

LineageLost(p) ==
  /\ pc[p] = "running" /\ mode # "LINEAR" /\ mem[p].rows[run[p]].pend
  /\ ReturnWith(p, [mem[p] EXCEPT !.status = "FAILED"])
  /\ UNCHANGED <<mode, proposals, calls, crashes>>

\* Nothing local is left: a replan if there is a signal, else on or out.
Escalate(p, plan, ev) ==
  IF SignalsAfterFailure(ev) /\ Context(p) # "official" THEN AskPlanner(p, plan, "failed")
  ELSE IF mode = "LINEAR" THEN ReturnWith(p, [plan EXCEPT !.status = "FAILED"])
  ELSE NextStep(p, plan)

RunFails(p) ==
  /\ pc[p] = "running"
  /\ \E prov \in Provenance \ {"none"}, ev \in {{}} \cup {{e} : e \in RunEvidence}, granted \in BOOLEAN :
       LET i == run[p]
           failed == Failed(Finalized(mem[p].rows, i), i, prov)
           scoped == compute_repair_scope(failed, i, prov)
       IN  IF mode = "LINEAR" THEN Escalate(p, SetRows(p, failed), ev)
           ELSE IF Context(p) = "official"
           THEN ReturnWith(p, [SetRows(p, failed) EXCEPT !.status = "FAILED"])
           ELSE IF scoped[1] = "AFFECTED_SUBGRAPH"
           THEN NextStep(p, SetRows(p, invalidate_affected_subgraph(failed, scoped[2] \ {i})))
           ELSE IF scoped[1] = "LOCAL" /\ CanRepair(failed, i, granted)
           THEN NextStep(p, SetRows(p, LocalRepair(failed, i)))
           ELSE Escalate(p, SetRows(p, failed), ev)
  /\ UNCHANGED <<mode, proposals, calls, crashes>>

RunCompletes(p) ==
  /\ pc[p] = "running" /\ Authoritative(p)
  /\ \E ev \in {{}, {"stored_signal"}} :
       LET done == SetRows(p, Finalized(mem[p].rows, run[p]))
       IN  IF SignalsAfterSuccess(ev) /\ Context(p) # "official"
           THEN AskPlanner(p, done, "completed")
           ELSE /\ mem' = [mem EXCEPT ![p] = done] /\ Goto(p, "claim") /\ UNCHANGED <<db, Frame>>
  /\ UNCHANGED <<mode, proposals, calls, crashes>>

\* CLAIMED_COMPLETE and the verification seam, in one write.
Claim(p) ==
  /\ pc[p] = "claim"
  /\ \E c \in Claims, granted \in BOOLEAN :
       LET i == run[p]
           rows == mem[p].rows
           rejected == Rejected(rows, i, c)
       IN  IF ~HasVerifier \/ (Context(p) = "external" /\ mode # "LINEAR")
           THEN NextStep(p, SetRows(p, With(rows, i, "WAITING_FOR_VERIFICATION")))
           ELSE IF verify(c) = "accepted" THEN NextStep(p, SetRows(p, With(rows, i, "VERIFIED")))
           ELSE IF mode = "LINEAR" THEN NextStep(p, SetRows(p, rejected))
           ELSE IF Context(p) = "official"
           THEN ReturnWith(p, [SetRows(p, rejected) EXCEPT !.status = "FAILED"])
           ELSE IF verify(c) = "rejected" /\ CanRepair(rejected, i, granted)
           THEN NextStep(p, SetRows(p, LocalRepair(rejected, i)))
           ELSE NextStep(p, SetRows(p, rejected))
  /\ UNCHANGED <<mode, proposals, calls, crashes>>

(***************************************************************************)
(* MacroReplanService.consume.  The planner proposes a graph of the same   *)
(* tasks.  kept is the set of VERIFIED rows whose fingerprint a proposed   *)
(* step has (a fingerprint covers the dependencies): that step takes the   *)
(* row's id and verdict.  reused is the set of rows whose ids the proposal *)
(* uses for its own steps; nothing in consume looks at them.  A planner    *)
(* gives an id again only to a step that does the same task.               *)
(***************************************************************************)
OnePerTask(S) == \A j, k \in S : Original(j) = Original(k) => j = k
Keepable(rows, kept) ==
  /\ OnePerTask(kept)
  /\ \A k \in kept : rows[k].dep \cap Having(rows, TerminalVerified) \subseteq kept

FreshId(s) == s + (proposals + 1) * Cardinality(Steps)
RowFor(S, s, otherwise) ==
  IF \E k \in S : Original(k) = s THEN CHOOSE k \in S : Original(k) = s ELSE otherwise
\* Dependencies of the proposal are renamed to the ids the merge gave.
id_remap(kept, reused, s) == RowFor(kept, s, RowFor(reused, s, FreshId(s)))

\* What becomes STALE: everything downstream of the nodes the signals name,
\* but for what is kept, and the open rows whose ids are not proposed again.
\* Mutant: work the new plan does not repeat is dropped too.
SupersededAll(rows, nodes, kept, reused) == DOMAIN rows \ kept
Superseded(rows, nodes, kept, reused) ==
  (Downstream(rows, nodes) \ kept)
    \cup ((DOMAIN rows \ Having(rows, TerminalVerified)) \ reused)

\* The steps of the proposal and the retained rows.  A row whose id the
\* proposal uses is not retained, whatever its status: the step that has the
\* id replaces it, and if that step was renamed the row stays as it is stored.
Revised(rows, nodes, kept, reused) ==
  LET new == [i \in {id_remap(kept, reused, s) : s \in Steps} |->
                LET s == Original(i)
                    row == NewRow({id_remap(kept, reused, d) : d \in Graph[s].dep}, Graph[s].pre)
                IN  IF i \in kept THEN [row EXCEPT !.st = "VERIFIED"] ELSE row]
      old == WithAll(rows, Superseded(rows, nodes, kept, reused), "STALE")
  IN  Over(new, [i \in DOMAIN rows \ (kept \cup reused) |-> old[i]])

\* The signals name the step of the run, and those a benchmark run left may
\* name steps that an earlier replan made STALE.
AcceptReplan(p) ==
  /\ pc[p] = "replan" /\ proposals < MaxReplans
  /\ base[p].status # "COMPLETED" /\ db.version = base[p].version
  /\ \E kept \in SUBSET Having(base[p].rows, TerminalVerified),
        reused \in SUBSET Having(base[p].rows, ReusedIds),
        named \in SUBSET Having(base[p].rows, {"STALE"}) :
       /\ Keepable(base[p].rows, kept) /\ OnePerTask(reused)
       /\ LET plan == [base[p] EXCEPT !.version = @ + 1, !.status = "RUNNING",
                                       !.rows = Revised(@, named \cup {run[p]}, kept, reused)]
          IN  IF after[p] = "repair" THEN ReturnWith(p, plan)
              ELSE /\ Update(p, plan)
                   /\ Goto(p, IF mode = "LINEAR" THEN "linear_load" ELSE "schedule")
                   /\ call' = [call EXCEPT ![p].ctx =
                        IF @ = "handover" /\ mode # "LINEAR" THEN "external" ELSE @]
                   /\ todo' = [todo EXCEPT ![p] = {}] /\ run' = [run EXCEPT ![p] = 0]
                   /\ base' = [base EXCEPT ![p] = FirstPlan] /\ after' = [after EXCEPT ![p] = "none"]
  /\ proposals' = proposals + 1
  /\ UNCHANGED <<mode, calls, crashes>>

\* No signal, no lease, an empty or unchanged proposal, a completed plan or a
\* version that moved: the caller goes on with the copy it has.
RefuseReplan(p) ==
  /\ pc[p] = "replan"
  /\ \/ /\ after[p] = "repair" /\ Return(p) /\ UNCHANGED db
     \/ /\ after[p] = "completed" /\ Goto(p, "claim")
        /\ base' = [base EXCEPT ![p] = FirstPlan] /\ after' = [after EXCEPT ![p] = "none"]
        /\ UNCHANGED <<db, mem, todo, run, call>>
     \/ /\ after[p] = "failed" /\ mode = "LINEAR"
        /\ ReturnWith(p, [mem[p] EXCEPT !.status = "FAILED"])
     \/ /\ after[p] = "failed" /\ mode # "LINEAR"
        /\ Update(p, mem[p]) /\ Goto(p, Back) /\ run' = [run EXCEPT ![p] = 0]
        /\ base' = [base EXCEPT ![p] = FirstPlan] /\ after' = [after EXCEPT ![p] = "none"]
        /\ UNCHANGED <<todo, call>>
  /\ UNCHANGED <<mode, proposals, calls, crashes>>

\* Every non-stale step is VERIFIED, and at least one is.
PlanDone(rows) == Having(rows, {"VERIFIED", "STALE"}) = DOMAIN rows /\ Having(rows, {"VERIFIED"}) # {}

\* The end of the dependency loop: go round again, wait, complete or fail.
LoopEnd(p) ==
  /\ pc[p] = "dispatch" /\ todo[p] = {}
  /\ LET rows == mem[p].rows
         s == Schedule(rows)
         end(status) == ReturnWith(p, [SetRows(p, WithAll(rows, s.blocked, "BLOCKED")) EXCEPT !.status = status])
     IN  IF s.ready # {} THEN Goto(p, "schedule") /\ UNCHANGED <<db, mem, Frame>>
         ELSE IF Having(rows, {"WAITING_FOR_HUMAN_APPROVAL"}) # {}
         THEN ReturnWith(p, [mem[p] EXCEPT !.status = "WAITING_FOR_HUMAN_APPROVAL"])
         ELSE IF Having(rows, {"WAITING_FOR_VERIFICATION"}) # {}
         THEN ReturnWith(p, [mem[p] EXCEPT !.status = "WAITING_FOR_VERIFICATION"])
         ELSE IF s.blocked = {} /\ s.pending = {} /\ PlanDone(rows) THEN end("COMPLETED")
         ELSE end("FAILED")
  /\ UNCHANGED <<mode, proposals, calls, crashes>>

(***************************************************************************)
(* The LINEAR loop of execute_goal: one pass over the listed steps.  It    *)
(* evaluates preconditions with no context, and takes a step a dead        *)
(* process left RUNNING for a blocked one.                                 *)
(***************************************************************************)
LinearLoad(p) ==
  /\ pc[p] = "linear_load"
  /\ mem' = [mem EXCEPT ![p] = db]
  /\ todo' = [todo EXCEPT ![p] = Having(db.rows, {"PENDING", "RUNNING", "WAITING_FOR_HUMAN_APPROVAL"})]
  /\ Goto(p, "linear")
  /\ UNCHANGED <<db, mode, run, call, base, after, proposals, calls, crashes>>

LinearStep(p) ==
  /\ pc[p] = "linear" /\ todo[p] # {}
  /\ LET i == Min(todo[p])
         mine == mem[p].rows
         why == evaluate_step_eligibility(mine, i, FALSE)
         skip(s) == /\ Update(p, SetRows(p, With(mine, i, s))) /\ todo' = [todo EXCEPT ![p] = @ \ {i}]
                    /\ UNCHANGED <<pc, run, call, base, after>>
     IN  \/ why = "precondition_failed" /\ skip("PRECONDITION_FAILED")
         \/ why \notin {"precondition_failed", "all_conditions_met"} /\ skip("BLOCKED")
         \/ /\ why = "all_conditions_met" /\ NeedsApproval(p, i)
            /\ ReturnWith(p, [SetRows(p, With(mine, i, "WAITING_FOR_HUMAN_APPROVAL"))
                                 EXCEPT !.status = "WAITING_FOR_HUMAN_APPROVAL"])
         \/ /\ why = "all_conditions_met" /\ ~NeedsApproval(p, i)
            /\ Update(p, SetRows(p, With(mine, i, "RUNNING"))) /\ todo' = [todo EXCEPT ![p] = @ \ {i}]
            /\ run' = [run EXCEPT ![p] = i] /\ Goto(p, "running") /\ UNCHANGED <<call, base, after>>
  /\ UNCHANGED <<mode, proposals, calls, crashes>>

LinearEnd(p) ==
  /\ pc[p] = "linear" /\ todo[p] = {}
  /\ ReturnWith(p, [db EXCEPT !.status =
       IF PlanDone(db.rows) THEN "COMPLETED"
       ELSE IF Having(db.rows, {"WAITING_FOR_VERIFICATION"}) # {} THEN "WAITING_FOR_VERIFICATION"
       ELSE "FAILED"])
  /\ UNCHANGED <<mode, proposals, calls, crashes>>

\* The process dies: what it had not written is gone.
Crash(p) ==
  /\ pc[p] # "idle" /\ crashes < MaxCrashes /\ crashes' = crashes + 1
  /\ Return(p)
  /\ UNCHANGED <<db, mode, proposals, calls>>

Step(p) ==
  \/ ScheduleSteps(p) \/ Dispatch(p) \/ RunFails(p) \/ RunCompletes(p) \/ LineageLost(p)
  \/ Claim(p) \/ AcceptReplan(p) \/ RefuseReplan(p) \/ LoopEnd(p)
  \/ LinearLoad(p) \/ LinearStep(p) \/ LinearEnd(p)

Next == \E p \in Procs :
  execute_goal(p) \/ resume_after_approval(p) \/ repair_after_failure(p) \/ Step(p) \/ Crash(p)

Spec == Init /\ [][Next]_vars
FairSpec == Spec /\ \A p \in Procs : WF_vars(Step(p))

(***************************************************************************)
(* Properties                                                              *)
(***************************************************************************)
\* Every stored plan is one that Plan.validate_dependencies accepts, each
\* process is at a known place and its step is a step of the plan.
TypeOK ==
  /\ db.version \in Nat /\ db.status \in PlanStatus /\ db.started \in BOOLEAN
  /\ \A i \in DOMAIN db.rows : db.rows[i] \in Row
  /\ validate_dependencies(db.rows)
  /\ \A p \in Procs : /\ pc[p] \in {"idle", "schedule", "dispatch", "running", "claim", "replan",
                                    "linear_load", "linear"}
                        /\ todo[p] \subseteq DOMAIN mem[p].rows
                        /\ run[p] \in DOMAIN mem[p].rows \cup {0}

\* A step that runs, waits for its verdict or is VERIFIED rests on VERIFIED
\* dependencies only, through repairs, invalidations and replans
\* (models.py: "DEPENDENCY AUTHORITY").
VerifiedGrounded ==
  \A i \in Having(db.rows, {"RUNNING", "WAITING_FOR_VERIFICATION", "VERIFIED"}) :
    \A d \in db.rows[i].dep : db.rows[d].st = "VERIFIED"

\* A COMPLETED plan has a VERIFIED step for every task of the graph: STALE
\* steps, which completion ignores, are superseded ones, never work that was
\* invalidated and not done again.
CompletedMeansDone ==
  db.status = "COMPLETED" =>
    \A s \in Steps : \E i \in DOMAIN db.rows : Original(i) = s /\ db.rows[i].st = "VERIFIED"

\* Verified work is never taken back by a repair or a replan
\* (ODYS_INFRA_PARITY_AUDIT_01.md: "MacroReplanService preserve verified
\* work").  It takes a planner that never proposes the id of a VERIFIED row
\* for a step with another fingerprint: consume does not check.
VerifiedIsForever ==
  [][\A i \in Having(db.rows, {"VERIFIED"}) : db'.rows[i].st = "VERIFIED"]_vars

\* Every call returns: local repairs are counted, and each replan uses one of
\* the planner's proposals.
CallEnds == \A p \in Procs : pc[p] # "idle" ~> pc[p] = "idle"

=============================================================================
