--------------------------- MODULE BenchmarkRun ----------------------------
(***************************************************************************)
(* A batch of frozen benchmark runs, with crashes and resumed batches:     *)
(*                                                                         *)
(*   Phase4Runner, ResultWriter,                                           *)
(*   TraceWriter                    evals/reliability/run_phase4.py        *)
(*   P45BenchmarkExecutor           evals/reliability/p45_executor.py      *)
(*   _OdysRuntime                   .../runtime_factory/odys_factory.py    *)
(*   OfficialOdysRecoveryCoordinator  .../runtime_factory/recovery.py      *)
(*   RunController                  evals/reliability/run_controller.py    *)
(*                                                                         *)
(* A run executes, is validated from outside, and if it is rejected may be *)
(* recovered once: by a local repair, or by one replanned strategy whose   *)
(* verdict is committed to the durable plan.  Its record is appended to    *)
(* raw.jsonl, or to invalid.jsonl when infrastructure failed.  The plan    *)
(* database of a run is temporary; the files of the batch are not.         *)
(***************************************************************************)
EXTENDS RunLedger, FiniteSets

CONSTANTS
  NRuns,        \* runs of the batch
  Assignments,  \* configurations to try: functions from 1..NRuns to Kinds
  Launchers,    \* "runner", "tracing" (a runner that requires traces), "controller"
  MaxCrashes,   \* process crashes
  Identities    \* experiment identities, [protocol, model], of the operator

Kinds == {"minimal", "odys", "aware", "legacy"}
Runs == 1..NRuns

ASSUME BatchConstants ==
  /\ NRuns \in Nat \ {0} /\ MaxCrashes \in Nat
  /\ Assignments \subseteq [Runs -> Kinds]
  /\ Launchers \subseteq {"runner", "tracing", "controller"}
  /\ Identities # {}

VARIABLES
  setup,   \* the configuration of every run, and the launcher
  proc,    \* the process: where it is, the run it is at, its identity
  work,    \* what it knows of the run at hand
  ledger,  \* the run's budget ledger
  plan,    \* the run's recovery plan and signals (its temporary database)
  effect,  \* the phase effect policy
  disk,    \* the files of the batch
  crashes  \* crashes so far

vars == << setup, proc, work, ledger, plan, effect, disk, crashes >>

Verdicts == {"none", "ACCEPTED", "REJECTED"}
Failures == {"none", "task", "systemic", "local_budget", "root_budget", "infra",
             "executor_error", "control"}
NoIdentity == [protocol |-> 0, model |-> 0]
NoRecord == [ok |-> "none", id |-> NoIdentity, fail |-> "none"]

\* What a record keeps of the failure: whether the runtime broke, and how.
FailureClass(f) == IF f \in {"infra", "control", "executor_error"} THEN f ELSE "none"

NewWork ==
  [ err |-> FALSE, diag |-> FALSE, fail |-> "none", first |-> "none",
    final |-> "none", dead |-> FALSE, runtime |-> FALSE, armed |-> FALSE,
    scope |-> "none" ]
NewPlan ==
  [ step |-> "none", alt |-> "none", status |-> "none", accepted |-> FALSE,
    signal |-> FALSE, pending |-> FALSE, epoch |-> 0 ]
NewEffect == [phase |-> "initial", replanned |-> FALSE, alternate |-> FALSE]
EmptyDisk ==
  [ raw |-> [r \in Runs |-> NoRecord], invalid |-> [r \in Runs |-> NoRecord],
    trace |-> {}, agg |-> {}, torn |-> {}, checkpoint |-> 0 ]

Init ==
  /\ \E a \in Assignments, l \in Launchers : setup = [kind |-> a, launcher |-> l]
  /\ proc = [pc |-> "boot", run |-> 0, id |-> CHOOSE i \in Identities : TRUE]
  /\ work = NewWork /\ plan = NewPlan /\ effect = NewEffect
  /\ ledger = NewLedger(FALSE)
  /\ disk = EmptyDisk
  /\ crashes = 0

Kind == setup.kind[proc.run]
Experiment == Kind \in {"aware", "legacy"}
RecoveryEnabled == Kind # "minimal"
RequireTrace == setup.launcher = "tracing"
Recorded(r) == disk.raw[r].ok # "none" \/ disk.invalid[r].ok # "none"
Go(pc) == proc' = [proc EXCEPT !.pc = pc]

\* An exception of _run_one's inner block: noted, and the fixture is reset.  On
\* its way out it restores an armed fault injector.
Raise(kind) ==
  /\ work' = [work EXCEPT !.err = TRUE, !.armed = FALSE,
                          !.fail = IF kind = "keep" THEN @ ELSE kind]
  /\ Go("reset")

----------------------------------------------------------------------------
(* The batch: opening the files, resuming, choosing the next run.            *)

\* ResultWriter truncates a partial last line; TraceWriter does not.
RepairTorn(torn) == torn \cap {"trace"}

TraceUnreadable == RequireTrace /\ "trace" \in disk.torn

\* The controller keeps the protocol of the batch in its checkpoint.
CheckpointMismatch == disk.checkpoint \notin {0, proc.id.protocol}
Checkpointed == IF setup.launcher = "controller" THEN proc.id.protocol ELSE disk.checkpoint

\* The controller looks at its checkpoint before anything else and raises when it is
\* of another protocol.  It opens the files also when there is nothing left to run.
CheckpointRefused == setup.launcher = "controller" /\ CheckpointMismatch
NothingLeft == setup.launcher = "controller" /\ \A r \in Runs : Recorded(r)

Boot ==
  /\ proc.pc = "boot"
  /\ \/ CheckpointRefused /\ Go("refused") /\ UNCHANGED disk
     \/ /\ ~CheckpointRefused
        /\ disk' = [disk EXCEPT !.torn = RepairTorn(@)]
        /\ Go(IF TraceUnreadable THEN "refused" ELSE IF NothingLeft THEN "done" ELSE "next")
  /\ UNCHANGED << setup, work, ledger, plan, effect, crashes >>

\* assert_resume_compatible: a record of another experiment is not reused.
StoredIdentity(r) == IF disk.raw[r].ok # "none" THEN disk.raw[r].id ELSE disk.invalid[r].id

\* A broken form: a recorded run is run again.
MayBeginAgain(r) == TRUE
MayBegin(r) == ~Recorded(r)

ResumeCompatible(r) == StoredIdentity(r) = proc.id

\* The next run of the batch: a recorded one is passed over if it may be, any
\* other begins.
AdvanceTo(r, passable) ==
  \/ /\ ~MayBegin(r) /\ UNCHANGED effect
     /\ proc' = IF passable THEN [proc EXCEPT !.run = r] ELSE [proc EXCEPT !.pc = "refused"]
  \/ /\ MayBegin(r)
     /\ proc' = [proc EXCEPT !.pc = "prepare", !.run = r]
     /\ effect' = [effect EXCEPT !.alternate = FALSE]

NextRun ==
  /\ proc.pc = "next" /\ setup.launcher # "controller"
  /\ IF proc.run = NRuns THEN Go("finish") /\ UNCHANGED effect
     ELSE LET r == proc.run + 1
          IN  AdvanceTo(r, ResumeCompatible(r) /\ (RequireTrace => r \in disk.trace))
  /\ UNCHANGED << setup, work, ledger, plan, disk, crashes >>

\* The controller gives the runner only the runs that have no record, so the
\* runner has none to compare.
ControllerNext ==
  /\ proc.pc = "next" /\ setup.launcher = "controller"
  /\ IF proc.run = NRuns THEN Go("finish") /\ UNCHANGED effect
     ELSE AdvanceTo(proc.run + 1, TRUE)
  /\ UNCHANGED << setup, work, ledger, plan, disk, crashes >>

\* The batch ends by rewriting the aggregation input from raw.jsonl.
ValidRuns == { r \in Runs : disk.raw[r].ok # "none" }
FinishBatchWithoutAggregation ==
  /\ proc.pc = "finish" /\ Go("done")
  /\ UNCHANGED << setup, work, ledger, plan, effect, disk, crashes >>
FinishBatch ==
  /\ proc.pc = "finish" /\ Go("done")
  /\ disk' = [disk EXCEPT !.agg = ValidRuns]
  /\ UNCHANGED << setup, work, ledger, plan, effect, crashes >>

----------------------------------------------------------------------------
(* Execution.                                                                *)

\* FixtureManager.prepare refuses a fixture that drifted; nothing was set up,
\* so there is nothing to reset.
PrepareFixture ==
  /\ proc.pc = "prepare"
  /\ \/ Go("start") /\ UNCHANGED work
     \/ Go("invalid") /\ work' = [work EXCEPT !.err = TRUE, !.fail = "infra"]
  /\ UNCHANGED << setup, ledger, plan, effect, disk, crashes >>

\* prepare: the recovery plan of an Odys run starts from a classified failure, so
\* that a rejection finds it ready.
PreparedPlan == [plan EXCEPT !.step = "CLASSIFIED_FAILURE", !.status = "FAILED", !.epoch = 1]

\* An exception of the executor becomes an outcome of the run.
ExecutorError == [work EXCEPT !.fail = "executor_error", !.armed = FALSE]

\* The factory of the configuration builds the runtime, or raises: that is an
\* outcome of the run, not an exception.
RuntimeBuilt == [work EXCEPT !.runtime = TRUE]

\* A frozen attempt-terminal fault is armed at the tool boundary of the runtime,
\* for the initial attempt only.
WithFault(w, fault) == [w EXCEPT !.armed = fault = "attempt_terminal"]
FaultTypes == {"attempt_terminal", "other"}

\* A provider that is missing, or proves another identity, is an infrastructure
\* failure before the run has a budget.
ProviderUnavailable == Raise("infra") /\ UNCHANGED << ledger, effect, plan >>

\* The executor's setup: ledger, provider context, workspace, fault, effect
\* policy, then the runtime and (for Odys) the durable recovery plan.
StartRuntime ==
  /\ proc.pc = "start" /\ ~work.dead
  /\ \/ ProviderUnavailable
     \/ /\ ledger' = NewLedger(Experiment)
        /\ effect' = BindPhase(effect, "initial")
        /\ \/ /\ Go("running")
              /\ \E f \in FaultTypes : work' = WithFault(RuntimeBuilt, f)
              /\ plan' = IF Kind = "minimal" THEN plan ELSE PreparedPlan
           \/ Go("validate") /\ work' = ExecutorError /\ UNCHANGED plan
  /\ UNCHANGED << setup, disk, crashes >>

\* The injector fires once, before the tool of a requested call is committed, and
\* ends the attempt as a failure of the task.
AttemptTerminalFault ==
  /\ proc.pc = "running" /\ ~work.dead /\ work.armed
  /\ work' = [work EXCEPT !.armed = FALSE, !.fail = "task"]
  /\ Go("validate")
  /\ UNCHANGED << setup, ledger, plan, effect, disk, crashes >>

CallPhase == IF proc.pc = "running" THEN "initial" ELSE "recovery"

\* The accounting of the initial attempt: an exhausted ledger is a root failure,
\* whatever the runtime made of it.
RootBudgetFailure == [work EXCEPT !.fail = "root_budget", !.armed = FALSE]

\* One provider call; a refused one ends the attempt.  The minimal runtime makes
\* a single one.
ProviderCall ==
  /\ proc.pc \in {"running", "repair", "post"} /\ ~work.dead
  /\ Kind = "minimal" => ProviderCalls(ledger) = 0
  /\ ledger' = Reserve(ledger, CallPhase)
  /\ IF ~Refused(ledger) THEN UNCHANGED << proc, work, plan >>
     ELSE CASE proc.pc = "running" ->
                 /\ Go("validate") /\ UNCHANGED plan
                 /\ work' = RootBudgetFailure
            [] proc.pc = "repair" ->
                 /\ Go("project") /\ UNCHANGED work
                 /\ plan' = [plan EXCEPT !.step = "FAILED", !.status = "FAILED"]
            [] proc.pc = "post" ->
                 /\ Go("project") /\ UNCHANGED work
                 /\ plan' = [plan EXCEPT !.alt = "FAILED", !.status = "FAILED",
                                         !.pending = work.scope = "MACRO_REPLAN"]
  /\ UNCHANGED << setup, effect, disk, crashes >>

\* A tool tries the experiment's alternate edit.
AlternateEdit ==
  /\ proc.pc \in {"running", "repair", "post"} /\ ~work.dead /\ Experiment
  /\ Authorized(effect) /\ effect' = [effect EXCEPT !.alternate = TRUE]
  /\ UNCHANGED << setup, proc, work, ledger, plan, disk, crashes >>

\* The aware policy gives the run's controller to the initial attempt: a lack
\* of progress becomes a durable typed signal.
TypedSignal ==
  /\ proc.pc = "running" /\ Kind = "aware" /\ ~plan.signal
  /\ plan' = [plan EXCEPT !.signal = TRUE]
  /\ UNCHANGED << setup, proc, work, ledger, effect, disk, crashes >>

\* The runtime's outcome and its classification: an infrastructure failure is
\* one no controlled fault explains.  The minimal runtime answers with its one
\* response; what it could not parse is the task's failure, what it did not
\* expect the infrastructure's.
LocalBudgetFailures == {"local_budget"}
RuntimeOutcomes == {"none", "task", "systemic", "infra"} \cup LocalBudgetFailures
MinimalCompletion == {"none"}
MinimalFailures == {"task", "infra"}
Outcomes == IF Kind = "minimal" THEN MinimalCompletion \cup MinimalFailures ELSE RuntimeOutcomes

\* The fixture is observed after the runtime: state that cannot be parsed is a
\* failure of the task, whatever the runtime reported.
Observed(f) == {f, "task"}

RuntimeEnds ==
  /\ proc.pc = "running" /\ ~work.dead
  /\ \/ \E f \in Outcomes : \E g \in Observed(f) :
          work' = [work EXCEPT !.fail = g, !.armed = FALSE]
     \/ work' = ExecutorError
  /\ Go("validate")
  /\ UNCHANGED << setup, ledger, plan, effect, disk, crashes >>

\* The root deadline or a cancellation, at any time while a run is executing.
Active == proc.pc \notin {"boot", "next", "finish", "done", "refused", "down"}
Expire ==
  /\ Active /\ ~work.dead
  /\ work' = [work EXCEPT !.dead = TRUE]
  /\ UNCHANGED << setup, proc, ledger, plan, effect, disk, crashes >>

\* Where the control token is checked, a terminated run is infrastructure.
Checked == {"start", "running", "validate", "validated", "delegate", "classify", "repair",
            "replan", "post", "project", "merge", "finalize", "finalized"}
ControlStops ==
  /\ proc.pc \in Checked /\ work.dead
  /\ Raise("control")
  /\ UNCHANGED << setup, ledger, plan, effect, disk, crashes >>

----------------------------------------------------------------------------
(* External validation and the recovery boundary.                            *)

IsInfrastructure(f) == f = "infra"

\* The external validator compares the declared effects with the observed state.
ExternalVerdicts == {"ACCEPTED", "REJECTED"}

Validate ==
  /\ proc.pc = "validate" /\ ~work.dead
  /\ IF IsInfrastructure(work.fail) THEN Raise("keep")
     ELSE /\ Go("validated")
          /\ \E v \in ExternalVerdicts :
               work' = [work EXCEPT !.first = v, !.final = v]
  /\ UNCHANGED << setup, ledger, plan, effect, disk, crashes >>

\* A rejection enters recovery unless the configuration, the failure or the
\* budget forbids it.
MayRecover ==
  /\ work.first = "REJECTED" /\ RecoveryEnabled
  /\ work.fail # "root_budget"
  /\ work.fail \in LocalBudgetFailures => CanStartRepair(ledger)

\* The trace of the initial attempt exists from here on.
RecoverGuard ==
  /\ proc.pc = "validated" /\ ~work.dead
  /\ work' = [work EXCEPT !.diag = TRUE]
  /\ Go(IF MayRecover THEN "delegate" ELSE "trace")
  /\ UNCHANGED << setup, ledger, plan, effect, disk, crashes >>

\* The executor's recovery entry: the single repair slot of the ledger, then
\* the runtime, which must be the recoverable one.
Delegate ==
  /\ proc.pc = "delegate" /\ ~work.dead
  /\ IF ~CanStartRepair(ledger) THEN Go("trace") /\ UNCHANGED << work, ledger >>
     ELSE /\ ledger' = ReserveRepair(ledger)
          /\ IF work.runtime THEN Go("classify") /\ UNCHANGED work ELSE Raise("infra")
  /\ UNCHANGED << setup, plan, effect, disk, crashes >>

\* Provider and quota failures are systemic; a durable typed signal makes any
\* rejection a macro replan, in the aware experiment only.
Scope == IF work.fail = "systemic" \/ (Kind = "aware" /\ plan.signal)
           THEN "MACRO_REPLAN" ELSE "LOCAL"

ClassifyFailure ==
  /\ proc.pc = "classify" /\ ~work.dead
  /\ work' = [work EXCEPT !.scope = Scope]
  /\ plan' = [plan EXCEPT !.step = "CLASSIFIED_FAILURE"]
  /\ effect' = BindPhase(effect, "recovery")
  /\ Go(IF Scope = "MACRO_REPLAN" THEN "replan" ELSE "repair")
  /\ UNCHANGED << setup, ledger, disk, crashes >>

\* The bounded local repair ends; outside the official path it may escalate.
LocalRepair ==
  /\ proc.pc = "repair" /\ ~work.dead
  /\ UNCHANGED << setup, ledger, effect, disk, crashes, work >>
  /\ \/ /\ Go("project")
        /\ \E s \in {"VERIFIED", "CLASSIFIED_FAILURE"} :
             plan' = [plan EXCEPT !.step = s,
                       !.status = IF s = "VERIFIED" THEN "COMPLETED" ELSE "FAILED"]
     \/ Experiment /\ Go("replan") /\ UNCHANGED plan

\* _reserve_replan and the planner: acceptance is durable before the strategy
\* runs.  Without acceptance a macro scope has no step to run (an error), and
\* an escalated local repair stays failed.
ReplanAccepted ==
  /\ Experiment /\ CanReplan(ledger)
  /\ ledger' = ReserveReplan(ledger)
  /\ plan' = [plan EXCEPT !.accepted = TRUE, !.step = "STALE", !.alt = "PENDING",
                          !.epoch = @ + 1, !.status = "RUNNING"]
  /\ effect' = MarkReplanAccepted(effect)
  /\ Go("post") /\ UNCHANGED work

ReplanRefused(then) ==
  /\ ledger' = IF Experiment /\ CanReplan(ledger) THEN ReserveReplan(ledger) ELSE ledger
  /\ plan' = [plan EXCEPT !.step = "CLASSIFIED_FAILURE", !.status = "FAILED"]
  /\ UNCHANGED effect
  /\ IF work.scope = "MACRO_REPLAN" THEN Raise("infra") ELSE Go(then) /\ UNCHANGED work

\* A broken form: the repair lease is not one-shot.
MacroReplanRepairs ==
  /\ proc.pc = "replan" /\ ~work.dead
  /\ ReplanAccepted \/ ReplanRefused("repair")
  /\ UNCHANGED << setup, disk, crashes >>
MacroReplan ==
  /\ proc.pc = "replan" /\ ~work.dead
  /\ ReplanAccepted \/ ReplanRefused("project")
  /\ UNCHANGED << setup, disk, crashes >>

\* The replanned strategy runs under the external validator's authority.  Only
\* the macro boundary registers the pending finalization.
PostReplan ==
  /\ proc.pc = "post" /\ ~work.dead
  /\ \E s \in {"WAITING_FOR_VERIFICATION", "FAILED"} :
       plan' = [plan EXCEPT !.alt = s, !.pending = work.scope = "MACRO_REPLAN",
                 !.status = s]
  /\ Go("project")
  /\ UNCHANGED << setup, work, ledger, effect, disk, crashes >>

\* The bounded recovery outcome; missing lineage or events are an error.
RecoveryOutcome == Go("merge") /\ UNCHANGED work
TraceIncomplete == Raise("infra")

ProjectRecovery ==
  /\ proc.pc = "project" /\ ~work.dead
  /\ RecoveryOutcome \/ TraceIncomplete
  /\ UNCHANGED << setup, ledger, plan, effect, disk, crashes >>

\* The runner merges the attempts and validates the repaired state; only that
\* verdict says whether the recovery succeeded.
Repaired(v) == [work EXCEPT !.final = v]

Revalidate ==
  /\ proc.pc = "merge" /\ ~work.dead
  /\ \E v \in ExternalVerdicts : work' = Repaired(v)
  /\ Go(IF plan.pending THEN "finalize" ELSE "trace")
  /\ UNCHANGED << setup, ledger, plan, effect, disk, crashes >>

\* finalize_after_external_validation, the bridge from the external verdict to
\* the durable plan.  A broken form commits what the strategy claims.
FinalizeWith(v) ==
  [plan EXCEPT !.alt = IF v = "ACCEPTED" THEN "VERIFIED" ELSE "CLASSIFIED_FAILURE",
               !.status = IF v = "ACCEPTED" THEN "COMPLETED" ELSE "FAILED",
               !.pending = FALSE]
FinalizedPlanClaimed ==
  FinalizeWith(IF plan.alt = "WAITING_FOR_VERIFICATION" THEN "ACCEPTED" ELSE "REJECTED")
FinalizedPlan == FinalizeWith(work.final)

Finalize ==
  /\ proc.pc = "finalize" /\ ~work.dead
  /\ plan' = FinalizedPlan
  /\ Go("finalized")
  /\ UNCHANGED << setup, work, ledger, effect, disk, crashes >>

\* The runner checks the finalization's evidence against its own verdict.
CheckFinalization ==
  /\ proc.pc = "finalized" /\ ~work.dead
  /\ IF (plan.alt = "VERIFIED") = (work.final = "ACCEPTED")
       THEN Go("trace") /\ UNCHANGED work
       ELSE Raise("infra")
  /\ UNCHANGED << setup, ledger, plan, effect, disk, crashes >>

----------------------------------------------------------------------------
(* The record: trace, cleanup, raw or invalid.                               *)

\* TraceWriter.append keeps the first trace a run ever wrote, also one that an
\* execution wrote before a crash.
AppendTrace ==
  /\ proc.pc = "trace"
  /\ \/ /\ disk' = IF RequireTrace THEN [disk EXCEPT !.trace = @ \cup {proc.run}] ELSE disk
        /\ Go("reset") /\ UNCHANGED work
     \/ RequireTrace /\ Raise("infra") /\ UNCHANGED disk
  /\ UNCHANGED << setup, ledger, plan, effect, crashes >>

\* The fixture's reset may fail; the executor's cleanup always runs and drops
\* what it held for the run.
Released == NewLedger(FALSE)

ResetAndCleanup ==
  /\ proc.pc = "reset"
  /\ \/ Go(IF work.err THEN "invalid" ELSE "write") /\ UNCHANGED work
     \/ Go("invalid")
        /\ work' = [work EXCEPT !.err = TRUE, !.fail = IF work.err THEN @ ELSE "infra"]
  /\ ledger' = Released
  /\ UNCHANGED << setup, plan, effect, disk, crashes >>

Record == [ok |-> work.final, id |-> proc.id, fail |-> FailureClass(work.fail)]

\* The record must satisfy the frozen result schema, or it is invalid.
SchemaRefuses == Go("invalid") /\ work' = [work EXCEPT !.err = TRUE]

WriteRaw ==
  /\ proc.pc = "write"
  /\ \/ disk' = [disk EXCEPT !.raw[proc.run] = Record] /\ Go("aggregate")
        /\ UNCHANGED work
     \/ SchemaRefuses /\ UNCHANGED disk
  /\ UNCHANGED << setup, ledger, plan, effect, crashes >>

\* The controller's checkpoint and progress follow each run.
Aggregate ==
  /\ proc.pc = "aggregate"
  /\ disk' = [disk EXCEPT !.agg = ValidRuns,
               !.checkpoint = Checkpointed]
  /\ Go("next")
  /\ work' = NewWork /\ plan' = NewPlan
  /\ UNCHANGED << setup, ledger, effect, crashes >>

InvalidFiles(d, rec) == [d EXCEPT !.invalid[proc.run] = rec]

InvalidRecord == [Record EXCEPT !.ok = "INVALID"]

\* The diagnostic trace, if the run got far enough to have one, and the
\* invalid record.
WriteInvalid ==
  /\ proc.pc = "invalid"
  /\ disk' = [InvalidFiles(disk, InvalidRecord) EXCEPT
       !.trace = IF RequireTrace /\ work.diag THEN @ \cup {proc.run} ELSE @,
       !.checkpoint = Checkpointed]
  /\ Go("next")
  /\ work' = NewWork /\ plan' = NewPlan
  /\ UNCHANGED << setup, ledger, effect, crashes >>

----------------------------------------------------------------------------
(* Crash and resume.                                                         *)

\* The process dies, perhaps in the middle of an append.
Tearable == CASE proc.pc = "write" -> {"raw"} [] proc.pc = "invalid" -> {"invalid"}
              [] proc.pc = "trace" /\ RequireTrace -> {"trace"} [] OTHER -> {}
Crash ==
  /\ proc.pc \notin {"done", "refused", "down"} /\ crashes < MaxCrashes
  /\ crashes' = crashes + 1
  /\ \E t \in SUBSET Tearable : disk' = [disk EXCEPT !.torn = @ \cup t]
  /\ proc' = [proc EXCEPT !.pc = "down"]
  /\ work' = NewWork /\ plan' = NewPlan /\ effect' = NewEffect
  /\ ledger' = NewLedger(FALSE)
  /\ UNCHANGED setup

\* The batch is started again, by the same experiment or by another one.
Restart ==
  /\ proc.pc = "down"
  /\ \E i \in Identities : proc' = [pc |-> "boot", run |-> 0, id |-> i]
  /\ UNCHANGED << setup, work, ledger, plan, effect, disk, crashes >>

Stopped == proc.pc \in {"done", "refused"} /\ UNCHANGED vars

Step ==
  \/ Boot \/ NextRun \/ ControllerNext \/ FinishBatch \/ PrepareFixture
  \/ StartRuntime \/ ProviderCall \/ RuntimeEnds \/ ControlStops \/ Validate \/ RecoverGuard
  \/ Delegate \/ ClassifyFailure \/ LocalRepair \/ MacroReplan \/ PostReplan
  \/ ProjectRecovery \/ Revalidate \/ Finalize \/ CheckFinalization
  \/ AppendTrace \/ ResetAndCleanup \/ WriteRaw \/ Aggregate \/ WriteInvalid
  \/ Restart
Next == Step \/ AlternateEdit \/ AttemptTerminalFault \/ TypedSignal \/ Expire \/ Crash \/ Stopped

Spec == Init /\ [][Next]_vars

\* Every step of a run is bounded by code, by the ledger or by a deadline, and
\* the operator restarts a batch that died.
FairSpec == Spec /\ WF_vars(Step)

----------------------------------------------------------------------------
(* Properties.                                                               *)

Records == [ok : Verdicts \cup {"INVALID"}, id : Identities \cup {NoIdentity},
            fail : Failures]

\* Every part of the batch's state has its type.
TypeOK ==
  /\ proc.run \in 0..NRuns /\ proc.id \in Identities
  /\ ledger \in Ledgers
  /\ effect \in [phase : EffectPhases, replanned : BOOLEAN, alternate : BOOLEAN]
  /\ work.fail \in Failures /\ {work.first, work.final} \subseteq Verdicts
  /\ work.scope \in {"none", "LOCAL", "MACRO_REPLAN"}
  /\ \A r \in Runs : /\ {disk.raw[r], disk.invalid[r]} \subseteq Records
                      /\ disk.raw[r].ok # "INVALID"
  /\ disk.agg \cup disk.trace \subseteq Runs /\ disk.torn \subseteq {"raw", "invalid", "trace"}

\* The initial attempt, the repair and the replanned strategy spend one budget:
\* together they never make more provider calls than the frozen protocol allows,
\* a ledger is exhausted only when all were used, and no strategy is accepted
\* that the repair and replan allowances did not pay for.
BudgetIsShared ==
  /\ ProviderCalls(ledger) <= MaxProviderCalls
  /\ ledger.exhausted => ProviderCalls(ledger) = MaxProviderCalls
  /\ (plan.accepted /\ proc.pc \notin {"write", "aggregate", "invalid"}) =>
       ledger.repairs = 1 /\ ledger.replans = 1

\* The durable plan never says more than the external validator: a replanned
\* step is VERIFIED only by an ACCEPTED verdict, and when the run goes on to be
\* recorded, a finalized plan says the verdict that will be recorded.
VerdictAgrees ==
  /\ plan.alt = "VERIFIED" => work.final = "ACCEPTED"
  /\ (proc.pc = "trace" /\ work.scope = "MACRO_REPLAN") =>
       (plan.alt = "VERIFIED") = (work.final = "ACCEPTED")

\* What a reader of the files may rely on (RunRecords): a run is executing until
\* its record is in one of them.
Result ==
  [ r \in Runs |-> IF proc.run = r /\ Active /\ proc.pc # "aggregate" THEN "executing"
                   ELSE IF disk.raw[r].ok # "none" THEN disk.raw[r].ok
                   ELSE IF disk.invalid[r].ok # "none" THEN "INVALID" ELSE "pending" ]

Promise == INSTANCE RunRecords WITH result <- Result, report <- disk.agg

\* The batch keeps the promise of RunRecords across crashes, torn appends and
\* resumed batches: one run executes at a time, a recorded run stays as it was
\* recorded and is never executed again, and the aggregation input is the valid
\* results of the moment it was written.
KeepsPromise == Promise!Spec

\* A finished batch holds one record for every run, and the runner's aggregation
\* input holds exactly the valid ones, also when a crash came between a record
\* and its aggregation.
DoneIsComplete ==
  proc.pc = "done" =>
    /\ \A r \in Runs : (disk.raw[r].ok # "none") # (disk.invalid[r].ok # "none")
    /\ setup.launcher # "controller" => disk.agg = ValidRuns

\* Started often enough, a batch finishes or is refused.
BatchEnds == <>(proc.pc \in {"done", "refused"})
=============================================================================
