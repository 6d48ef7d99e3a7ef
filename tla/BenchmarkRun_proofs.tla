------------------------ MODULE BenchmarkRun_proofs ------------------------
(***************************************************************************)
(* For every batch, every assignment of configurations, every budget and   *)
(* every number of crashes: the budget is shared, the durable plan agrees  *)
(* with the external verdict, a finished batch is complete, and the files  *)
(* keep the promise of RunRecords.                                         *)
(*                                                                         *)
(* Three parts are added to make these inductive: Books says what is in    *)
(* the files while the process is at a place, Paid what the ledger has     *)
(* given out there, Judged what the verdicts and the plan may be there.    *)
(***************************************************************************)
EXTENDS BenchmarkRun, TLAPS

IdlePlaces == {"boot", "next", "finish", "done", "refused", "down"}
EarlyPlaces == {"prepare", "start", "running", "validate", "validated", "delegate", "classify"}
RecoveryPlaces == {"classify", "repair", "replan", "post", "project", "merge", "finalize",
                   "finalized"}
RecordPlaces == {"trace", "reset", "write", "invalid", "aggregate"}
Places == IdlePlaces \cup EarlyPlaces \cup RecoveryPlaces \cup RecordPlaces

\* Places after the first external verdict at which the run has one.
VerdictPlaces == {"validated", "delegate", "trace", "write"} \cup RecoveryPlaces

\* The parts of the state, field by field.
Setups == [kind : [Runs -> Kinds], launcher : {"runner", "tracing", "controller"}]
Procs == [pc : Places, run : 0..NRuns, id : Identities]
Works ==
  [ err : BOOLEAN, diag : BOOLEAN, fail : Failures, first : Verdicts, final : Verdicts,
    dead : BOOLEAN, runtime : BOOLEAN, armed : BOOLEAN,
    scope : {"none", "LOCAL", "MACRO_REPLAN"} ]
PlanWords ==
  {"none", "PENDING", "RUNNING", "WAITING_FOR_VERIFICATION", "VERIFIED", "COMPLETED",
   "CLASSIFIED_FAILURE", "FAILED", "STALE"}
Plans ==
  [ step : PlanWords, alt : PlanWords, status : PlanWords, accepted : BOOLEAN, signal : BOOLEAN,
    pending : BOOLEAN, epoch : Nat ]
Effects == [phase : EffectPhases, replanned : BOOLEAN, alternate : BOOLEAN]
Disks ==
  [ raw : [Runs -> Records], invalid : [Runs -> Records], trace : SUBSET Runs,
    agg : SUBSET Runs, torn : SUBSET {"raw", "invalid", "trace"},
    checkpoint : {0} \cup { i.protocol : i \in Identities } ]

Typed ==
  /\ setup \in Setups /\ proc \in Procs /\ work \in Works /\ ledger \in Ledgers
  /\ plan \in Plans /\ effect \in Effects /\ disk \in Disks /\ crashes \in Nat

\* The files: a run is in at most one of them, everything before the run at hand
\* is in one, and the run at hand is in none until its record is written.
Executing == Active /\ proc.pc # "aggregate"

Books ==
  /\ \A r \in Runs : /\ disk.raw[r].ok \in Verdicts
                     /\ disk.invalid[r].ok \in {"none", "INVALID"}
                     /\ disk.raw[r].ok = "none" \/ disk.invalid[r].ok = "none"
                     /\ r < proc.run => Recorded(r)
  /\ Active => proc.run \in Runs
  /\ Executing => ~Recorded(proc.run)
  /\ proc.pc \in {"next", "finish", "aggregate"} /\ proc.run # 0 => Recorded(proc.run)
  /\ proc.pc = "finish" => proc.run = NRuns
  /\ proc.pc = "boot" => proc.run = 0

\* The ledger: the repair of a recovering run is paid, and no strategy is
\* accepted before the place where one can be.
Paid ==
  /\ proc.pc \in RecoveryPlaces => ledger.repairs = 1
  /\ proc.pc \in IdlePlaces \cup EarlyPlaces \cup {"repair", "replan"} => ~plan.accepted

\* Verdicts, scope and plan.
Judged ==
  /\ proc.pc \in VerdictPlaces => work.final # "none"
  /\ proc.pc = "reset" => work.err \/ work.final # "none"
  /\ proc.pc \in IdlePlaces \cup EarlyPlaces => work.scope = "none"
  /\ proc.pc = "repair" => work.scope = "LOCAL"
  /\ proc.pc \in {"project", "merge"} /\ work.scope = "MACRO_REPLAN" => plan.pending
  /\ proc.pc \in (IdlePlaces \cup EarlyPlaces \cup RecoveryPlaces) \ {"finalized"} =>
       plan.alt # "VERIFIED"

\* The inductive invariant.
IInv ==
  Typed /\ Books /\ Paid /\ Judged /\ BudgetIsShared /\ VerdictAgrees /\ DoneIsComplete

\* The steps that only work on the run at hand.
InsideNext ==
  \/ PrepareFixture \/ StartRuntime \/ ProviderCall \/ RuntimeEnds \/ ControlStops
  \/ Validate \/ RecoverGuard \/ Delegate \/ ClassifyFailure \/ LocalRepair
  \/ MacroReplan \/ PostReplan \/ ProjectRecovery \/ Revalidate \/ Finalize
  \/ CheckFinalization \/ AppendTrace \/ ResetAndCleanup \/ AlternateEdit
  \/ AttemptTerminalFault \/ TypedSignal

USE BatchConstants, LedgerConstants
----------------------------------------------------------------------------
(* Facts about the operators of the model.                                  *)

\* An exception of a run keeps its verdicts and its scope, and is remembered.
LEMMA RaiseFacts ==
  ASSUME work \in Works, proc \in Procs, NEW kind \in Failures \cup {"keep"}, Raise(kind)
  PROVE  /\ work' \in Works /\ work'.err /\ ~work'.armed
         /\ work'.final = work.final /\ work'.scope = work.scope
         /\ proc' \in Procs /\ proc'.pc = "reset"
         /\ proc'.run = proc.run /\ proc'.id = proc.id
<1>1. /\ proc' \in Procs /\ proc'.pc = "reset"
      /\ proc'.run = proc.run /\ proc'.id = proc.id
  BY DEF Raise, Go, Procs, Places, RecordPlaces
<1>2. CASE kind = "keep"
  <2>1. work' = [work EXCEPT !.err = TRUE, !.armed = FALSE, !.fail = work.fail]
    BY <1>2 DEF Raise
  <2>2. QED
    BY <1>1, <2>1 DEF Works
<1>3. CASE kind # "keep"
  <2>1. work' = [work EXCEPT !.err = TRUE, !.armed = FALSE, !.fail = kind]
    BY <1>3 DEF Raise
  <2>2. QED
    BY <1>1, <1>3, <2>1 DEF Works
<1>4. QED
  BY <1>2, <1>3

\* The authorities of a run keep their types.
LEMMA AuthorityTypes ==
  /\ \A b \in BOOLEAN : NewLedger(b) \in Ledgers
  /\ \A l \in Ledgers : \A phase : Reserve(l, phase) \in Ledgers
  /\ \A l \in Ledgers : ReserveRepair(l) \in Ledgers /\ ReserveReplan(l) \in Ledgers
  /\ \A e \in Effects : \A phase : BindPhase(e, phase) \in Effects
  /\ \A e \in Effects : MarkReplanAccepted(e) \in Effects
<1>1. \A b \in BOOLEAN : NewLedger(b) \in Ledgers
  BY DEF NewLedger, Ledgers
<1>2. ASSUME NEW l \in Ledgers, NEW phase
      PROVE  Reserve(l, phase) \in Ledgers
  <2>1. CASE Refused(l)
    <3>1. \A n \in Nat : [l EXCEPT !.exhausted = TRUE, !.blocked = n] \in Ledgers
      BY DEF Ledgers
    <3>2. l.blocked + 1 \in Nat
      BY DEF Ledgers
    <3>3. QED
      BY <2>1, <3>1, <3>2 DEF Reserve
  <2>2. CASE ~Refused(l)
    BY <2>2 DEF Reserve, Ledgers
  <2>3. QED
    BY <2>1, <2>2
<1>3. \A l \in Ledgers : ReserveRepair(l) \in Ledgers /\ ReserveReplan(l) \in Ledgers
  BY DEF ReserveRepair, ReserveReplan, Ledgers
<1>4. \A e \in Effects : \A phase : BindPhase(e, phase) \in Effects
  BY DEF BindPhase, Effects, EffectPhases
<1>5. \A e \in Effects : MarkReplanAccepted(e) \in Effects
  BY DEF MarkReplanAccepted, Effects, EffectPhases
<1>6. QED
  BY <1>1, <1>2, <1>3, <1>4, <1>5

\* What a run starts with.
LEMMA FreshTypes ==
  /\ NewWork \in Works /\ NewPlan \in Plans /\ NewEffect \in Effects
  /\ EmptyDisk \in Disks
<1>1. NewWork \in Works
  BY DEF NewWork, Works, Verdicts, Failures
<1>2. NewPlan \in Plans
  BY DEF NewPlan, Plans, PlanWords
<1>3. NewEffect \in Effects
  BY DEF NewEffect, Effects, EffectPhases
<1>4. EmptyDisk \in Disks
  BY DEF EmptyDisk, Disks, NoRecord, Records, Verdicts, Failures, NoIdentity
<1>5. QED
  BY <1>1, <1>2, <1>3, <1>4

\* Going to a place changes nothing else of the process.
LEMMA GoFacts ==
  ASSUME proc \in Procs, NEW pc \in Places, Go(pc)
  PROVE  proc' \in Procs /\ proc'.pc = pc /\ proc'.run = proc.run /\ proc'.id = proc.id
BY DEF Go, Procs

\* Every place an action goes to is one.
LEMMA PlacesAre ==
  \A pc \in {"boot", "next", "finish", "done", "refused", "down", "prepare", "start", "running",
             "validate", "validated", "delegate", "classify", "repair", "replan", "post",
             "project", "merge", "finalize", "finalized", "trace", "reset", "write",
             "invalid", "aggregate"} : pc \in Places
BY DEF Places, IdlePlaces, EarlyPlaces, RecoveryPlaces, RecordPlaces

----------------------------------------------------------------------------
(* Types.                                                                   *)

\* The steps of a run keep the types.
LEMMA InsideTyped == Typed /\ (Active => proc.run \in Runs) /\ InsideNext => Typed'
<1> SUFFICES ASSUME Typed, Active => proc.run \in Runs, InsideNext PROVE Typed'
  OBVIOUS
<1> USE GoFacts, PlacesAre, RaiseFacts, AuthorityTypes DEF Typed
<1>1. CASE PrepareFixture
  BY <1>1 DEF PrepareFixture, Works, Failures
<1>2. CASE StartRuntime
  <2>1. CASE ProviderUnavailable
    BY <1>2, <2>1 DEF StartRuntime, ProviderUnavailable, Failures
  <2>2. ExecutorError \in Works /\ PreparedPlan \in Plans
    BY DEF ExecutorError, PreparedPlan, Works, Plans, PlanWords, Failures
  <2>3. ASSUME NEW f PROVE WithFault(RuntimeBuilt, f) \in Works
    BY DEF WithFault, RuntimeBuilt, Works
  <2>4. Experiment \in BOOLEAN
    BY DEF Experiment
  <2>5. CASE ~ProviderUnavailable
    BY <1>2, <2>2, <2>3, <2>4, <2>5 DEF StartRuntime
  <2>6. QED
    BY <2>1, <2>5
<1>3. CASE ProviderCall
  <2>1. ledger' \in Ledgers
    BY <1>3 DEF ProviderCall, CallPhase
  <2>2. CASE ~Refused(ledger)
    BY <1>3, <2>1, <2>2 DEF ProviderCall
  <2>3. CASE Refused(ledger)
    <3>1. RootBudgetFailure \in Works
      BY DEF RootBudgetFailure, Works, Failures
    <3>2. CASE proc.pc = "running"
      BY <1>3, <2>1, <2>3, <3>1, <3>2 DEF ProviderCall
    <3>3. CASE proc.pc = "repair"
      <4>1. [plan EXCEPT !.step = "FAILED", !.status = "FAILED"] \in Plans
        BY DEF Plans, PlanWords
      <4>2. QED
        BY <1>3, <2>1, <2>3, <3>3, <4>1 DEF ProviderCall
    <3>4. CASE proc.pc = "post"
      <4>1. [plan EXCEPT !.alt = "FAILED", !.status = "FAILED",
                         !.pending = work.scope = "MACRO_REPLAN"] \in Plans
        BY DEF Plans, PlanWords
      <4>2. QED
        BY <1>3, <2>1, <2>3, <3>4, <4>1 DEF ProviderCall
    <3>5. QED
      BY <1>3, <3>2, <3>3, <3>4 DEF ProviderCall
  <2>4. QED
    BY <2>2, <2>3
<1>4. CASE RuntimeEnds
  <2>1. ExecutorError \in Works
    BY DEF ExecutorError, Works, Failures
  <2>2. ASSUME NEW f \in Outcomes, NEW g \in Observed(f)
        PROVE  [work EXCEPT !.fail = g, !.armed = FALSE] \in Works
    BY DEF Works, Failures, Observed, Outcomes, MinimalCompletion, MinimalFailures,
           RuntimeOutcomes, LocalBudgetFailures
  <2>3. QED
    BY <1>4, <2>1, <2>2 DEF RuntimeEnds
<1>5. CASE ControlStops
  BY <1>5 DEF ControlStops, Failures
<1>6. CASE Validate
  <2>1. CASE IsInfrastructure(work.fail)
    BY <1>6, <2>1 DEF Validate
  <2>2. CASE ~IsInfrastructure(work.fail)
    <3>1. \A v \in ExternalVerdicts : [work EXCEPT !.first = v, !.final = v] \in Works
      BY DEF Works, ExternalVerdicts, Verdicts
    <3>2. QED
      BY <1>6, <2>2, <3>1 DEF Validate
  <2>3. QED
    BY <2>1, <2>2
<1>7. CASE RecoverGuard
  BY <1>7 DEF RecoverGuard, Works
<1>8. CASE Delegate
  BY <1>8 DEF Delegate, Failures
<1>9. CASE ClassifyFailure
  <2>1. work' \in Works
    BY <1>9 DEF ClassifyFailure, Works, Scope
  <2>2. plan' \in Plans
    BY <1>9 DEF ClassifyFailure, Plans, PlanWords
  <2>3. QED
    BY <1>9, <2>1, <2>2 DEF ClassifyFailure
<1>10. CASE LocalRepair
  BY <1>10 DEF LocalRepair, Plans, PlanWords
<1>11. CASE MacroReplan
  <2>1. CASE ReplanAccepted
    <3>1. plan' \in Plans
      <4>1. \A n \in Nat : [plan EXCEPT !.accepted = TRUE, !.step = "STALE", !.alt = "PENDING",
                                       !.epoch = n, !.status = "RUNNING"] \in Plans
        BY DEF Plans, PlanWords
      <4>2. plan.epoch + 1 \in Nat
        BY DEF Plans
      <4>3. QED
        BY <2>1, <4>1, <4>2 DEF ReplanAccepted
    <3>2. QED
      BY <1>11, <2>1, <3>1 DEF MacroReplan, ReplanAccepted
  <2>2. CASE ReplanRefused("project")
    <3>1. plan' \in Plans /\ ledger' \in Ledgers /\ effect' = effect
      BY <2>2 DEF ReplanRefused, Plans, PlanWords
    <3>2. work' \in Works /\ proc' \in Procs
      BY <2>2 DEF ReplanRefused, Failures
    <3>3. QED
      BY <1>11, <3>1, <3>2 DEF MacroReplan
  <2>3. QED
    BY <1>11, <2>1, <2>2 DEF MacroReplan
<1>12. CASE PostReplan
  BY <1>12 DEF PostReplan, Plans, PlanWords
<1>13. CASE ProjectRecovery
  BY <1>13 DEF ProjectRecovery, RecoveryOutcome, TraceIncomplete, Failures
<1>14. CASE Revalidate
  BY <1>14 DEF Revalidate, Repaired, Works, ExternalVerdicts, Verdicts
<1>15. CASE Finalize
  BY <1>15 DEF Finalize, FinalizedPlan, FinalizeWith, Plans, PlanWords
<1>16. CASE CheckFinalization
  BY <1>16 DEF CheckFinalization, Failures
<1>17. CASE AppendTrace
  <2>1. proc.run \in Runs => [disk EXCEPT !.trace = @ \cup {proc.run}] \in Disks
    BY DEF Disks
  <2>2. QED
    BY <1>17, <2>1 DEF AppendTrace, Active, Failures
<1>18. CASE ResetAndCleanup
  BY <1>18 DEF ResetAndCleanup, Released, Works, Failures
<1>19. CASE AlternateEdit
  BY <1>19 DEF AlternateEdit, Effects
<1>20. CASE AttemptTerminalFault
  BY <1>20 DEF AttemptTerminalFault, Works, Failures
<1>21. CASE TypedSignal
  BY <1>21 DEF TypedSignal, Plans
<1>22. QED
  BY <1>1, <1>2, <1>3, <1>4, <1>5, <1>6, <1>7, <1>8, <1>9, <1>10, <1>11, <1>12, <1>13,
     <1>14, <1>15, <1>16, <1>17, <1>18, <1>19, <1>20, <1>21 DEF InsideNext

\* The records a run writes, and the files they are written to.
LEMMA RecordTypes ==
  ASSUME Typed
  PROVE  /\ Record \in Records /\ InvalidRecord \in Records
         /\ Record.ok = work.final /\ InvalidRecord.ok = "INVALID"
<1>1. FailureClass(work.fail) \in Failures
  BY DEF FailureClass, Failures
<1>2. QED
  BY <1>1 DEF Typed, Works, Procs, Record, InvalidRecord, Records, Verdicts

\* The steps that choose a run or write the files keep the types.
LEMMA FileTyped ==
  ASSUME Typed, Active => proc.run \in Runs,
         \/ Boot \/ NextRun \/ ControllerNext \/ FinishBatch \/ WriteRaw \/ Aggregate
         \/ WriteInvalid \/ Crash \/ Restart \/ Expire
  PROVE  Typed'
<1> USE GoFacts, PlacesAre, AuthorityTypes, FreshTypes DEF Typed
<1>1. CASE Boot
  <2>1. disk' \in Disks
    BY <1>1 DEF Boot, Disks, RepairTorn
  <2>2. QED
    BY <1>1, <2>1 DEF Boot
<1>2. ASSUME NEW r \in Runs, NEW p, AdvanceTo(r, p)
      PROVE  proc' \in Procs /\ effect' \in Effects
  <2>1. CASE ~MayBegin(r)
    BY <1>2, <2>1 DEF AdvanceTo, Procs, Runs
  <2>2. CASE MayBegin(r)
    <3>1. proc' \in Procs
      <4>1. proc' = [proc EXCEPT !.pc = "prepare", !.run = r]
        BY <1>2, <2>2 DEF AdvanceTo
      <4>2. r \in 0..NRuns /\ "prepare" \in Places
        BY DEF Runs
      <4>3. QED
        BY <4>1, <4>2 DEF Procs
    <3>2. effect' \in Effects
      BY <1>2, <2>2 DEF AdvanceTo, Effects
    <3>3. QED
      BY <3>1, <3>2
  <2>3. QED
    BY <2>1, <2>2
<1>3. proc.run # NRuns => proc.run + 1 \in Runs
  BY DEF Procs, Runs
<1>4. CASE NextRun
  BY <1>2, <1>3, <1>4 DEF NextRun
<1>5. CASE ControllerNext
  BY <1>2, <1>3, <1>5 DEF ControllerNext
<1>6. ValidRuns \in SUBSET Runs
  BY DEF ValidRuns
<1>7. CASE FinishBatch
  <2>1. disk' \in Disks
    BY <1>6, <1>7 DEF FinishBatch, Disks
  <2>2. QED
    BY <1>7, <2>1 DEF FinishBatch
<1>8. CASE WriteRaw
  <2>1. [disk EXCEPT !.raw[proc.run] = Record] \in Disks
    BY RecordTypes DEF Disks
  <2>2. CASE disk' = [disk EXCEPT !.raw[proc.run] = Record] /\ Go("aggregate") /\ UNCHANGED work
    BY <1>8, <2>1, <2>2 DEF WriteRaw
  <2>3. CASE SchemaRefuses /\ UNCHANGED disk
    BY <1>8, <2>3 DEF WriteRaw, SchemaRefuses, Works
  <2>4. QED
    BY <1>8, <2>2, <2>3 DEF WriteRaw
<1>9. Checkpointed \in {0} \cup { i.protocol : i \in Identities }
  BY DEF Checkpointed, Procs, Disks
<1>10. CASE Aggregate
  <2>1. disk' \in Disks
    BY <1>6, <1>9, <1>10 DEF Aggregate, Disks
  <2>2. QED
    BY <1>10, <2>1 DEF Aggregate
<1>11. CASE WriteInvalid
  <2>1. proc.run \in Runs
    BY <1>11 DEF WriteInvalid, Active
  <2>2. disk' \in Disks
    BY <1>9, <1>11, <2>1, RecordTypes DEF WriteInvalid, InvalidFiles, Disks
  <2>3. QED
    BY <1>11, <2>2 DEF WriteInvalid
<1>12. CASE Crash
  <2>1. disk' \in Disks
    BY <1>12 DEF Crash, Tearable, Disks
  <2>2. proc' \in Procs /\ crashes' \in Nat
    BY <1>12 DEF Crash, Procs
  <2>3. QED
    BY <1>12, <2>1, <2>2 DEF Crash
<1>13. CASE Restart
  BY <1>13 DEF Restart, Procs
<1>14. CASE Expire
  BY <1>14 DEF Expire, Works
<1>15. QED
  BY <1>1, <1>4, <1>5, <1>7, <1>8, <1>10, <1>11, <1>12, <1>13, <1>14
----------------------------------------------------------------------------
(* A step of a run leaves the files alone, except for its trace.            *)

\* Where a step of a run may begin and end.
InsidePlaces == Places \ (IdlePlaces \cup {"aggregate"})

\* Within a run: neither the records nor the run at hand change.
Quiet ==
  /\ proc.pc \in InsidePlaces /\ proc'.pc \in InsidePlaces
  /\ proc'.run = proc.run /\ proc'.id = proc.id /\ setup' = setup
  /\ disk'.raw = disk.raw /\ disk'.invalid = disk.invalid /\ disk'.agg = disk.agg

\* The steps of a run are quiet.
LEMMA InsideQuiet ==
  ASSUME Typed, InsideNext
  PROVE  Quiet
<1> DEFINE Stays == proc'.pc \in InsidePlaces /\ proc'.run = proc.run /\ proc'.id = proc.id
<1>1. ASSUME NEW pc \in InsidePlaces, Go(pc)
      PROVE  Stays
  BY <1>1 DEF Typed, Go, Procs, InsidePlaces
<1>2. ASSUME NEW kind, Raise(kind)
      PROVE  Stays
  BY <1>2 DEF Typed, Raise, Go, Procs, InsidePlaces, Places, IdlePlaces, RecordPlaces
<1>3. \A pc \in {"prepare", "start", "running", "validate", "validated", "delegate", "classify",
                 "repair", "replan", "post", "project", "merge", "finalize", "finalized",
                 "trace", "reset", "write", "invalid"} : pc \in InsidePlaces
  BY DEF InsidePlaces, Places, IdlePlaces, EarlyPlaces, RecoveryPlaces, RecordPlaces
<1> HIDE DEF Stays
<1>4. proc' = proc /\ proc.pc \in InsidePlaces => Stays
  BY DEF Stays
<1>5. CASE PrepareFixture
  BY <1>1, <1>2, <1>3, <1>4, <1>5 DEF PrepareFixture, Quiet, Stays
<1>6. CASE StartRuntime
  BY <1>1, <1>2, <1>3, <1>4, <1>6 DEF StartRuntime, ProviderUnavailable, Quiet, Stays
<1>7. CASE ProviderCall
  BY <1>1, <1>2, <1>3, <1>4, <1>7 DEF ProviderCall, Quiet, Stays
<1>8. CASE RuntimeEnds
  BY <1>1, <1>2, <1>3, <1>4, <1>8 DEF RuntimeEnds, Quiet, Stays
<1>9. CASE ControlStops
  BY <1>1, <1>2, <1>3, <1>9 DEF ControlStops, Checked, Quiet, Stays
<1>10. CASE Validate
  BY <1>1, <1>2, <1>3, <1>4, <1>10 DEF Validate, Quiet, Stays
<1>11. CASE RecoverGuard
  BY <1>1, <1>2, <1>3, <1>4, <1>11 DEF RecoverGuard, Quiet, Stays
<1>12. CASE Delegate
  BY <1>1, <1>2, <1>3, <1>4, <1>12 DEF Delegate, Quiet, Stays
<1>13. CASE ClassifyFailure
  BY <1>1, <1>2, <1>3, <1>4, <1>13 DEF ClassifyFailure, Quiet, Stays
<1>14. CASE LocalRepair
  BY <1>1, <1>2, <1>3, <1>4, <1>14 DEF LocalRepair, Quiet, Stays
<1>15. CASE MacroReplan
  BY <1>1, <1>2, <1>3, <1>4, <1>15 DEF MacroReplan, ReplanAccepted, ReplanRefused, Quiet, Stays
<1>16. CASE PostReplan
  BY <1>1, <1>2, <1>3, <1>4, <1>16 DEF PostReplan, Quiet, Stays
<1>17. CASE ProjectRecovery
  BY <1>1, <1>2, <1>3, <1>4, <1>17 DEF ProjectRecovery, RecoveryOutcome, TraceIncomplete, Quiet, Stays
<1>18. CASE Revalidate
  BY <1>1, <1>2, <1>3, <1>4, <1>18 DEF Revalidate, Quiet, Stays
<1>19. CASE Finalize
  BY <1>1, <1>2, <1>3, <1>4, <1>19 DEF Finalize, Quiet, Stays
<1>20. CASE CheckFinalization
  BY <1>1, <1>2, <1>3, <1>4, <1>20 DEF CheckFinalization, Quiet, Stays
<1>21. CASE AppendTrace
  <2>1. disk'.raw = disk.raw /\ disk'.invalid = disk.invalid /\ disk'.agg = disk.agg
    BY <1>21 DEF AppendTrace, Typed, Disks
  <2>2. QED
    BY <1>1, <1>2, <1>3, <1>21, <2>1 DEF AppendTrace, Quiet, Stays
<1>22. CASE ResetAndCleanup
  BY <1>1, <1>2, <1>3, <1>4, <1>22 DEF ResetAndCleanup, Quiet, Stays
<1>23. CASE AlternateEdit
  BY <1>1, <1>2, <1>3, <1>4, <1>23 DEF AlternateEdit, Quiet, Stays
<1>24. CASE AttemptTerminalFault
  BY <1>1, <1>2, <1>3, <1>4, <1>24 DEF AttemptTerminalFault, Quiet, Stays
<1>25. CASE TypedSignal
  BY <1>1, <1>2, <1>3, <1>4, <1>25 DEF TypedSignal, Quiet, Stays
<1>26. QED
  BY <1>5, <1>6, <1>7, <1>8, <1>9, <1>10, <1>11, <1>12, <1>13, <1>14, <1>15, <1>16, <1>17, <1>18, <1>19, <1>20, <1>21, <1>22, <1>23, <1>24, <1>25 DEF InsideNext
----------------------------------------------------------------------------
(* Verdicts, scope and plan.                                                *)

\* A step of a run keeps the verdicts, the scope and the plan in agreement.
LEMMA InsideJudged ==
  ASSUME Typed, Judged, VerdictAgrees, InsideNext
  PROVE  Judged' /\ VerdictAgrees'
<1> USE RaiseFacts DEF Typed, Judged, VerdictAgrees, VerdictPlaces, Places, IdlePlaces,
                       EarlyPlaces, RecoveryPlaces, RecordPlaces, Go, Procs, Works, Plans
<1>0. ASSUME NEW kind \in {"infra", "control", "keep"}, Raise(kind), plan'.alt = plan.alt
      PROVE  Judged' /\ VerdictAgrees'
  <2>1. kind \in Failures \cup {"keep"}
    BY DEF Failures
  <2>2. proc'.pc = "reset" /\ work'.err /\ work'.final = work.final
    BY <1>0, <2>1
  <2>3. QED
    BY <1>0, <2>2
<1>1. CASE PrepareFixture
  BY <1>1 DEF PrepareFixture
<1>2. CASE StartRuntime
  <2>1. CASE Raise("infra")
    BY <1>2, <1>0, <2>1 DEF StartRuntime, ProviderUnavailable, PreparedPlan
  <2>2. CASE ~Raise("infra")
    <3>1. work'.scope = work.scope /\ plan'.alt = plan.alt
      BY <1>2, <2>2 DEF StartRuntime, ProviderUnavailable, ExecutorError, WithFault, RuntimeBuilt,
                     PreparedPlan
    <3>2. QED
      BY <1>2, <2>2, <3>1 DEF StartRuntime, ProviderUnavailable
  <2>3. QED
    BY <2>1, <2>2
<1>3. CASE ProviderCall
  <2>1. CASE ~Refused(ledger)
    BY <1>3, <2>1 DEF ProviderCall
  <2>2. CASE Refused(ledger) /\ proc.pc = "running"
    <3>1. plan' = plan /\ proc' = [proc EXCEPT !.pc = "validate"]
          /\ work' = [work EXCEPT !.fail = "root_budget", !.armed = FALSE]
      BY <1>3, <2>2 DEF ProviderCall, RootBudgetFailure
    <3>2. QED
      BY <2>2, <3>1
  <2>3. CASE Refused(ledger) /\ proc.pc = "repair"
    <3>1. /\ work' = work /\ proc' = [proc EXCEPT !.pc = "project"]
          /\ plan' = [plan EXCEPT !.step = "FAILED", !.status = "FAILED"]
      BY <1>3, <2>3 DEF ProviderCall
    <3>2. QED
      BY <2>3, <3>1
  <2>4. CASE Refused(ledger) /\ proc.pc = "post"
    <3>1. /\ work' = work /\ proc' = [proc EXCEPT !.pc = "project"]
          /\ plan' = [plan EXCEPT !.alt = "FAILED", !.status = "FAILED",
                                  !.pending = work.scope = "MACRO_REPLAN"]
      BY <1>3, <2>4 DEF ProviderCall
    <3>2. QED
      BY <2>4, <3>1
  <2>5. QED
    BY <1>3, <2>1, <2>2, <2>3, <2>4 DEF ProviderCall
<1>4. CASE RuntimeEnds
  BY <1>4 DEF RuntimeEnds, ExecutorError
<1>5. CASE ControlStops
  BY <1>5, <1>0 DEF ControlStops
<1>6. CASE Validate
  <2>1. CASE Raise("keep")
    BY <1>6, <1>0, <2>1 DEF Validate
  <2>2. CASE ~Raise("keep")
    BY <1>6, <2>2 DEF Validate, ExternalVerdicts
  <2>3. QED
    BY <2>1, <2>2
<1>7. CASE RecoverGuard
  BY <1>7 DEF RecoverGuard
<1>8. CASE Delegate
  <2>1. CASE Raise("infra")
    BY <1>8, <1>0, <2>1 DEF Delegate
  <2>2. CASE ~Raise("infra")
    BY <1>8, <2>2 DEF Delegate
  <2>3. QED
    BY <2>1, <2>2
<1>9. CASE ClassifyFailure
  <2>1. Scope \in {"LOCAL", "MACRO_REPLAN"}
    BY DEF Scope
  <2>2. QED
    BY <1>9, <2>1 DEF ClassifyFailure
<1>10. CASE LocalRepair
  BY <1>10 DEF LocalRepair
<1>11. CASE MacroReplan
  <2>1. CASE ReplanAccepted
    BY <1>11, <2>1 DEF MacroReplan, ReplanAccepted
  <2>2. CASE ReplanRefused("project")
    <3>1. plan'.alt = plan.alt
      BY <2>2 DEF ReplanRefused
    <3>2. CASE work.scope = "MACRO_REPLAN"
      BY <1>0, <2>2, <3>1, <3>2 DEF ReplanRefused
    <3>3. CASE work.scope # "MACRO_REPLAN"
      BY <1>11, <2>2, <3>1, <3>3 DEF MacroReplan, ReplanRefused
    <3>4. QED
      BY <3>2, <3>3
  <2>3. QED
    BY <1>11, <2>1, <2>2 DEF MacroReplan
<1>12. CASE PostReplan
  BY <1>12 DEF PostReplan
<1>13. CASE ProjectRecovery
  <2>1. CASE Raise("infra")
    BY <1>13, <1>0, <2>1 DEF ProjectRecovery
  <2>2. CASE RecoveryOutcome
    BY <1>13, <2>2 DEF ProjectRecovery, RecoveryOutcome
  <2>3. QED
    BY <1>13, <2>1, <2>2 DEF ProjectRecovery, TraceIncomplete
<1>14. CASE Revalidate
  BY <1>14 DEF Revalidate, Repaired, ExternalVerdicts
<1>15. CASE Finalize
  BY <1>15 DEF Finalize, FinalizedPlan, FinalizeWith
<1>16. CASE CheckFinalization
  <2>1. CASE Raise("infra")
    BY <1>16, <1>0, <2>1 DEF CheckFinalization
  <2>2. CASE ~Raise("infra")
    BY <1>16, <2>2 DEF CheckFinalization
  <2>3. QED
    BY <2>1, <2>2
<1>17. CASE AppendTrace
  <2>1. CASE Raise("infra")
    BY <1>17, <1>0, <2>1 DEF AppendTrace
  <2>2. CASE ~Raise("infra")
    BY <1>17, <2>2 DEF AppendTrace
  <2>3. QED
    BY <2>1, <2>2
<1>18. CASE ResetAndCleanup
  <2>1. work'.final = work.final
    BY <1>18 DEF ResetAndCleanup
  <2>2. proc'.pc \in {"write", "invalid"} /\ (proc'.pc = "write" => ~work.err)
    <3>1. CASE work.err
      BY <1>18, <3>1 DEF ResetAndCleanup
    <3>2. CASE ~work.err
      BY <1>18, <3>2 DEF ResetAndCleanup
    <3>3. QED
      BY <3>1, <3>2
  <2>3. plan' = plan
    BY <1>18 DEF ResetAndCleanup
  <2>4. QED
    BY <1>18, <2>1, <2>2, <2>3 DEF ResetAndCleanup
<1>19. CASE AlternateEdit
  BY <1>19 DEF AlternateEdit
<1>20. CASE AttemptTerminalFault
  BY <1>20 DEF AttemptTerminalFault
<1>21. CASE TypedSignal
  BY <1>21 DEF TypedSignal
<1>22. QED
  BY <1>1, <1>2, <1>3, <1>4, <1>5, <1>6, <1>7, <1>8, <1>9, <1>10, <1>11, <1>12, <1>13, <1>14, <1>15, <1>16, <1>17, <1>18, <1>19, <1>20, <1>21 DEF InsideNext

----------------------------------------------------------------------------
(* The budget.                                                              *)

\* What a ledger may have given out.
Spent(l) ==
  ProviderCalls(l) <= MaxProviderCalls /\ (l.exhausted => ProviderCalls(l) = MaxProviderCalls)

\* A provider call never overdraws the ledger, a refusal marks it exhausted only
\* when it is, and neither touches the allowances.
LEMMA SpentFacts ==
  /\ \A b : Spent(NewLedger(b))
  /\ \A l \in Ledgers : \A phase :
       Spent(l) => /\ Spent(Reserve(l, phase))
                   /\ Reserve(l, phase).repairs = l.repairs
                   /\ Reserve(l, phase).replans = l.replans
  /\ \A l \in Ledgers : Spent(l) => Spent(ReserveRepair(l)) /\ Spent(ReserveReplan(l))
<1>1. ASSUME NEW b PROVE Spent(NewLedger(b))
  BY DEF Spent, NewLedger, ProviderCalls
<1>2. ASSUME NEW l \in Ledgers, NEW phase, Spent(l)
      PROVE  /\ Spent(Reserve(l, phase))
             /\ Reserve(l, phase).repairs = l.repairs /\ Reserve(l, phase).replans = l.replans
  <2>1. CASE Refused(l)
    <3> DEFINE m == [l EXCEPT !.exhausted = TRUE, !.blocked = l.blocked + 1]
    <3>1. /\ m.initial = l.initial /\ m.nested = l.nested
          /\ m.repairs = l.repairs /\ m.replans = l.replans
      BY DEF Ledgers
    <3>2. ProviderCalls(l) = MaxProviderCalls
      BY <1>2, <2>1 DEF Spent, Refused, ProviderCalls, Ledgers
    <3>3. Reserve(l, phase) = m
      BY <2>1 DEF Reserve
    <3> HIDE DEF m
    <3>4. QED
      BY <3>1, <3>2, <3>3 DEF Spent, ProviderCalls
  <2>2. CASE ~Refused(l)
    BY <1>2, <2>2 DEF Reserve, Spent, Refused, ProviderCalls, Ledgers
  <2>3. QED
    BY <2>1, <2>2
<1>3. ASSUME NEW l \in Ledgers, Spent(l)
      PROVE  Spent(ReserveRepair(l)) /\ Spent(ReserveReplan(l))
  BY <1>3 DEF Spent, ReserveRepair, ReserveReplan, ProviderCalls, Ledgers
<1>4. QED
  BY <1>1, <1>2, <1>3

\* A step of a run spends within the ledger, pays its repair before it recovers
\* and its replan before a strategy is accepted.
LEMMA InsidePaid ==
  ASSUME Typed, Paid, BudgetIsShared, InsideNext
  PROVE  Paid' /\ BudgetIsShared'
<1> DEFINE Settled == {"write", "aggregate", "invalid"}
           Unaccepted == IdlePlaces \cup EarlyPlaces \cup {"repair", "replan"}
<1>0. /\ Spent(ledger) /\ (proc.pc \in RecoveryPlaces => ledger.repairs = 1)
      /\ proc.pc \in Unaccepted => ~plan.accepted
      /\ plan.accepted /\ proc.pc \notin Settled => ledger.repairs = 1 /\ ledger.replans = 1
  BY DEF Paid, BudgetIsShared, Spent
<1> SUFFICES
      /\ Spent(ledger') /\ (proc'.pc \in RecoveryPlaces => ledger'.repairs = 1)
      /\ proc'.pc \in Unaccepted => ~plan'.accepted
      /\ plan'.accepted /\ proc'.pc \notin Settled => ledger'.repairs = 1 /\ ledger'.replans = 1
  BY DEF Paid, BudgetIsShared, Spent, ProviderCalls
<1> USE DEF Typed, IdlePlaces, EarlyPlaces, RecoveryPlaces, Go, Procs
<1>r. ASSUME NEW kind, Raise(kind)
      PROVE  proc' = [proc EXCEPT !.pc = "reset"]
  BY <1>r DEF Raise
<1>1. CASE PrepareFixture
  BY <1>0, <1>1 DEF PrepareFixture, Plans
<1>2. CASE StartRuntime
  <2>1. CASE ProviderUnavailable
    BY <1>2, <1>0, <1>r, <2>1 DEF StartRuntime, ProviderUnavailable
  <2>2. CASE ~ProviderUnavailable
    <3>1. Spent(ledger') /\ ~plan.accepted
      BY <1>2, <1>0, <2>2, SpentFacts DEF StartRuntime
    <3>2. plan'.accepted = plan.accepted
      BY <1>2, <2>2 DEF StartRuntime, PreparedPlan, Plans
    <3>3. QED
      BY <1>2, <2>2, <3>1, <3>2 DEF StartRuntime
  <2>3. QED
    BY <2>1, <2>2
<1>3. CASE ProviderCall
  <2>1. /\ Spent(ledger') /\ ledger'.repairs = ledger.repairs
        /\ ledger'.replans = ledger.replans
    BY <1>3, <1>0, SpentFacts DEF ProviderCall
  <2>2. CASE ~Refused(ledger)
    BY <1>3, <1>0, <2>1, <2>2 DEF ProviderCall
  <2>3. CASE Refused(ledger)
    <3>1. plan'.accepted = plan.accepted
      BY <1>3, <2>3 DEF ProviderCall, Plans
    <3>2. /\ proc.pc = "running" => proc' = [proc EXCEPT !.pc = "validate"]
          /\ proc.pc # "running" => proc' = [proc EXCEPT !.pc = "project"]
      BY <1>3, <2>3 DEF ProviderCall
    <3>3. QED
      BY <1>3, <1>0, <2>1, <3>1, <3>2 DEF ProviderCall
  <2>4. QED
    BY <2>2, <2>3
<1>4. CASE RuntimeEnds
  BY <1>0, <1>4 DEF RuntimeEnds, Plans
<1>5. CASE ControlStops
  BY <1>0, <1>r, <1>5 DEF ControlStops, Checked, Plans
<1>6. CASE Validate
  BY <1>0, <1>r, <1>6 DEF Validate, Plans
<1>7. CASE RecoverGuard
  BY <1>0, <1>7 DEF RecoverGuard, Plans
<1>8. CASE Delegate
  <2>1. CASE ~CanStartRepair(ledger)
    BY <1>8, <1>0, <2>1 DEF Delegate
  <2>2. CASE CanStartRepair(ledger)
    <3>1. Spent(ledger') /\ ledger'.repairs = 1
      BY <1>8, <1>0, <2>2, SpentFacts DEF Delegate, ReserveRepair, CanStartRepair, MaxRepairs, Ledgers
    <3>2. ~plan'.accepted /\ proc'.pc \in {"classify", "reset"}
      BY <1>8, <1>0, <1>r, <2>2 DEF Delegate
    <3>3. QED
      BY <3>1, <3>2
  <2>3. QED
    BY <2>1, <2>2
<1>9. CASE ClassifyFailure
  BY <1>0, <1>9 DEF ClassifyFailure, Plans
<1>10. CASE LocalRepair
  BY <1>0, <1>10 DEF LocalRepair, Plans
<1>11. CASE MacroReplan
  <2>1. ledger.repairs = 1 /\ ~plan.accepted
    BY <1>11, <1>0 DEF MacroReplan
  <2>2. CASE ReplanAccepted
    <3>1. Spent(ledger') /\ ledger'.repairs = 1 /\ ledger'.replans = 1
      BY <1>0, <2>1, <2>2, SpentFacts DEF ReplanAccepted, ReserveReplan, CanReplan, Ledgers
    <3>2. proc'.pc = "post"
      BY <2>2 DEF ReplanAccepted
    <3>3. QED
      BY <3>1, <3>2
  <2>3. CASE ReplanRefused("project")
    <3>1. Spent(ledger') /\ ledger'.repairs = 1
      BY <1>0, <2>1, <2>3, SpentFacts DEF ReplanRefused, ReserveReplan, Ledgers
    <3>2. ~plan'.accepted
      BY <2>1, <2>3 DEF ReplanRefused, Plans
    <3>3. QED
      BY <3>1, <3>2
  <2>4. QED
    BY <1>11, <2>2, <2>3 DEF MacroReplan
<1>12. CASE PostReplan
  BY <1>0, <1>12 DEF PostReplan, Plans
<1>13. CASE ProjectRecovery
  BY <1>0, <1>r, <1>13 DEF ProjectRecovery, RecoveryOutcome, TraceIncomplete, Plans
<1>14. CASE Revalidate
  BY <1>0, <1>14 DEF Revalidate, Plans
<1>15. CASE Finalize
  BY <1>0, <1>15 DEF Finalize, FinalizedPlan, FinalizeWith, Plans
<1>16. CASE CheckFinalization
  BY <1>0, <1>r, <1>16 DEF CheckFinalization, Plans
<1>17. CASE AppendTrace
  BY <1>0, <1>r, <1>17 DEF AppendTrace, Plans
<1>18. CASE ResetAndCleanup
  <2>1. Spent(ledger')
    BY <1>18, SpentFacts DEF ResetAndCleanup, Released
  <2>2. proc'.pc \in {"invalid", "write"}
    BY <1>18 DEF ResetAndCleanup
  <2>3. QED
    BY <2>1, <2>2
<1>19. CASE AlternateEdit
  BY <1>0, <1>19 DEF AlternateEdit, Plans
<1>20. CASE AttemptTerminalFault
  BY <1>0, <1>20 DEF AttemptTerminalFault, Plans
<1>21. CASE TypedSignal
  BY <1>0, <1>21 DEF TypedSignal, Plans
<1>22. QED
  BY <1>1, <1>2, <1>3, <1>4, <1>5, <1>6, <1>7, <1>8, <1>9, <1>10, <1>11, <1>12, <1>13, <1>14, <1>15, <1>16, <1>17, <1>18, <1>19, <1>20, <1>21 DEF InsideNext

----------------------------------------------------------------------------
(* The files.                                                               *)

\* Between runs, and when a run is forgotten, nothing is judged or owed.
LEMMA RestingFacts ==
  ASSUME Typed, Paid, Judged, BudgetIsShared, VerdictAgrees,
         proc.pc \in IdlePlaces, proc'.pc \in IdlePlaces \cup {"prepare"},
         UNCHANGED << work, plan, ledger >>
  PROVE  Paid' /\ Judged' /\ BudgetIsShared' /\ VerdictAgrees'
<1>1. Paid' /\ Judged'
  BY DEF Paid, Judged, IdlePlaces, EarlyPlaces, RecoveryPlaces, VerdictPlaces
<1>2. VerdictAgrees'
  BY DEF VerdictAgrees, IdlePlaces
<1>3. BudgetIsShared'
  BY DEF Paid, BudgetIsShared, ProviderCalls, IdlePlaces
<1>4. QED
  BY <1>1, <1>2, <1>3

\* What a run that is over leaves to the next one.
LEMMA ForgottenFacts ==
  ASSUME proc'.pc \in IdlePlaces, work' = NewWork, plan' = NewPlan, Spent(ledger')
  PROVE  Paid' /\ Judged' /\ BudgetIsShared' /\ VerdictAgrees'
<1>1. /\ work'.scope = "none" /\ ~plan'.accepted /\ plan'.alt = "none"
  BY DEF NewWork, NewPlan
<1>2. Paid' /\ Judged' /\ VerdictAgrees'
  BY <1>1 DEF Paid, Judged, VerdictAgrees, IdlePlaces, EarlyPlaces, RecoveryPlaces, VerdictPlaces
<1>3. BudgetIsShared'
  BY <1>1 DEF BudgetIsShared, Spent, ProviderCalls
<1>4. QED
  BY <1>2, <1>3

\* The invariant without the types.
Kept == Books /\ Paid /\ Judged /\ BudgetIsShared /\ VerdictAgrees /\ DoneIsComplete

\* Opening the files, choosing a run, ending the batch, starting it again.
LEMMA BetweenRuns ==
  ASSUME Typed, Kept, Boot \/ NextRun \/ ControllerNext \/ FinishBatch \/ Restart
  PROVE  Kept'
<1> USE DEF Kept
<1>1. Paid' /\ Judged' /\ BudgetIsShared' /\ VerdictAgrees'
  <2>1. UNCHANGED << work, plan, ledger >> /\ proc.pc \in IdlePlaces
    BY DEF Boot, NextRun, ControllerNext, FinishBatch, Restart, IdlePlaces
  <2>2. proc'.pc \in IdlePlaces \cup {"prepare"}
    <3> USE DEF Typed, Procs, Go, IdlePlaces
    <3>1. ASSUME NEW r, NEW p, AdvanceTo(r, p)
          PROVE  proc'.pc \in IdlePlaces \cup {"prepare"}
      BY <2>1, <3>1 DEF AdvanceTo
    <3>2. CASE Boot \/ FinishBatch \/ Restart
      BY <3>2 DEF Boot, FinishBatch, Restart
    <3>3. CASE NextRun \/ ControllerNext
      BY <3>1, <3>3 DEF NextRun, ControllerNext
    <3>4. QED
      BY <3>2, <3>3
  <2>3. QED
    BY <2>1, <2>2, RestingFacts
<1>2. disk'.raw = disk.raw /\ disk'.invalid = disk.invalid
  BY DEF Boot, NextRun, ControllerNext, FinishBatch, Restart, Typed, Disks
<1>3. setup' = setup
  BY DEF Boot, NextRun, ControllerNext, FinishBatch, Restart
<1> USE DEF Typed, Procs, Go
<1>4. CASE Boot
  <2>1. proc'.run = proc.run /\ proc'.pc \in {"next", "done", "refused"}
    BY <1>4 DEF Boot
  <2>2. Books'
    BY <1>2, <1>4, <2>1 DEF Boot, Books, Executing, Active, Recorded
  <2>3. proc'.pc = "done" => setup.launcher = "controller" /\ \A r \in Runs : Recorded(r)
    BY <1>4 DEF Boot, NothingLeft
  <2>4. DoneIsComplete'
    BY <1>2, <1>3, <2>3 DEF DoneIsComplete, Books, Recorded
  <2>5. QED
    BY <1>1, <2>2, <2>4
<1>5. ASSUME NEW p, proc.pc = "next", proc.run # NRuns, AdvanceTo(proc.run + 1, p)
      PROVE  Books' /\ DoneIsComplete'
  <2> DEFINE r == proc.run + 1
  <2>1. r \in Runs /\ \A q \in Runs : q < r => Recorded(q)
    BY <1>5 DEF Books, Runs
  <2>2. CASE ~MayBegin(r)
    <3>1. CASE proc' = [proc EXCEPT !.run = r]
      BY <1>2, <1>5, <2>1, <2>2, <3>1
         DEF Books, Executing, Active, Recorded, MayBegin, DoneIsComplete, Runs
    <3>2. CASE proc' = [proc EXCEPT !.pc = "refused"]
      BY <1>2, <1>5, <3>2 DEF Books, Executing, Active, Recorded, DoneIsComplete, Runs
    <3>3. QED
      BY <1>5, <2>2, <3>1, <3>2 DEF AdvanceTo
  <2>3. CASE MayBegin(r)
    <3>1. proc' = [proc EXCEPT !.pc = "prepare", !.run = r]
      BY <1>5, <2>3 DEF AdvanceTo
    <3>2. QED
      BY <1>2, <1>5, <2>1, <2>3, <3>1
         DEF Books, Executing, Active, Recorded, MayBegin, DoneIsComplete, Runs
  <2>4. QED
    BY <2>2, <2>3
<1>6. ASSUME proc.pc = "next", proc.run = NRuns, Go("finish")
      PROVE  Books' /\ DoneIsComplete'
  BY <1>2, <1>6 DEF Books, Executing, Active, Recorded, DoneIsComplete
<1>7. CASE NextRun
  BY <1>1, <1>5, <1>6, <1>7 DEF NextRun
<1>8. CASE ControllerNext
  BY <1>1, <1>5, <1>6, <1>8 DEF ControllerNext
<1>9. CASE FinishBatch
  <2>1. proc.run = NRuns /\ proc'.run = NRuns /\ proc'.pc = "done"
    BY <1>9 DEF FinishBatch, Books
  <2>2. \A r \in Runs : Recorded(r)
    BY <1>9, <2>1 DEF FinishBatch, Books, Runs
  <2>3. Books'
    BY <1>2, <2>1, <2>2 DEF Books, Executing, Active, Recorded
  <2>4. disk'.agg = ValidRuns /\ ValidRuns' = ValidRuns
    BY <1>2, <1>9 DEF FinishBatch, ValidRuns, Disks
  <2>5. DoneIsComplete'
    BY <1>2, <2>2, <2>4 DEF DoneIsComplete, Books, Recorded
  <2>6. QED
    BY <1>1, <2>3, <2>5
<1>10. CASE Restart
  <2>1. proc'.run = 0 /\ proc'.pc = "boot"
    BY <1>10 DEF Restart
  <2>2. QED
    BY <1>1, <1>2, <2>1 DEF Books, Executing, Active, Recorded, DoneIsComplete, Runs
<1>11. QED
  BY <1>4, <1>7, <1>8, <1>9, <1>10


\* Writing a record, publishing, and the death of the process.
LEMMA RecordSteps ==
  ASSUME Typed, Kept, WriteRaw \/ Aggregate \/ WriteInvalid \/ Crash \/ Expire
  PROVE  Kept'
<1> USE DEF Kept, Typed, Procs, Go
<1>0. Spent(ledger)
  BY DEF BudgetIsShared, Spent
<1>1. CASE WriteRaw
  <2>1. proc.run \in Runs /\ proc'.run = proc.run /\ setup' = setup
    BY <1>1 DEF WriteRaw, SchemaRefuses, Books, Active
  <2>2. UNCHANGED << plan, ledger >> /\ work'.final = work.final
    BY <1>1 DEF WriteRaw, SchemaRefuses, Works
  <2>3. proc'.pc \in {"aggregate", "invalid"}
    BY <1>1 DEF WriteRaw, SchemaRefuses
  <2>4. Paid' /\ Judged' /\ BudgetIsShared' /\ VerdictAgrees' /\ DoneIsComplete'
    BY <1>0, <2>2, <2>3 DEF Paid, Judged, BudgetIsShared, Spent, ProviderCalls, VerdictAgrees,
       DoneIsComplete, IdlePlaces, EarlyPlaces, RecoveryPlaces, VerdictPlaces
  <2>5. CASE disk' = [disk EXCEPT !.raw[proc.run] = Record] /\ Go("aggregate")
    <3>1. disk'.raw = [disk.raw EXCEPT ![proc.run] = Record] /\ disk'.invalid = disk.invalid
      BY <2>5 DEF Disks
    <3>2. Record.ok = work.final /\ work.final \in Verdicts \ {"none"}
      BY <1>1, RecordTypes DEF WriteRaw, Judged, VerdictPlaces, Works
    <3>3. disk.invalid[proc.run].ok = "none"
      BY <1>1, <2>1 DEF WriteRaw, Books, Executing, Active, Recorded
    <3>4. Books'
      BY <2>1, <2>5, <3>1, <3>2, <3>3 DEF Books, Executing, Active, Recorded, Disks
    <3>5. QED
      BY <2>4, <3>4
  <2>6. CASE SchemaRefuses /\ UNCHANGED disk
    BY <1>1, <2>1, <2>4, <2>6 DEF WriteRaw, SchemaRefuses, Books, Executing, Active, Recorded
  <2>7. QED
    BY <1>1, <2>5, <2>6 DEF WriteRaw
<1>2. CASE Aggregate
  <2>1. proc'.pc = "next" /\ proc'.run = proc.run
    BY <1>2 DEF Aggregate
  <2>2. disk'.raw = disk.raw /\ disk'.invalid = disk.invalid
    BY <1>2 DEF Aggregate, Disks
  <2>3. Books' /\ DoneIsComplete'
    BY <1>2, <2>1, <2>2 DEF Aggregate, Books, Executing, Active, Recorded, DoneIsComplete
  <2>4. QED
    BY <1>0, <1>2, <2>1, <2>3, ForgottenFacts DEF Aggregate, IdlePlaces, Spent, ProviderCalls
<1>3. CASE WriteInvalid
  <2>1. proc'.pc = "next" /\ proc'.run = proc.run /\ proc.run \in Runs
    BY <1>3 DEF WriteInvalid, Books, Active
  <2>2. disk'.raw = disk.raw /\ disk'.invalid = [disk.invalid EXCEPT ![proc.run] = InvalidRecord]
    BY <1>3, <2>1 DEF WriteInvalid, InvalidFiles, Disks
  <2>3. disk.raw[proc.run].ok = "none"
    BY <1>3, <2>1 DEF WriteInvalid, Books, Executing, Active, Recorded
  <2>4. Books' /\ DoneIsComplete'
    BY <2>1, <2>2, <2>3, RecordTypes
       DEF Books, Executing, Active, Recorded, DoneIsComplete, Disks
  <2>5. QED
    BY <1>0, <1>3, <2>1, <2>4, ForgottenFacts DEF WriteInvalid, IdlePlaces, Spent, ProviderCalls
<1>4. CASE Crash
  <2>1. proc'.pc = "down" /\ proc'.run = proc.run
    BY <1>4 DEF Crash
  <2>2. disk'.raw = disk.raw /\ disk'.invalid = disk.invalid
    BY <1>4 DEF Crash, Disks
  <2>3. Books' /\ DoneIsComplete'
    BY <2>1, <2>2 DEF Books, Executing, Active, Recorded, DoneIsComplete
  <2>4. Spent(ledger')
    BY <1>4, SpentFacts DEF Crash
  <2>5. QED
    BY <1>4, <2>1, <2>3, <2>4, ForgottenFacts DEF Crash, IdlePlaces
<1>5. CASE Expire
  <2>1. UNCHANGED << setup, proc, ledger, plan, effect, disk, crashes >>
    BY <1>5 DEF Expire
  <2>2. /\ work'.final = work.final /\ work'.scope = work.scope /\ work'.err = work.err
    BY <1>5 DEF Expire, Works
  <2>3. QED
    BY <2>1, <2>2 DEF Books, Executing, Active, Recorded, Paid, Judged, BudgetIsShared,
       VerdictAgrees, DoneIsComplete, ValidRuns, ProviderCalls
<1>6. QED
  BY <1>1, <1>2, <1>3, <1>4, <1>5

\* A quiet step keeps the files in order.
LEMMA QuietBooks ==
  ASSUME Typed, Books, Quiet
  PROVE  Books' /\ DoneIsComplete'
BY DEF Books, Quiet, InsidePlaces, IdlePlaces, Executing, Active, Recorded, DoneIsComplete

----------------------------------------------------------------------------
(* The theorems.                                                            *)

\* The whole invariant holds, whatever the batch, the crashes and the restarts.
THEOREM BatchInductive == Spec => []IInv
<1> USE DEF IInv, Kept
<1>1. Init => IInv
  <2> SUFFICES ASSUME Init PROVE IInv
    OBVIOUS
  <2>1. setup \in Setups
    BY DEF Init, Setups
  <2>2. proc.pc = "boot" /\ proc.run = 0 /\ proc \in Procs
    BY PlacesAre DEF Init, Procs
  <2>3. Typed
    BY <2>1, <2>2, FreshTypes, AuthorityTypes DEF Init, Typed
  <2>4. work.scope = "none" /\ ~plan.accepted /\ plan.alt = "none"
    BY DEF Init, NewWork, NewPlan
  <2>5. Spent(ledger)
    BY SpentFacts DEF Init
  <2>6. \A r \in Runs : disk.raw[r].ok = "none" /\ disk.invalid[r].ok = "none"
    BY DEF Init, EmptyDisk, NoRecord
  <2>7. Books /\ DoneIsComplete
    BY <2>2, <2>6 DEF Books, DoneIsComplete, Executing, Active, Recorded, Verdicts, Runs
  <2>8. Paid /\ Judged /\ VerdictAgrees /\ BudgetIsShared
    BY <2>2, <2>4, <2>5 DEF Paid, Judged, VerdictAgrees, BudgetIsShared, Spent, IdlePlaces,
       EarlyPlaces, RecoveryPlaces, VerdictPlaces
  <2>9. QED
    BY <2>3, <2>7, <2>8
<1>2. IInv /\ [Next]_vars => IInv'
  <2> SUFFICES ASSUME IInv, [Next]_vars PROVE IInv'
    OBVIOUS
  <2>1. Active => proc.run \in Runs
    BY DEF Books
  <2>2. CASE InsideNext
    BY <2>1, <2>2, InsideTyped, InsideQuiet, QuietBooks, InsideJudged, InsidePaid
  <2>3. CASE Boot \/ NextRun \/ ControllerNext \/ FinishBatch \/ Restart
    BY <2>1, <2>3, FileTyped, BetweenRuns
  <2>4. CASE WriteRaw \/ Aggregate \/ WriteInvalid \/ Crash \/ Expire
    BY <2>1, <2>4, FileTyped, RecordSteps
  <2>5. CASE UNCHANGED vars
    BY <2>5 DEF vars, Typed, Books, Executing, Active, Recorded, Paid, Judged, BudgetIsShared,
       VerdictAgrees, DoneIsComplete, ValidRuns, ProviderCalls
  <2>6. QED
    BY <2>2, <2>3, <2>4, <2>5 DEF Next, Step, InsideNext, Stopped
<1>3. QED
  BY <1>1, <1>2, PTL DEF Spec

\* The state of a batch keeps its types.
THEOREM BatchTypeCorrect == Spec => []TypeOK
<1>1. IInv => TypeOK
  <2> SUFFICES ASSUME IInv PROVE TypeOK
    OBVIOUS
  <2>1. \A r \in Runs : {disk.raw[r], disk.invalid[r]} \subseteq Records /\ disk.raw[r].ok # "INVALID"
    BY DEF IInv, Typed, Disks, Books, Verdicts
  <2>2. disk.agg \cup disk.trace \subseteq Runs /\ disk.torn \subseteq {"raw", "invalid", "trace"}
    BY DEF IInv, Typed, Disks
  <2>3. QED
    BY <2>1, <2>2 DEF TypeOK, IInv, Typed, Procs, Works, Effects
<1>2. QED
  BY <1>1, BatchInductive, PTL

\* The initial attempt, the repair and the replanned strategy share one budget,
\* for every budget of the frozen protocol.
THEOREM SharedBudget == Spec => []BudgetIsShared
<1>1. IInv => BudgetIsShared
  BY DEF IInv
<1>2. QED
  BY <1>1, BatchInductive, PTL

\* The durable plan never says more than the external validator.
THEOREM PlanFollowsVerdict == Spec => []VerdictAgrees
<1>1. IInv => VerdictAgrees
  BY DEF IInv
<1>2. QED
  BY <1>1, BatchInductive, PTL

\* A finished batch has one record for every run and publishes the valid ones,
\* whatever crashes and restarts came before.
THEOREM FinishedIsComplete == Spec => []DoneIsComplete
<1>1. IInv => DoneIsComplete
  BY DEF IInv
<1>2. QED
  BY <1>1, BatchInductive, PTL


----------------------------------------------------------------------------
(* Refinement of RunRecords.                                                *)

\* What a reader of the files sees of each run.
LEMMA ResultFacts ==
  ASSUME IInv
  PROVE  /\ Result \in [Runs -> {"executing", "pending", "ACCEPTED", "REJECTED", "INVALID"}]
         /\ \A r \in Runs : Result[r] = "executing" <=> (Executing /\ r = proc.run)
         /\ \A r \in Runs : Result[r] = "pending" <=> (~Recorded(r) /\ ~(Executing /\ r = proc.run))
         /\ \A r \in Runs : Result[r] \in {"ACCEPTED", "REJECTED"} <=> disk.raw[r].ok # "none"
<1>1. \A r \in Runs : Executing /\ r = proc.run => ~Recorded(r)
  BY DEF IInv, Books
<1>2. \A r \in Runs : disk.raw[r].ok \in {"none", "ACCEPTED", "REJECTED"}
  BY DEF IInv, Books, Verdicts
<1>3. QED
  BY <1>1, <1>2 DEF Result, Executing, Recorded

\* A step that changes neither the records nor the run at hand is a stutter.
LEMMA SameResult ==
  ASSUME disk'.raw = disk.raw, disk'.invalid = disk.invalid,
         \A r \in Runs : (Executing /\ r = proc.run) <=> (Executing /\ r = proc.run)'
  PROVE  Result' = Result
BY DEF Result, Executing

\* The results as a function: which two are equal but for one run.
LEMMA OneResult ==
  ASSUME NEW r \in Runs, NEW v, Result'[r] = v,
         \A q \in Runs : q # r => Result'[q] = Result[q]
  PROVE  Result' = [Result EXCEPT ![r] = v]
<1> DEFINE f == Result
           g == Result'
<1>1. f = [q \in Runs |-> f[q]] /\ g = [q \in Runs |-> g[q]]
  BY DEF Result
<1> HIDE DEF f, g
<1>2. g = [f EXCEPT ![r] = v]
  <2>1. g[r] = v /\ \A q \in Runs : q # r => g[q] = f[q]
    BY DEF f, g
  <2>2. QED
    BY <1>1, <2>1
<1>3. QED
  BY <1>2 DEF f, g

\* Writing a record is Record of the abstract specification, choosing a run is
\* Begin, the death of an executing process Lose, aggregating Publish; every
\* other step is a stutter.  So the files keep the promise of RunRecords.
THEOREM BatchKeepsPromise == Spec => KeepsPromise
<1>1. Init => Promise!Init
  BY DEF Init, Promise!Init, Result, EmptyDisk, NoRecord, Active
<1>2. IInv /\ IInv' /\ [Next]_vars => [Promise!Next]_<< Result, disk.agg >>
  <2> SUFFICES ASSUME IInv, IInv', [Next]_vars
               PROVE  \/ Promise!Next
                      \/ Result' = Result /\ disk'.agg = disk.agg
    OBVIOUS
  <2> USE ResultFacts DEF IInv, Typed, Procs
  <2>1. CASE InsideNext
    <3>1. Quiet
      BY <2>1, InsideQuiet
    <3>2. QED
      BY <3>1, SameResult DEF Quiet, InsidePlaces, IdlePlaces, Executing, Active
  <2>2. CASE Boot
    BY <2>2, SameResult DEF Boot, Go, Disks, Executing, Active
  <2>3. ASSUME NEW p, proc.pc = "next", proc.run # NRuns, AdvanceTo(proc.run + 1, p),
               UNCHANGED disk
        PROVE  Promise!Next \/ (Result' = Result /\ disk'.agg = disk.agg)
    <3> DEFINE r == proc.run + 1
    <3>1. CASE ~MayBegin(r)
      BY <2>3, <3>1, SameResult DEF AdvanceTo, Executing, Active
    <3>2. CASE MayBegin(r)
      <4>1. r \in Runs
        BY <2>3 DEF Runs
      <4>2. proc'.run = r /\ proc'.pc = "prepare"
        BY <2>3, <3>2 DEF AdvanceTo
      <4>3. Result' = [Result EXCEPT ![r] = "executing"]
        <5>1. Result'[r] = "executing"
          BY <4>1, <4>2 DEF Result, Active
        <5>2. \A q \in Runs : q # r => Result'[q] = Result[q]
          BY <2>3, <4>2 DEF Result, Active
        <5>3. QED
          BY <4>1, <5>1, <5>2, OneResult
      <4>4. Result[r] = "pending" /\ \A q \in Runs : Result[q] # "executing"
        BY <2>3, <3>2, <4>1 DEF MayBegin, Executing, Active
      <4>5. Promise!Begin(r)
        BY <2>3, <4>3, <4>4 DEF Promise!Begin
      <4>6. QED
        BY <4>1, <4>5 DEF Promise!Next
    <3>3. QED
      BY <3>1, <3>2
  <2>4. CASE proc.pc = "next" /\ Go("finish") /\ UNCHANGED disk
    BY <2>4, SameResult DEF Go, Executing, Active
  <2>5. CASE NextRun \/ ControllerNext
    BY <2>3, <2>4, <2>5 DEF NextRun, ControllerNext
  <2>6. ASSUME disk'.agg = ValidRuns, Result' = Result
        PROVE  Promise!Next
    <3>1. ValidRuns = Promise!Valid
      BY DEF ValidRuns, Promise!Valid, Promise!Verdicts
    <3>2. Promise!Publish
      BY <2>6, <3>1 DEF Promise!Publish
    <3>3. QED
      BY <3>2 DEF Promise!Next
  <2>7. CASE FinishBatch
    <3>1. disk'.agg = ValidRuns /\ disk'.raw = disk.raw /\ disk'.invalid = disk.invalid
      BY <2>7 DEF FinishBatch, Disks
    <3>2. Result' = Result
      BY <2>7, <3>1, SameResult DEF FinishBatch, Go, Executing, Active
    <3>3. QED
      BY <2>6, <3>1, <3>2
  <2>8. CASE Aggregate
    <3>1. disk'.agg = ValidRuns /\ disk'.raw = disk.raw /\ disk'.invalid = disk.invalid
      BY <2>8 DEF Aggregate, Disks
    <3>2. Result' = Result
      BY <2>8, <3>1, SameResult DEF Aggregate, Go, Executing, Active
    <3>3. QED
      BY <2>6, <3>1, <3>2
  <2>9. ASSUME NEW v \in {"ACCEPTED", "REJECTED", "INVALID"}, Executing, disk'.agg = disk.agg,
               Result' = [Result EXCEPT ![proc.run] = v]
        PROVE  Promise!Next
    <3>1. proc.run \in Runs /\ Result[proc.run] = "executing"
      BY <2>9 DEF Books, Executing
    <3>2. Promise!Record(proc.run)
      BY <2>9, <3>1 DEF Promise!Record, Promise!Verdicts
    <3>3. QED
      BY <3>1, <3>2 DEF Promise!Next
  <2>10. CASE WriteRaw
    <3>1. CASE SchemaRefuses /\ UNCHANGED disk
      BY <2>10, <3>1, SameResult DEF WriteRaw, SchemaRefuses, Go, Executing, Active
    <3>2. CASE disk' = [disk EXCEPT !.raw[proc.run] = Record] /\ Go("aggregate")
      <4>1. Executing /\ proc.run \in Runs
        BY <2>10 DEF WriteRaw, Executing, Active, Books
      <4>2. /\ disk'.raw = [disk.raw EXCEPT ![proc.run] = Record]
            /\ disk'.invalid = disk.invalid /\ disk'.agg = disk.agg
        BY <3>2 DEF Disks
      <4>3. Record.ok = work.final /\ work.final \in {"ACCEPTED", "REJECTED"}
        BY <2>10, RecordTypes DEF WriteRaw, Judged, VerdictPlaces, Works, Verdicts
      <4>4. proc'.pc = "aggregate" /\ proc'.run = proc.run
        BY <3>2 DEF Go
      <4>5. Result' = [Result EXCEPT ![proc.run] = work.final]
        <5>1. Result'[proc.run] = work.final
          BY <4>1, <4>2, <4>3, <4>4 DEF Result, Disks
        <5>2. \A q \in Runs : q # proc.run => Result'[q] = Result[q]
          BY <4>1, <4>2, <4>4 DEF Result, Disks
        <5>3. QED
          BY <4>1, <5>1, <5>2, OneResult
      <4>6. QED
        BY <2>9, <4>1, <4>2, <4>3, <4>5
    <3>3. QED
      BY <2>10, <3>1, <3>2 DEF WriteRaw
  <2>11. CASE WriteInvalid
    <3>1. Executing /\ proc.run \in Runs
      BY <2>11 DEF WriteInvalid, Executing, Active, Books
    <3>2. /\ disk'.invalid = [disk.invalid EXCEPT ![proc.run] = InvalidRecord]
          /\ disk'.raw = disk.raw /\ disk'.agg = disk.agg
      BY <2>11, <3>1 DEF WriteInvalid, InvalidFiles, Disks
    <3>3. InvalidRecord.ok = "INVALID" /\ disk.raw[proc.run].ok = "none"
      BY <3>1, RecordTypes DEF Books, Recorded
    <3>4. proc'.pc = "next"
      BY <2>11 DEF WriteInvalid, Go
    <3>5. Result' = [Result EXCEPT ![proc.run] = "INVALID"]
      <4>1. Result'[proc.run] = "INVALID"
        BY <3>1, <3>2, <3>3, <3>4 DEF Result, Active, Disks
      <4>2. \A q \in Runs : q # proc.run => Result'[q] = Result[q]
        BY <3>1, <3>2, <3>4 DEF Result, Active, Disks
      <4>3. QED
        BY <3>1, <4>1, <4>2, OneResult
    <3>6. QED
      BY <2>9, <3>1, <3>2, <3>5
  <2>12. CASE Crash
    <3>1. proc'.pc = "down"
      BY <2>12 DEF Crash
    <3>2. disk'.raw = disk.raw /\ disk'.invalid = disk.invalid /\ disk'.agg = disk.agg
      BY <2>12 DEF Crash, Disks
    <3>3. CASE ~Executing
      BY <3>1, <3>2, <3>3, SameResult DEF Executing, Active
    <3>4. CASE Executing
      <4>1. proc.run \in Runs /\ ~Recorded(proc.run) /\ Result[proc.run] = "executing"
        BY <3>4 DEF Books, Executing
      <4>2. Result' = [Result EXCEPT ![proc.run] = "pending"]
        <5>1. Result'[proc.run] = "pending"
          BY <3>1, <3>2, <4>1 DEF Result, Active, Recorded
        <5>2. \A q \in Runs : q # proc.run => Result'[q] = Result[q]
          BY <3>1, <3>2 DEF Result, Active
        <5>3. QED
          BY <4>1, <5>1, <5>2, OneResult
      <4>3. Promise!Lose(proc.run)
        BY <3>2, <4>1, <4>2 DEF Promise!Lose
      <4>4. QED
        BY <4>1, <4>3 DEF Promise!Next
    <3>5. QED
      BY <3>3, <3>4
  <2>13. CASE Restart
    BY <2>13, SameResult DEF Restart, Executing, Active
  <2>14. CASE Expire
    BY <2>14, SameResult DEF Expire, Executing, Active
  <2>15. CASE UNCHANGED vars
    BY <2>15, SameResult DEF vars, Executing, Active
  <2>16. QED
    BY <2>1, <2>2, <2>5, <2>7, <2>8, <2>10, <2>11, <2>12, <2>13, <2>14, <2>15
       DEF Next, Step, InsideNext, Stopped
<1>3. QED
  BY <1>1, <1>2, BatchInductive, PTL DEF Spec, KeepsPromise, Promise!Spec
=============================================================================
