------------------------- MODULE BenchmarkLauncher -------------------------
(***************************************************************************)
(* The official benchmark launcher and the bundle it fills.                *)
(*                                                                         *)
(*   main, _run_benchmark, ProgressTracker,                                *)
(*   compute_summary            evals/reliability/p46_launcher.py          *)
(*   RealLLMProvider, provider identity   .../p46_provider.py              *)
(*   create_executor            evals/reliability/p45_executor.py          *)
(*                                                                         *)
(* A launch proves the provider's identity, pins it in the output          *)
(* directory, executes a selection of runs and keeps progress.json and     *)
(* summary.json beside the runner's raw.jsonl and invalid.jsonl.  It calls *)
(* _run_one itself, so without --resume a recorded run is executed again   *)
(* and its second result is refused.  A launch may crash anywhere, and any *)
(* later launch may name the same directory.  What happens inside a run is *)
(* module BenchmarkRun.                                                    *)
(***************************************************************************)
EXTENDS Integers, FiniteSets

CONSTANTS
  RunIds,      \* ids of frozen runs, as numbers in their sort order
  Selections,  \* what a subcommand may select: sets of run ids
  Profiles,    \* benchmark profiles (frozen model, cheap model)
  MaxLaunches  \* launches (bounds the model)

\* The frozen registry is finite, and no profile has the name of an absent or a
\* partial identity file.
ASSUME LauncherConstants ==
  /\ RunIds \subseteq Nat /\ IsFiniteSet(RunIds)
  /\ Selections \subseteq SUBSET RunIds /\ MaxLaunches \in Nat
  /\ "none" \notin Profiles /\ "torn" \notin Profiles

VARIABLES
  launch,    \* the process: where it is, its profile, flag, selection and current run
  tracker,   \* its ProgressTracker
  bundle,    \* the output directory
  launches   \* launches so far

launcherVars == << launch, tracker, bundle, launches >>

NewTracker(total) ==
  [total |-> total, completed |-> 0, valid |-> 0, invalid |-> 0, attempts |-> 0]
NoProgress == [state |-> "none", of |-> NewTracker(0)]
NoLaunch == [pc |-> "idle", profile |-> "none", resume |-> FALSE, sel |-> {}, todo |-> {},
         run |-> -1, known |-> FALSE, raised |-> FALSE]

LauncherInit ==
  /\ launch = NoLaunch /\ tracker = NewTracker(0) /\ launches = 0
  /\ bundle = [provider |-> "none", identity |-> "none",
               raw |-> [r \in RunIds |-> "none"], invalid |-> [r \in RunIds |-> "none"],
               collided |-> {}, agg |-> {}, torn |-> FALSE,
               progress |-> NoProgress, summary |-> [valid |-> {}, invalid |-> {}]]

RawIds == { r \in RunIds : bundle.raw[r] # "none" }
InvalidIds == { r \in RunIds : bundle.invalid[r] # "none" } \cup bundle.collided
HasRun(r) == r \in RawIds \cup InvalidIds
Least(a, b) == IF a <= b THEN a ELSE b
LauncherAt(pc) == launch' = [launch EXCEPT !.pc = pc]

----------------------------------------------------------------------------
(* Identity: proved by the provider, pinned in the bundle.                   *)

\* create_real_provider resolves arguments, environment and defaults: to one of
\* the profiles, or to none (another provider, no credential).
Environments == Profiles \cup {"none"}

\* RealLLMProvider: the environment's model, credential, endpoint and sampling
\* parameters must be the frozen ones of the profile, or there is no provider.
\* What is left of the environment is the profile it fits, if any.
ProvedIdentity(env, profile) == IF env = profile THEN profile ELSE "none"

\* main: a profile whose artifacts do not match and a provider that proves
\* another identity both stop the launch before the directory is touched.
LaunchRefused ==
  /\ launch.pc = "idle" /\ launches < MaxLaunches
  /\ \E p \in Profiles, env \in Environments : ProvedIdentity(env, p) # p
  /\ launches' = launches + 1
  /\ UNCHANGED << launch, tracker, bundle >>

Launch ==
  /\ launch.pc = "idle" /\ launches < MaxLaunches
  /\ launches' = launches + 1
  /\ \E p \in Profiles, env \in Environments, s \in Selections, b \in BOOLEAN :
       /\ ProvedIdentity(env, p) = p
       /\ launch' = [NoLaunch EXCEPT !.pc = "provider", !.profile = p, !.resume = b, !.sel = s]
  /\ UNCHANGED << tracker, bundle >>

\* An identity file is compared, never rewritten; part of one is an error.  The
\* broken form only asks whether it can be read.
IdentityStandsReadable(file) == file # "torn"
IdentityStands(file) == file = launch.profile

PinIdentity(field, file, then) ==
  /\ UNCHANGED << tracker, launches >>
  /\ \/ file = "none" /\ LauncherAt(then)
        /\ bundle' = [bundle EXCEPT ![field] = launch.profile]
     \/ /\ file # "none"
        /\ IF IdentityStands(file) THEN LauncherAt(then) ELSE launch' = NoLaunch
        /\ UNCHANGED bundle

persist_provider_identity ==
  launch.pc = "provider" /\ PinIdentity("provider", bundle.provider, "identity")
PinBenchmarkIdentity ==
  launch.pc = "identity" /\ PinIdentity("identity", bundle.identity, "open")

----------------------------------------------------------------------------
(* Progress.                                                                 *)

\* _load_existing: a file that does not parse counts for nothing.
LoadExisting(total) ==
  IF bundle.progress.state # "saved" THEN NewTracker(total)
  ELSE LET old == bundle.progress.of
           done == Least(old.completed, total)
       IN  [old EXCEPT !.total = total, !.completed = done,
                       !.attempts = IF @ >= done THEN @ ELSE done]

\* --resume counts the records of the directory instead, whatever selection
\* they belong to.
SeedFromFiles(t) ==
  LET valid == Least(t.total, Cardinality(RawIds \ InvalidIds))
      invalid == Least(t.total - valid, Cardinality(InvalidIds))
  IN  [t EXCEPT !.valid = valid, !.invalid = invalid,
                !.completed = Least(t.total, valid + invalid)]

\* Phase4Runner opens the files: ResultWriter truncates a partial last record,
\* TraceWriter raises on a partial trace.
OpenBundle ==
  /\ launch.pc = "open"
  /\ IF bundle.torn
       THEN launch' = NoLaunch /\ UNCHANGED tracker
       ELSE LET t == LoadExisting(Cardinality(launch.sel))
            IN  /\ tracker' = IF launch.resume THEN SeedFromFiles(t) ELSE t
                /\ launch' = [launch EXCEPT
                     !.pc = IF launch.resume THEN "seeded" ELSE "next",
                     !.todo = IF launch.resume THEN { r \in launch.sel : ~HasRun(r) }
                              ELSE launch.sel]
  /\ UNCHANGED << bundle, launches >>

Saved(t) == [state |-> "saved", of |-> t]

SaveSeed ==
  /\ launch.pc = "seeded" /\ LauncherAt("next")
  /\ bundle' = [bundle EXCEPT !.progress = Saved(tracker)]
  /\ UNCHANGED << tracker, launches >>

NextSpec ==
  /\ launch.pc = "next"
  /\ IF launch.todo = {} THEN LauncherAt("finish")
     ELSE \E r \in launch.todo :
            /\ \A q \in launch.todo : r <= q
            /\ launch' = [launch EXCEPT !.pc = "run", !.run = r, !.todo = @ \ {r},
                                        !.known = HasRun(r), !.raised = FALSE]
  /\ UNCHANGED << tracker, bundle, launches >>

\* _run_one on a run that has no record: a result, an invalid record, or an
\* error of the harness itself, which leaves no record.
RunNew ==
  /\ launch.pc = "run" /\ ~launch.known
  /\ UNCHANGED << tracker, launches >>
  /\ \/ /\ bundle' = [bundle EXCEPT !.raw[launch.run] = launch.profile,
                                    !.agg = RawIds \cup {launch.run}]
        /\ LauncherAt("count")
     \/ /\ bundle' = [bundle EXCEPT !.invalid[launch.run] = launch.profile]
        /\ LauncherAt("count")
     \/ launch' = [launch EXCEPT !.pc = "count", !.raised = TRUE] /\ UNCHANGED bundle

\* _run_one on a recorded run: another result is a collision, appended to
\* invalid.jsonl as evidence; another invalid record raises.
RunAgain ==
  /\ launch.pc = "run" /\ launch.known
  /\ UNCHANGED << tracker, launches >>
  /\ \/ /\ bundle' = [bundle EXCEPT !.collided = @ \cup {launch.run}]
        /\ LauncherAt("count")
     \/ launch' = [launch EXCEPT !.pc = "count", !.raised = TRUE] /\ UNCHANGED bundle

\* A broken form: every execution that returned counts as a completed run.
ResultAddedAlways == TRUE
ResultAdded == ~launch.known /\ HasRun(launch.run)

\* record_result; a result is taken for valid when the runner has more valid
\* results than the tracker counted.
RecordResult(t, valid, counts) ==
  LET n == [t EXCEPT !.attempts = @ + 1]
  IN  IF ~counts THEN n
      ELSE [n EXCEPT !.completed = Least(t.total, @ + 1),
                     !.valid = IF valid THEN @ + 1 ELSE @,
                     !.invalid = IF valid THEN @ ELSE @ + 1]

CountResult ==
  /\ launch.pc = "count"
  /\ tracker' = IF launch.raised THEN RecordResult(tracker, FALSE, FALSE)
                ELSE RecordResult(tracker, Cardinality(RawIds) > tracker.valid, ResultAdded)
  /\ bundle' = [bundle EXCEPT !.progress = Saved(tracker')]
  /\ LauncherAt("next")
  /\ UNCHANGED launches

----------------------------------------------------------------------------
(* The end of a launch.                                                      *)

\* The results a summary is about: with more records in the directory than the
\* launch planned, the first ones in sort order.
ResultIds(planned) ==
  LET ids == RawIds \cup InvalidIds
  IN  { r \in ids : Cardinality({ q \in ids : q < r }) < planned }

compute_summary(planned) ==
  [ valid |-> (ResultIds(planned) \cap RawIds) \ InvalidIds,
    invalid |-> ResultIds(planned) \cap InvalidIds ]

FinishLaunch ==
  /\ launch.pc = "finish" /\ LauncherAt("summary")
  /\ bundle' = [bundle EXCEPT !.agg = RawIds, !.progress = Saved(tracker)]
  /\ UNCHANGED << tracker, launches >>

WriteSummary ==
  /\ launch.pc = "summary" /\ launch' = NoLaunch
  /\ bundle' = [bundle EXCEPT !.summary = compute_summary(tracker.total)]
  /\ UNCHANGED << tracker, launches >>

\* The process dies, perhaps while it writes a file in place.
LauncherCrash ==
  /\ launch.pc # "idle" /\ launch' = NoLaunch
  /\ \E torn \in BOOLEAN :
       bundle' =
         IF ~torn THEN bundle
         ELSE CASE launch.pc = "provider" /\ bundle.provider = "none" ->
                     [bundle EXCEPT !.provider = "torn"]
                [] launch.pc = "identity" /\ bundle.identity = "none" ->
                     [bundle EXCEPT !.identity = "torn"]
                [] launch.pc \in {"seeded", "count", "finish"} ->
                     [bundle EXCEPT !.progress = [NoProgress EXCEPT !.state = "torn"]]
                [] launch.pc = "run" -> [bundle EXCEPT !.torn = TRUE]
                [] OTHER -> bundle
  /\ UNCHANGED << tracker, launches >>

LauncherNext ==
  \/ LaunchRefused \/ Launch \/ persist_provider_identity \/ PinBenchmarkIdentity
  \/ OpenBundle \/ SaveSeed \/ NextSpec \/ RunNew \/ RunAgain \/ CountResult
  \/ FinishLaunch \/ WriteSummary \/ LauncherCrash

LauncherSpec == LauncherInit /\ [][LauncherNext]_launcherVars

----------------------------------------------------------------------------
(* Properties.                                                               *)

\* Progress is never ahead of the files: progress.json and the tracker that
\* writes it claim no more completed runs than have a record in the directory,
\* across crashes, partial progress files, repeated launches and collisions.
ProgressIsBacked ==
  LET recorded == Cardinality(RawIds \cup InvalidIds)
  IN  /\ bundle.progress.of.completed <= recorded
      /\ launch.pc \in {"seeded", "next", "run", "finish"} => tracker.completed <= recorded

\* One directory, one benchmark: whatever profiles were launched at it and
\* wherever they crashed, all its records were produced under the identity its
\* identity files pin.  --resume skips records without asking whose they are.
OneBenchmarkPerDirectory ==
  \A r \in RunIds : \A by \in {bundle.raw[r], bundle.invalid[r]} :
    by # "none" => by = bundle.provider /\ by = bundle.identity
=============================================================================
