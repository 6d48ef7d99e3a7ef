---------------------------- MODULE MCObservers -----------------------------
(***************************************************************************)
(* Those who watch a run and draw conclusions from what they see: the odys *)
(* command, which reports it, and the recovery controller, which gives up  *)
(* on a strategy.  They share no state.                                    *)
(*                                                                         *)
(* A reading of the command writes nothing that a step of the run or of    *)
(* the clock reads, and no other step reads the events, so the command is  *)
(* explored with its tables or with its events, never both.  Without the   *)
(* steps of the kernel an attempt may end in more ways (MayReturn), not in *)
(* fewer.  The initial state picks what is watched.                        *)
(***************************************************************************)
EXTENDS ProductCli, RecoveryControl, TLC

VARIABLE watch

Sym == Permutations(Actions) \cup Permutations(States)

\* The failure the executor reports is the one that parks the run; a time-out or
\* an exception is retried.
Blocking == {"QUOTA_EXHAUSTED"}

LastReading == front.pc = "final" /\ Readings

\* Bound: the policy that never escalates is followed for one attempt.
LegacyBound == policy = "LEGACY_BOUNDED" => attempt'.count <= 1

ObserversInit ==
  /\ CliInit /\ RcInit
  /\ watch \in {"tables", "events", "repair"}
  /\ watch # "repair" => policy = "NO_PROGRESS_AWARE"

ObserversNext ==
  /\ UNCHANGED watch
  /\ \/ /\ watch = "tables" /\ (CommandSteps \/ RunSteps \/ Readings)
        /\ UNCHANGED rcVars
     \/ /\ watch = "events"
        /\ CommandSteps \/ RunSteps \/ KernelSteps \/ Tick \/ LastReading
        /\ UNCHANGED rcVars
     \/ /\ watch = "repair" /\ RcNext /\ LegacyBound
        /\ UNCHANGED cliVars

ObserversSpec == ObserversInit /\ [][ObserversNext]_<< cliVars, rcVars, watch >>
=============================================================================
