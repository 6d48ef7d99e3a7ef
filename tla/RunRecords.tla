----------------------------- MODULE RunRecords -----------------------------
(***************************************************************************)
(* What a benchmark batch promises, whatever crashes and restarts: the     *)
(* contract of docs/phase4/P42_RUNNER_CONTRACT.md as the code keeps it.    *)
(*                                                                         *)
(* A run is executed one at a time.  An execution ends in one result that  *)
(* is never changed and never executed again, or it is lost and the run is *)
(* pending again.  The published aggregation input is a set of results     *)
(* that were ACCEPTED or REJECTED: an INVALID run is never in it.          *)
(***************************************************************************)
EXTENDS Naturals

CONSTANT Runs

VARIABLES result, report

Verdicts == {"ACCEPTED", "REJECTED"}
Valid == { r \in Runs : result[r] \in Verdicts }

Init == result = [r \in Runs |-> "pending"] /\ report = {}

Begin(r) ==
  /\ \A q \in Runs : result[q] # "executing"
  /\ result[r] = "pending"
  /\ result' = [result EXCEPT ![r] = "executing"] /\ UNCHANGED report

Record(r) ==
  /\ result[r] = "executing"
  /\ \E v \in Verdicts \cup {"INVALID"} : result' = [result EXCEPT ![r] = v]
  /\ UNCHANGED report

Lose(r) ==
  /\ result[r] = "executing"
  /\ result' = [result EXCEPT ![r] = "pending"] /\ UNCHANGED report

Publish == report' = Valid /\ UNCHANGED result

Next == \/ \E r \in Runs : Begin(r) \/ Record(r) \/ Lose(r)
        \/ Publish

Spec == Init /\ [][Next]_<< result, report >>
=============================================================================
