-------------------------- MODULE MCPlanExecution --------------------------
(***************************************************************************)
(* PlanExecution for TLC: three steps, the second behind a runtime         *)
(* precondition, the third behind both others and a human approval.        *)
(***************************************************************************)
EXTENDS PlanExecution, TLC

Join == (1 :> [dep |-> {}, pre |-> "none"]) @@ (2 :> [dep |-> {1}, pre |-> "runtime"])
          @@ (3 :> [dep |-> {1, 2}, pre |-> "none"])
=============================================================================
