--------------------------- MODULE MCCallControl ---------------------------
(***************************************************************************)
(* What decides about single calls, each on a small instance: the token    *)
(* tree with one await, and an agent trial with two tools, a probe that may*)
(* report readiness and a commit that needs it.  They share no state: the  *)
(* initial state picks the one that moves and the other rests.             *)
(***************************************************************************)
EXTENDS MCExecutionControl, AgentTrial

VARIABLE moving

MCKeys == {"ready"}

Raw(status, error, ready, structured) ==
  [ status |-> status, error |-> error, flag |-> "unset",
    ready |-> [k \in MCKeys |-> ready], receipt |-> FALSE,
    structured |-> structured ]

MCTool == [c \in {"probe", "commit"} |-> c]

\* Success; success that is not ready; a permanent and a transient failure; a
\* structured transient error.
MCResults ==
  { Raw("success", "none", "absent", FALSE), Raw("success", "none", "no", FALSE),
    Raw("failed", "permanent", "absent", FALSE),
    Raw("error", "transient", "absent", FALSE),
    Raw("error", "transient", "absent", TRUE) }

callVars == << moving, vars, controlVars >>

CallInit ==
  /\ moving \in {"trial", "tree"}
  /\ Init /\ (moving # "trial" => trial.arm = "A1" /\ trial.tokens = 1)
  /\ ControlInit /\ (moving # "tree" => deadline[1] = Never)

Trial(Step) == moving = "trial" /\ Step /\ UNCHANGED << moving, controlVars >>
Tree(Step)  == moving = "tree" /\ Step /\ UNCHANGED << moving, vars >>

CallNext == Trial(Next) \/ Tree(ControlNext)

\* The fairness of both specifications.
CallSpec ==
  /\ CallInit /\ [][CallNext]_callVars
  /\ WF_callVars(Trial(Next))
  /\ WF_callVars(Tree(Tick)) /\ \A o \in Ops : WF_callVars(Tree(Settle(o)))
============================================================================
