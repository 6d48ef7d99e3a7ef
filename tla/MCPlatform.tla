----------------------------- MODULE MCPlatform -----------------------------
(***************************************************************************)
(* The components around the kernel, each on a small instance.  They share *)
(* no state, so one run explores them side by side: the initial state      *)
(* picks the component that moves and the others rest.                     *)
(***************************************************************************)
EXTENDS Delegation, TargetSwitch, ExperimentRunners, WorkspaceSessions,
        McpManager, ToolCalls, BenchmarkLauncher, VerifiedState

CONSTANT Components
VARIABLE moving

MCArms == << "A0", "A4" >>
\* An event of another run, and a copy of the first event with another value.
MCElsewhere ==
  { [id |-> 9, type |-> "SIDE_EFFECT_CONFIRMED", value |-> 2],
    [id |-> 1, type |-> "ENVIRONMENT_OBSERVED", value |-> 2] }

platformVars ==
  << moving, delVars, tsVars, runnerVars, wsVars, mcpVars, toolVars, launcherVars,
     verifiedVars >>

PlatformInit ==
  /\ moving \in Components
  /\ DelInit /\ TsInit /\ WsInit /\ McpInit /\ LauncherInit /\ VerifiedInit
  /\ RunnerInit /\ (moving # "runners" => rkind = CHOOSE k \in Kinds : TRUE)
  /\ ToolInit /\ (moving # "tools" => granted = {} /\ registered = Tools)

PlatformNext ==
  /\ UNCHANGED moving
  /\ \/ /\ moving = "delegation" /\ DelNext
        /\ UNCHANGED << tsVars, runnerVars, wsVars, mcpVars, toolVars, launcherVars, verifiedVars >>
     \/ /\ moving = "targets" /\ TsNext
        /\ UNCHANGED << delVars, runnerVars, wsVars, mcpVars, toolVars, launcherVars, verifiedVars >>
     \/ /\ moving = "runners" /\ RunnerNext
        /\ UNCHANGED << delVars, tsVars, wsVars, mcpVars, toolVars, launcherVars, verifiedVars >>
     \/ /\ moving = "workspaces" /\ WsNext
        /\ UNCHANGED << delVars, tsVars, runnerVars, mcpVars, toolVars, launcherVars, verifiedVars >>
     \/ /\ moving = "mcp" /\ McpNext
        /\ UNCHANGED << delVars, tsVars, runnerVars, wsVars, toolVars, launcherVars, verifiedVars >>
     \/ /\ moving = "tools" /\ ToolNext
        /\ UNCHANGED << delVars, tsVars, runnerVars, wsVars, mcpVars, launcherVars, verifiedVars >>
     \/ /\ moving = "launcher" /\ LauncherNext
        /\ UNCHANGED << delVars, tsVars, runnerVars, wsVars, mcpVars, toolVars, verifiedVars >>
     \/ /\ moving = "verified" /\ VerifiedNext
        /\ UNCHANGED << delVars, tsVars, runnerVars, wsVars, mcpVars, toolVars, launcherVars >>

PlatformSpec == PlatformInit /\ [][PlatformNext]_platformVars
=============================================================================
