--------------------------- MODULE ChildProcesses ---------------------------
(***************************************************************************)
(* The two ways in which the services keep a child process: the sessions   *)
(* of the MCP bridge, held by the clients that listen to them, and the     *)
(* supervisor of crates/procctl, held by who started it.                   *)
(*                                                                         *)
(* They share nothing, neither a child nor a lock: a behaviour here is of  *)
(* one of the two, from the common start, and the state spaces are added   *)
(* instead of multiplied.                                                  *)
(***************************************************************************)
EXTENDS McpBridge, Supervisor

ChildrenInit == BridgeInit /\ SupervisorInit

BridgeTurn == SupervisorInit /\ BridgeNext /\ UNCHANGED supervisorVars
SupervisorTurn == BridgeInit /\ SupervisorNext /\ UNCHANGED bridgeVars

ChildrenNext == BridgeTurn \/ SupervisorTurn

ChildrenSpec ==
    /\ ChildrenInit /\ [][ChildrenNext]_<<bridgeVars, supervisorVars>>
    /\ BridgeFairness
    /\ WF_supervisorVars(EngineStep)
-----------------------------------------------------------------------------
\* The variables of both have their types.
ChildrenTypeOK == BridgeTypeOK /\ SupervisorTypeOK

\* No child runs that its keeper has lost sight of, and none beside another; one
\* of the bridge that nobody reads is there because a client dropped its body.
NoChildIsLost == ChildrenAccountedFor /\ OneChild

\* Whoever waits on a child hears of it: the readers of a child's stream that
\* it has ended, and the callers of start and stop what became of it.
NobodyIsLeftWaiting == ListenersSeeTheEnd /\ EveryCallerAnswered
=============================================================================
