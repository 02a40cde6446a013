--------------------------- MODULE RuntimeService ---------------------------
(***************************************************************************)
(* The parts of one runtime-actix: what its requests share (token renewal,  *)
(* the routing context with the combos' cursors, the token saver's worker), *)
(* a fusion request, and a conversation translated between two formats.     *)
(*                                                                         *)
(* Each has variables of its own that no step of another touches, so a       *)
(* behaviour here is of one part, from the common start, and the state       *)
(* spaces are added instead of multiplied.                                 *)
(***************************************************************************)
EXTENDS TokenRefresh, ComboRouting, FusionPanel, PxpipeBridge, Conversation

runtimeVars == <<refreshVars, routingVars, fusionVars, pipeVars, talkVars>>

RuntimeInit == RefreshInit /\ RoutingInit /\ FusionInit /\ PipeInit /\ TalkInit

RefreshTurn ==
    /\ RoutingInit /\ FusionInit /\ PipeInit /\ TalkInit
    /\ RefreshNext /\ UNCHANGED <<routingVars, fusionVars, pipeVars, talkVars>>
RoutingTurn ==
    /\ RefreshInit /\ FusionInit /\ PipeInit /\ TalkInit
    /\ RoutingNext /\ UNCHANGED <<refreshVars, fusionVars, pipeVars, talkVars>>
FusionTurn ==
    /\ RefreshInit /\ RoutingInit /\ PipeInit /\ TalkInit
    /\ FusionNext /\ UNCHANGED <<refreshVars, routingVars, pipeVars, talkVars>>
PipeTurn ==
    /\ RefreshInit /\ RoutingInit /\ FusionInit /\ TalkInit
    /\ PipeNext /\ UNCHANGED <<refreshVars, routingVars, fusionVars, talkVars>>
TalkTurn ==
    /\ RefreshInit /\ RoutingInit /\ FusionInit /\ PipeInit
    /\ TalkNext /\ UNCHANGED <<refreshVars, routingVars, fusionVars, pipeVars>>

RuntimeNext == RefreshTurn \/ RoutingTurn \/ FusionTurn \/ PipeTurn \/ TalkTurn

\* The fair steps of a part are not possible before the part's own first step.
RuntimeSpec ==
    RuntimeInit /\ [][RuntimeNext]_runtimeVars /\ FusionFairness /\ PipeFairness
-----------------------------------------------------------------------------
\* The variables of every part have their types.
RuntimeTypeOK == RefreshTypeOK /\ RoutingTypeOK /\ FusionTypeOK /\ PipeTypeOK /\ TalkTypeOK

\* Nobody waits for ever: a fusion request is answered whatever its providers do,
\* and a call of the token saver ends unless its slot keeps a spoilt worker.
EveryRequestEnds == EveryFusionAnswered /\ EveryCallEnds
=============================================================================
