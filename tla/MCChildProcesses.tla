-------------------------- MODULE MCChildProcesses --------------------------
(* Three SSE clients of one plugin, of which one stops reading; overlapping  *)
(* starts and a stop of one supervised child.                                *)
EXTENDS ChildProcesses, TLC

CONSTANTS c1, c2, c3, s1, s2, x1

MCClients == {c1, c2, c3}
MCTwoClients == {c1, c2}
MCReaders == {c1, c2}

MCStarters == {s1, s2}
MCStoppers == {x1}
MCRules == {"Spawned", "CompletesSuccessfully", "SurvivesOr", "Line"}
=============================================================================
