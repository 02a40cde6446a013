------------------------------- MODULE LogPath -------------------------------
(***************************************************************************)
(* A line's way from the thread that logs it to the operator's pane: the     *)
(* shipper of one service (LogShip), the post of its batch, and the ring and  *)
(* the stream behind it (LogPane).  A post that fails for the shipper may    *)
(* have reached the ring all the same.                                     *)
(***************************************************************************)
EXTENDS LogShip, LogPane, FiniteSetsExt

\* A line that reports a loss stands for at least one line lost.
ASSUME PathAssumption == MaxIngested >= MaxLogged

PathInit == ShipInit /\ PaneInit

\* Mutant: the batch is sent without the line that reports what was lost.
BatchArrivesBare == Ingest(batch, 0)

\* ingest: the batch, and a line of its own for what was lost before it.
BatchArrives == Ingest(batch + (IF missed > 0 THEN 1 ELSE 0), missed)

PathNext ==
    \/ ShipStep /\ UNCHANGED paneVars
    \/ PostLands /\ BatchArrives
    \/ PostFails /\ (BatchArrives \/ UNCHANGED paneVars)
    \/ PaneStep /\ UNCHANGED shipVars

PathSpec ==
    PathInit /\ [][PathNext]_<<shipVars, paneVars>> /\ ShipFairness /\ PaneFairness

-----------------------------------------------------------------------------
\* The variables of both ends have their types.
PathTypeOK == ShipTypeOK /\ PaneTypeOK

InPane == {pane[i] : i \in DOMAIN pane}
LossesShown == MapThenSumSet(LAMBDA n : loss[n], InPane)
LinesShown == Cardinality({n \in InPane : loss[n] = 0})

\* While no post has failed, a pane that shows all that came to the ring accounts
\* for every line logged: shown, reported as lost by a line shown, or not yet posted.
PaneAccountsForLosses ==
    failures = 0 /\ InPane = 1..ingested =>
        logged = LinesShown + LossesShown
                 + queue + batch + Cardinality(counting) + dropped + missed

\* "The operator can see in the pane that lines were lost": no line is lost without
\* being counted, and the counts reach the pane.
LossesAreSeen == GapsAreCounted /\ PaneAccountsForLosses

\* Nothing waits on the way: a line on the channel leaves it, and the pane ends
\* with the newest line of the ring.
LinesArrive == QueueDrains /\ PaneCatchesUp

\* A loss is told in time.  The code breaks it (README, deviations): what is lost
\* after the last batch closes is told by the next line's batch, whenever that is.
LossesAreTold == dropped > 0 ~> dropped = 0
==============================================================================
