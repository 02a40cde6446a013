------------------------------ MODULE LogShip ------------------------------
(***************************************************************************)
(* How each service ships its log lines to the state service:              *)
(* crates/logship/src/lib.rs.  Any thread that logs pushes a line on a     *)
(* bounded channel or counts it as dropped; one drain thread batches the   *)
(* channel and posts.  Lines are counted, not told apart.  What a post does at  *)
(* the state service is LogPane's; LogPath puts the two together.           *)
(***************************************************************************)
EXTENDS Naturals, FiniteSets

CONSTANTS Threads,      \* threads that log
          Capacity,     \* CHANNEL_CAPACITY
          MaxBatch,     \* MAX_BATCH_LINES
          MaxLogged,     \* bound on lines ever logged
          MaxFailures   \* bound on posts that fail

ASSUME ShipAssumption ==
    /\ Capacity \in Nat \ {0}
    /\ MaxBatch \in Nat \ {0}
    /\ MaxLogged \in Nat
    /\ MaxFailures \in Nat

VARIABLES
    queue,      \* lines on the channel
    counting,   \* threads whose try_send failed and that have yet to count it
    dropped,    \* the shared counter
    drain,      \* "idle" in recv, "filling" a batch, "posting" it
    batch,      \* lines in the batch, the warning not counted
    missed,     \* drops the batch's warning reports
    failures,   \* posts that failed
    \* history, for the properties
    logged,     \* lines ever logged
    counted,    \* drops ever counted
    delivered,  \* lines the state service has
    reported,   \* drops it was told of
    discarded   \* lines in posts that failed

shipVars == <<queue, counting, dropped, drain, batch, missed, failures, logged,
          counted, delivered, reported, discarded>>

ShipTypeOK ==
    /\ queue \in 0..Capacity
    /\ counting \subseteq Threads
    /\ dropped \in 0..MaxLogged
    /\ drain \in {"idle", "filling", "posting"}
    /\ batch \in 0..MaxBatch
    /\ missed \in 0..MaxLogged
    /\ failures \in 0..MaxFailures
    /\ {logged, counted, delivered, reported, discarded} \subseteq 0..MaxLogged

ShipInit ==
    /\ queue = 0
    /\ counting = {}
    /\ dropped = 0
    /\ drain = "idle"
    /\ batch = 0
    /\ missed = 0
    /\ failures = 0
    /\ logged = 0
    /\ counted = 0
    /\ delivered = 0
    /\ reported = 0
    /\ discarded = 0

-----------------------------------------------------------------------------
\* on_event: try_send, never send.
Log(t) ==
    /\ t \notin counting
    /\ logged < MaxLogged
    /\ logged' = logged + 1
    /\ IF queue < Capacity
       THEN queue' = queue + 1 /\ UNCHANGED counting
       ELSE counting' = counting \cup {t} /\ UNCHANGED queue
    /\ UNCHANGED <<dropped, drain, batch, missed, failures, counted, delivered,
                   reported, discarded>>

CountDrop(t) ==
    /\ t \in counting
    /\ counting' = counting \ {t}
    /\ dropped' = dropped + 1
    /\ counted' = counted + 1
    /\ UNCHANGED <<queue, drain, batch, missed, failures, logged, delivered,
                   reported, discarded>>

\* The first line of a batch, then as many as come before the deadline.
Receive ==
    /\ \/ drain = "idle"
       \/ drain = "filling" /\ batch < MaxBatch
    /\ queue > 0
    /\ queue' = queue - 1
    /\ batch' = batch + 1
    /\ drain' = "filling"
    /\ UNCHANGED <<counting, dropped, missed, failures, logged, counted,
                   delivered, reported, discarded>>

\* Mutant: the counter is read and not reset.
CloseBatchNoReset ==
    /\ drain = "filling"
    /\ drain' = "posting"
    /\ missed' = dropped
    /\ UNCHANGED <<queue, counting, dropped, batch, failures, logged, counted,
                   delivered, reported, discarded>>

\* Mutant: a partial batch waits for more lines, without a deadline.
CloseBatchWhenFull ==
    /\ drain = "filling"
    /\ batch = MaxBatch
    /\ drain' = "posting"
    /\ missed' = dropped
    /\ dropped' = 0
    /\ UNCHANGED <<queue, counting, batch, failures, logged, counted,
                   delivered, reported, discarded>>

\* The batch is full or its deadline passed; the counter is taken with one swap.
CloseBatch ==
    /\ drain = "filling"
    /\ drain' = "posting"
    /\ missed' = dropped
    /\ dropped' = 0
    /\ UNCHANGED <<queue, counting, batch, failures, logged, counted,
                   delivered, reported, discarded>>

NextBatch ==
    /\ drain = "posting"
    /\ drain' = "idle"
    /\ batch' = 0
    /\ missed' = 0
    /\ UNCHANGED <<queue, counting, dropped, logged, counted>>

PostLands ==
    /\ NextBatch
    /\ delivered' = delivered + batch
    /\ reported' = reported + missed
    /\ UNCHANGED <<failures, discarded>>

\* Refused or timed out: discarded, not retried.
PostFails ==
    /\ NextBatch
    /\ failures < MaxFailures
    /\ failures' = failures + 1
    /\ discarded' = discarded + batch
    /\ UNCHANGED <<delivered, reported>>

DrainStep == Receive \/ CloseBatch \/ PostLands \/ PostFails

ShipStep == (\E t \in Threads : Log(t) \/ CountDrop(t)) \/ Receive \/ CloseBatch

\* A logging thread finishes its callback; the drain thread runs, and every
\* post ends, if only by POST_TIMEOUT.
ShipFairness == WF_shipVars(DrainStep) /\ \A t \in Threads : WF_shipVars(CountDrop(t))

-----------------------------------------------------------------------------
\* "The operator can see in the pane that lines were lost": every line logged is
\* delivered, on its way, or counted exactly once as dropped, unless its post
\* failed.
GapsAreCounted ==
    failures = 0 =>
        logged = delivered + queue + batch
                   + Cardinality(counting) + dropped + missed + reported

\* A line that got on the channel does not wait for another one: it leaves in
\* a post, whether or not that post succeeds.
QueueDrains == queue + batch > 0 ~> queue + batch = 0

\* "Taken before the post, so the count cannot be lost by a failed one."
CountSurvivesFailedPost == counted = dropped + missed + reported
=============================================================================
