------------------------------ MODULE LogPane ------------------------------
(***************************************************************************)
(* The console pane: the ring of recent lines in the state service         *)
(* (services/state-actix/src/console_logs.rs) and one dashboard stream of  *)
(* the events service that polls it (services/events-actix/src/            *)
(* console_logs.rs and console_logs_stream in routes.rs).                  *)
(*                                                                         *)
(* The two are processes of their own: a poll can fail, the ring can be    *)
(* cleared or outrun the reader, and the state service can restart with    *)
(* an empty ring, while the stream keeps its cursor.  A line is told by    *)
(* the order in which it was ingested.                                       *)
(***************************************************************************)
EXTENDS Naturals, Sequences, SequencesExt

CONSTANTS MaxLines,     \* MAX_LINES, the ring's size
          MaxIngested,    \* bound on lines ever ingested
          MaxClears,    \* bound on clears
          MaxOutages,   \* bound on polls that fail
          MaxRestarts   \* bound on restarts of the state service

ASSUME PaneAssumption ==
    /\ MaxLines \in Nat \ {0}
    /\ {MaxIngested, MaxClears, MaxOutages, MaxRestarts} \subseteq Nat

VARIABLES
    ring,        \* Inner.lines: sequence of [seq, line]
    nextSeq,     \* Inner.next_seq
    generation,  \* Inner.generation
    page,        \* the answer to the poll in flight: {} when there is none
    cursor,      \* StreamState.cursor, 0 for None
    seenGen,     \* StreamState.generation
    live,        \* StreamState.live
    pane,        \* the lines the client shows
    paneLive,    \* the last liveCapture it was sent
    \* history, for the properties
    ingested,      \* lines ever ingested
    era,         \* for each line, how many clears came before it
    loss,        \* for each line, how many lost lines it reports
    clears, outages, restarts

server == <<ring, nextSeq, generation>>
stream == <<cursor, seenGen, live, pane, paneLive>>
paneVars == <<server, page, stream, ingested, era, loss, clears, outages, restarts>>

NoAnswer == [ok |-> FALSE]
Line == 1..MaxIngested
SeqNo == 1..(MaxIngested + 1)

PaneTypeOK ==
    /\ ring \in Seq([seq : SeqNo, line : Line])
    /\ Len(ring) <= MaxLines
    /\ nextSeq \in SeqNo
    /\ generation \in 0..MaxClears
    /\ page = {} \/ \E p \in page : page = {p} /\ p.ok \in BOOLEAN
    /\ cursor \in 0..MaxIngested
    /\ seenGen \in 0..MaxClears
    /\ live \in BOOLEAN
    /\ pane \in Seq(Line)
    /\ paneLive \in BOOLEAN
    /\ ingested \in 0..MaxIngested
    /\ era \in [Line -> 0..MaxClears]
    /\ loss \in [Line -> Nat]
    /\ clears \in 0..MaxClears
    /\ outages \in 0..MaxOutages
    /\ restarts \in 0..MaxRestarts

PaneInit ==
    /\ ring = <<>>
    /\ nextSeq = 1
    /\ generation = 0
    /\ page = {}
    /\ cursor = 0
    /\ seenGen = 0
    /\ live = TRUE
    /\ pane = <<>>
    /\ paneLive = TRUE
    /\ ingested = 0
    /\ era = [n \in Line |-> 0]
    /\ loss = [n \in Line |-> 0]
    /\ clears = 0
    /\ outages = 0
    /\ restarts = 0

-----------------------------------------------------------------------------
(* Buffer, in the state service *)

\* The oldest lines go when the ring is over its size.
Newest(lines) ==
    IF Len(lines) > MaxLines THEN SubSeq(lines, Len(lines) - MaxLines + 1, Len(lines)) ELSE lines

\* append: a batch under one lock; its last line says how many were lost.
Ingest(count, missed) ==
    /\ count <= MaxIngested - ingested
    /\ LET come == ingested + 1 .. ingested + count
           batched == [i \in 1..count |-> [seq |-> nextSeq + i - 1, line |-> ingested + i]]
       IN /\ ring' = Newest(ring \o batched)
          /\ era' = [n \in Line |-> IF n \in come THEN clears ELSE era[n]]
          /\ loss' = [n \in Line |-> IF n = ingested + count THEN missed ELSE loss[n]]
    /\ ingested' = ingested + count
    /\ nextSeq' = nextSeq + count
    /\ UNCHANGED <<generation, page, stream, clears, outages, restarts>>

\* Mutant: the generation is not bumped.
ClearSilently ==
    /\ clears < MaxClears
    /\ clears' = clears + 1
    /\ ring' = <<>>
    /\ UNCHANGED <<nextSeq, generation, page, stream, ingested, era, loss, outages, restarts>>

Clear ==
    /\ clears < MaxClears
    /\ clears' = clears + 1
    /\ ring' = <<>>
    /\ generation' = generation + 1
    /\ UNCHANGED <<nextSeq, page, stream, ingested, era, loss, outages, restarts>>

\* Buffer::default: nothing of the ring is persisted.
Restart ==
    /\ restarts < MaxRestarts
    /\ restarts' = restarts + 1
    /\ ring' = <<>>
    /\ nextSeq' = 1
    /\ generation' = 0
    /\ UNCHANGED <<page, stream, ingested, era, loss, clears, outages>>

\* The lines numbered after the cursor: the numbers rise, so they are the ring's end.
FirstAfter(at) ==
    CHOOSE k \in 1..(Len(ring) + 1) : \A i \in DOMAIN ring : ring[i].seq > at <=> i >= k

After(at) == SubSeq(ring, FirstAfter(at), Len(ring))

\* Mutant: an evicted cursor is not reported.
SinceSilent(at) ==
    [ok |-> TRUE, generation |-> generation, dropped |-> FALSE,
     cursor |-> IF After(at) = <<>> THEN at ELSE Last(After(at)).seq,
     logs |-> [i \in DOMAIN After(at) |-> After(at)[i].line]]

\* since: the lines after the cursor, and whether some were evicted unseen.
Since(at) ==
    [ok |-> TRUE, generation |-> generation,
     dropped |-> at # 0 /\ ring # <<>> /\ at + 1 < Head(ring).seq,
     cursor |-> IF After(at) = <<>> THEN at ELSE Last(After(at)).seq,
     logs |-> [i \in DOMAIN After(at) |-> After(at)[i].line]]

-----------------------------------------------------------------------------
(* The stream, in the events service *)

Poll ==
    /\ page = {}
    /\ page' = {Since(cursor)}
    /\ UNCHANGED <<server, stream, ingested, era, loss, clears, outages, restarts>>

\* Unreachable, timed out, or not a success.
PollFails ==
    /\ page = {}
    /\ outages < MaxOutages
    /\ outages' = outages + 1
    /\ page' = {NoAnswer}
    /\ UNCHANGED <<server, stream, ingested, era, loss, clears, restarts>>

\* next_frame of a failed poll: said once, by a frame that shows no line.
FrameOfOutage(p) ==
    /\ ~p.ok
    /\ live' = FALSE
    /\ paneLive' = FALSE
    /\ UNCHANGED <<cursor, seenGen, pane>>

\* Mutant: a page without lines moves the cursor back to the ring's start.
FrameRewinds(p) ==
    /\ p.ok
    /\ seenGen' = p.generation
    /\ live' = TRUE
    /\ IF p.logs # <<>>
       THEN /\ cursor' = p.cursor
            /\ pane' = pane \o p.logs
            /\ paneLive' = TRUE
       ELSE cursor' = 0 /\ UNCHANGED <<pane, paneLive>>

\* Mutant: a page with a gap is not used.
FrameStuckOnGap(p) ==
    /\ p.ok
    /\ seenGen' = p.generation
    /\ live' = TRUE
    /\ LET cleared == p.generation # seenGen /\ cursor # 0
       IN IF p.logs # <<>> /\ (cleared \/ ~p.dropped)
          THEN /\ cursor' = p.cursor
               /\ pane' = IF cursor = 0 \/ cleared \/ ~live THEN p.logs ELSE pane \o p.logs
               /\ paneLive' = TRUE
          ELSE IF cleared
          THEN pane' = <<>> /\ UNCHANGED <<cursor, paneLive>>
          ELSE UNCHANGED <<cursor, pane, paneLive>>

\* next_frame of a page: lines are appended, unless what the client has can no
\* longer be continued, then they replace it; a clear without lines empties it;
\* a page with nothing to say sends nothing.
Frame(p) ==
    /\ p.ok
    /\ seenGen' = p.generation
    /\ live' = TRUE
    /\ LET cleared == p.generation # seenGen /\ cursor # 0
           replace == cursor = 0 \/ cleared \/ ~live \/ p.dropped
       IN IF p.logs # <<>>
          THEN /\ cursor' = p.cursor
               /\ pane' = IF replace THEN p.logs ELSE pane \o p.logs
               /\ paneLive' = TRUE
          ELSE IF cleared
          THEN /\ cursor' = p.cursor
               /\ pane' = <<>>
               /\ paneLive' = TRUE
          ELSE UNCHANGED <<cursor, pane, paneLive>>

NextFrame ==
    /\ \E p \in page : FrameOfOutage(p) \/ Frame(p)
    /\ page' = {}
    /\ UNCHANGED <<server, ingested, era, loss, clears, outages, restarts>>

PaneStep ==
    \/ Clear
    \/ Restart
    \/ Poll
    \/ PollFails
    \/ NextFrame

\* The stream's body is polled for as long as the client is connected.
PaneFairness == WF_paneVars(Poll) /\ WF_paneVars(NextFrame)

-----------------------------------------------------------------------------
(* Safety *)

\* "Appending after a gap would present a discontinuous log as continuous": as
\* long as the state service has not restarted, the pane is one uninterrupted
\* run of what was ingested, without repeats.
PaneContinuous ==
    restarts = 0 => \A i \in 1..(Len(pane) - 1) : pane[i + 1] = pane[i] + 1

\* "A client that appended the post-clear lines without being told about the
\* clear would show them below stale ones": as long as the state service has not
\* restarted, no clear separates two lines shown.
NoStaleLineAbove ==
    restarts = 0 => \A i, j \in DOMAIN pane : era[pane[i]] = era[pane[j]]

\* "Polling with the last cursor must not re-send lines the client already
\* has": no line is shown twice or out of order, not even after a restart that
\* numbers from 1 again under the stream's cursor.
PaneInOrder == \A i, j \in DOMAIN pane : i < j => pane[i] < pane[j]

\* The pane shows a log: in order always, and without a gap or a stale line as
\* long as the state service has not restarted.
PaneFaithful == PaneInOrder /\ PaneContinuous /\ NoStaleLineAbove

\* "Whether the last read succeeded, so a recovery is reported rather than
\* silently resumed": the client's idea of the stream is the stream's own.  The
\* code breaks it (README, deviations): an empty page after an outage sends nothing.
RecoveryReported == paneLive = live

\* The stream's own test says "a discontinuous log" must not be presented "as
\* continuous", with no exception.  The code breaks it (README, deviations): a
\* restart of the state service resets the numbers that would show the gap.
PaneContinuousAlways ==
    \A i \in 1..(Len(pane) - 1) : pane[i + 1] = pane[i] + 1

-----------------------------------------------------------------------------
(* Liveness *)

\* The pane catches up: once logging stops, it ends with the ring's last line,
\* whatever clears, evictions and outages came before.
PaneCatchesUp ==
    <>[](restarts = 0 /\ ring # <<>> => pane # <<>> /\ Last(pane) = Last(ring).line)
=============================================================================
