---------------------------- MODULE LogPathProofs ----------------------------
(***************************************************************************)
(* A line's way to the pane, for any number of threads, lines, failures,   *)
(* clears and restarts: a line that is lost is counted exactly once, and    *)
(* what the pane shows is a log.                                           *)
(*                                                                         *)
(* The pane, the page under way and the ring change apart from each other; *)
(* the invariant relates each to what the state service has numbered.      *)
(* Offset is how far its numbers have fallen behind the lines: a restart   *)
(* numbers from 1 again, and nothing else moves it, so a cursor of before   *)
(* the restart can hide lines from the pane and never repeat one.           *)
(***************************************************************************)
EXTENDS LogPath, TLAPS, FiniteSetTheorems, SequenceTheorems, WellFoundedInduction

-----------------------------------------------------------------------------
(* The shipper. *)

ShipShape ==
    /\ counting \subseteq Threads /\ IsFiniteSet(counting)
    /\ queue \in Nat /\ dropped \in Nat /\ batch \in Nat /\ missed \in Nat
    /\ logged \in Nat /\ counted \in Nat /\ delivered \in Nat /\ reported \in Nat
    /\ failures \in Nat
    /\ drain \in {"idle", "filling", "posting"}
    /\ drain # "posting" => missed = 0
    /\ drain = "idle" => batch = 0

ShipInv == ShipShape /\ GapsAreCounted

\* Nothing was logged at the start.
LEMMA ShipInitially == ShipInit => ShipInv
  BY FS_EmptySet DEF ShipInit, ShipInv, ShipShape, GapsAreCounted

\* A line goes to the channel, or its thread to count it.
LEMMA LogStep ==
    ASSUME ShipInv, NEW t \in Threads, Log(t)
    PROVE  ShipInv'
  <1> USE DEF ShipInv, ShipShape, GapsAreCounted, Log
  <1>1. Cardinality(counting) \in Nat
    BY FS_CardinalityType
  <1>2. CASE queue < Capacity
    BY <1>1, <1>2
  <1>3. CASE ~(queue < Capacity)
    <2>1. /\ counting' = counting \cup {t} /\ IsFiniteSet(counting')
          /\ Cardinality(counting') = Cardinality(counting) + 1
      BY <1>3, FS_AddElement
    <2> QED BY <1>1, <1>3, <2>1
  <1> QED BY <1>2, <1>3

\* A drop is counted once.
LEMMA CountDropStep ==
    ASSUME ShipInv, NEW t \in Threads, CountDrop(t)
    PROVE  ShipInv'
  <1> USE DEF ShipInv, ShipShape, GapsAreCounted, CountDrop
  <1>1. /\ counting' = counting \ {t} /\ IsFiniteSet(counting')
        /\ Cardinality(counting') = Cardinality(counting) - 1
        /\ Cardinality(counting) \in Nat /\ Cardinality(counting') \in Nat
    BY FS_RemoveElement, FS_CardinalityType
  <1> QED BY <1>1

\* The drain moves lines and counts, and loses the lines of a post that fails.
LEMMA DrainKeeps ==
    ASSUME ShipInv, Receive \/ CloseBatch \/ PostLands \/ PostFails \/ UNCHANGED shipVars
    PROVE  ShipInv'
  <1> USE DEF ShipInv, ShipShape, GapsAreCounted
  <1>1. Cardinality(counting) \in Nat
    BY FS_CardinalityType
  <1>2. CASE Receive
    BY <1>1, <1>2 DEF Receive
  <1>3. CASE CloseBatch
    BY <1>1, <1>3 DEF CloseBatch
  <1>4. CASE PostLands
    BY <1>1, <1>4 DEF PostLands, NextBatch
  <1>5. CASE UNCHANGED shipVars
    BY <1>5 DEF shipVars
  <1>6. CASE PostFails
    BY <1>1, <1>6 DEF PostFails, NextBatch
  <1> QED BY <1>2, <1>3, <1>4, <1>5, <1>6

-----------------------------------------------------------------------------
(* The pane. *)

\* By how much the numbers in the ring are behind the lines.
Offset == ingested + 1 - nextSeq

PaneShape ==
    /\ ingested \in 0..MaxIngested
    /\ nextSeq \in 1..(ingested + 1)
    /\ generation \in Nat /\ clears \in Nat /\ restarts \in Nat
    /\ cursor \in Nat /\ seenGen \in Nat
    /\ pane \in Seq(Line)
    /\ era \in [Line -> Nat]

\* The ring is the newest lines, numbered one after the other.
RingInv ==
    /\ ring \in Seq([seq : SeqNo, line : Line])
    /\ Len(ring) <= nextSeq - 1
    /\ \A i \in 1..Len(ring) :
          ring[i].seq = nextSeq - 1 - Len(ring) + i /\ ring[i].line = ring[i].seq + Offset

\* What the stream has shown is numbered up to its cursor.
CursorInv ==
    \A i \in 1..Len(pane) : pane[i] <= cursor + Offset /\ pane[i] <= ingested

\* What the page under way brings is newer than all that is shown, in order, and
\* numbered up to the page's cursor.
Continues(p) ==
    /\ p.generation \in Nat /\ p.cursor \in Nat /\ p.logs \in Seq(Line)
    /\ p.logs = <<>> => p.cursor = cursor
    /\ \A i \in 1..Len(p.logs) :
          /\ p.logs[i] = p.logs[1] + i - 1
          /\ p.logs[i] <= p.cursor + Offset /\ p.logs[i] <= ingested
    /\ \A i \in 1..Len(pane), j \in 1..Len(p.logs) : pane[i] < p.logs[j]

PageInv == \A p \in page : p.ok => Continues(p)

\* As long as nothing restarted, a number is a line's and a generation counts the
\* clears; the cursor is at the last line shown, and a page without a gap goes on
\* from there.
GoesOn(p) ==
    /\ \A i \in 1..Len(p.logs) : era[p.logs[i]] = p.generation
    /\ p.logs # <<>> => p.logs[Len(p.logs)] = p.cursor
    /\ p.logs # <<>> /\ ~p.dropped /\ cursor # 0 => p.logs[1] = cursor + 1

FirstRun ==
    restarts = 0 =>
        /\ nextSeq = ingested + 1 /\ generation = clears
        /\ \A i \in 1..Len(ring) : era[ring[i].line] = clears
        /\ pane # <<>> => pane[Len(pane)] = cursor
        /\ \A i \in 1..Len(pane) : era[pane[i]] = seenGen
        /\ \A p \in page : p.ok => GoesOn(p)

PaneInv == PaneShape /\ RingInv /\ CursorInv /\ PageInv /\ FirstRun /\ PaneFaithful

Entry == [seq : SeqNo, line : Line]

\* Nothing was ingested at the start.
LEMMA PaneInitially == PaneInit => PaneInv
  <1> SUFFICES ASSUME PaneInit PROVE PaneInv
    OBVIOUS
  <1> USE PaneAssumption DEF PaneInit
  <1>1. ring = <<>> /\ pane = <<>> /\ Len(ring) = 0 /\ Len(pane) = 0 /\ page = {}
    OBVIOUS
  <1>2. PaneShape
    BY <1>1 DEF PaneShape, Line
  <1>3. RingInv /\ CursorInv /\ PageInv
    BY <1>1 DEF RingInv, CursorInv, PageInv
  <1>4. FirstRun
    BY <1>1 DEF FirstRun
  <1>5. PaneFaithful
    BY <1>1 DEF PaneFaithful, PaneInOrder, PaneContinuous, NoStaleLineAbove
  <1> QED BY <1>2, <1>3, <1>4, <1>5 DEF PaneInv

\* The lines numbered after a cursor are the ring's end, numbered one after the
\* other; without any, the ring ends at the cursor.
LEMMA WhatIsAfter ==
    ASSUME PaneShape, RingInv, NEW at \in Nat
    PROVE  /\ After(at) \in Seq(Entry)
           /\ \A i \in 1..Len(After(at)) :
                 /\ After(at)[i].seq = nextSeq - 1 - Len(After(at)) + i
                 /\ After(at)[i].line = After(at)[i].seq + Offset
                 /\ After(at)[i].seq > at
                 /\ \E j \in 1..Len(ring) : After(at)[i] = ring[j]
           /\ Len(After(at)) > 0 /\ ~(at + 1 < ring[1].seq) => After(at)[1].seq = at + 1
           /\ Len(After(at)) > 0 => ring # <<>>
  <1> DEFINE n == Len(ring)
             k == FirstAfter(at)
             P(x) == \A i \in DOMAIN ring : ring[i].seq > at <=> i >= x
             k0 == IF at < nextSeq - n THEN 1
                   ELSE IF at >= nextSeq - 1 THEN n + 1 ELSE at - nextSeq + n + 2
  <1>1. n \in Nat /\ DOMAIN ring = 1..n /\ nextSeq \in Nat /\ n <= nextSeq - 1
        /\ ring \in Seq(Entry) /\ ingested \in Nat
    BY PaneAssumption DEF PaneShape, RingInv, Entry
  <1>2. \A i \in 1..n : ring[i].seq = nextSeq - 1 - n + i /\ ring[i].line = ring[i].seq + Offset
    BY DEF RingInv
  <1>2a. k0 \in 1..(n + 1) /\ P(k0)
    BY <1>1, <1>2
  <1>3. k \in 1..(n + 1) /\ P(k)
    BY <1>2a DEF FirstAfter
  <1> HIDE DEF k, k0, n
  <1>4. \A i \in k..n : ring[i] \in Entry
    BY <1>1, <1>3, ElementOfSeq DEF n
  <1>5. /\ After(at) \in Seq(Entry)
        /\ Len(After(at)) = n - k + 1
        /\ \A i \in 1..(n - k + 1) : After(at)[i] = ring[k + i - 1]
    BY <1>1, <1>3, <1>4, SubSeqProperties DEF After, k, n
  <1>6. ASSUME NEW i \in 1..Len(After(at))
        PROVE  /\ After(at)[i].seq = nextSeq - 1 - Len(After(at)) + i
               /\ After(at)[i].line = After(at)[i].seq + Offset
               /\ After(at)[i].seq > at
               /\ \E j \in 1..Len(ring) : After(at)[i] = ring[j]
    <2>1. k + i - 1 \in 1..n /\ k + i - 1 >= k /\ After(at)[i] = ring[k + i - 1]
      BY <1>1, <1>3, <1>5
    <2>2. /\ ring[k + i - 1].seq = nextSeq - 1 - n + (k + i - 1)
          /\ ring[k + i - 1].line = ring[k + i - 1].seq + Offset
      BY <1>2, <2>1
    <2>3. ring[k + i - 1].seq > at
      BY <1>1, <1>3, <2>1
    <2>4. nextSeq - 1 - n + (k + i - 1) = nextSeq - 1 - Len(After(at)) + i
      BY <1>1, <1>3, <1>5
    <2> QED BY <2>1, <2>2, <2>3, <2>4 DEF n
  <1>7. ASSUME Len(After(at)) > 0, ~(at + 1 < ring[1].seq) PROVE After(at)[1].seq = at + 1
    <2>0. k \in 1..n /\ k + 1 - 1 = k /\ 1 \in 1..(n - k + 1)
      BY <1>1, <1>3, <1>5, <1>7
    <2>1. k \in 1..n /\ After(at)[1] = ring[k] /\ ring[k].seq > at
      <3>1. After(at)[1] = ring[k]
        BY <1>5, <2>0
      <3>2. ring[k].seq > at
        BY <1>1, <1>3, <2>0
      <3> QED BY <2>0, <3>1, <3>2
    <2>2. CASE k = 1
      <3>1. ring[1].seq \in Nat
        BY <1>1, <1>2, <2>1, <2>2
      <3> QED BY <1>7, <2>1, <2>2, <3>1
    <2>3. CASE k # 1
      <3>1. k - 1 \in 1..n /\ ~(ring[k - 1].seq > at)
        BY <1>1, <1>3, <2>1, <2>3
      <3>2. ring[k].seq = nextSeq - 1 - n + k /\ ring[k - 1].seq = nextSeq - 1 - n + (k - 1)
        BY <1>2, <2>1, <3>1
      <3> QED BY <1>1, <2>1, <3>1, <3>2
    <2> QED BY <2>2, <2>3
  <1>8. Len(After(at)) > 0 => ring # <<>>
    BY <1>1, <1>3, <1>5 DEF n
  <1> QED BY <1>5, <1>6, <1>7, <1>8

\* A batch goes behind the ring's lines; the lines shown are older.
LEMMA IngestKeeps ==
    ASSUME PaneInv, NEW count \in Nat, NEW lost, Ingest(count, lost)
    PROVE  PaneInv'
  <1> DEFINE n == Len(ring)
             come == ingested + 1 .. ingested + count
             batched == [i \in 1..count |-> [seq |-> nextSeq + i - 1, line |-> ingested + i]]
             joined == ring \o batched
  <1>1. /\ n \in Nat /\ n <= nextSeq - 1 /\ ring \in Seq(Entry)
        /\ nextSeq \in Nat /\ nextSeq >= 1 /\ nextSeq <= ingested + 1
        /\ ingested \in Nat /\ ingested + count <= MaxIngested
        /\ MaxIngested \in Nat /\ MaxLines \in Nat /\ MaxLines > 0
    BY PaneAssumption DEF PaneInv, PaneShape, RingInv, Entry, Ingest
  <1>2. \A i \in 1..n : ring[i].seq = nextSeq - 1 - n + i /\ ring[i].line = ring[i].seq + Offset
    BY DEF PaneInv, RingInv
  <1>3. /\ ring' = Newest(joined)
        /\ era' = [x \in Line |-> IF x \in come THEN clears ELSE era[x]]
        /\ ingested' = ingested + count /\ nextSeq' = nextSeq + count
        /\ generation' = generation /\ page' = page /\ clears' = clears /\ restarts' = restarts
        /\ cursor' = cursor /\ seenGen' = seenGen /\ pane' = pane
    BY DEF Ingest, stream
  <1>4. Offset' = Offset
    BY <1>1, <1>3 DEF Offset
  <1>5. batched \in Seq(Entry) /\ Len(batched) = count
    <2>1. \A i \in 1..count : nextSeq + i - 1 \in SeqNo /\ ingested + i \in Line
      BY <1>1 DEF SeqNo, Line
    <2>2. batched \in [1..count -> Entry]
      BY <2>1 DEF Entry
    <2>3. Len(batched) = count
      BY <2>2
    <2> HIDE DEF batched
    <2> QED BY <2>2, <2>3
  <1>6. /\ joined \in Seq(Entry) /\ Len(joined) = n + count
        /\ \A i \in 1..(n + count) :
              joined[i] = IF i <= n THEN ring[i] ELSE batched[i - n]
    <2> HIDE DEF batched
    <2> QED BY <1>1, <1>5, ConcatProperties
  <1> HIDE DEF joined, n, batched
  <1>7. ASSUME NEW i \in 1..(n + count)
        PROVE  /\ joined[i].seq = nextSeq' - 1 - (n + count) + i
               /\ joined[i].line = joined[i].seq + Offset
               /\ joined[i].line \in come \/ \E j \in 1..n : joined[i] = ring[j]
    <2>1. CASE i <= n
      <3>1. i \in 1..n /\ joined[i] = ring[i]
        BY <1>1, <1>6, <2>1
      <3>2. ring[i].seq = nextSeq - 1 - n + i /\ ring[i].line = ring[i].seq + Offset
        BY <1>2, <3>1
      <3> QED BY <1>1, <1>3, <3>1, <3>2
    <2>2. CASE ~(i <= n)
      <3>0. i - n \in 1..count /\ joined[i] = batched[i - n]
        BY <1>1, <1>6, <2>2
      <3>1. joined[i] = [seq |-> nextSeq + (i - n) - 1, line |-> ingested + (i - n)]
        BY <3>0 DEF batched
      <3>2. joined[i].seq = nextSeq + (i - n) - 1 /\ joined[i].line = ingested + (i - n)
        BY <3>1
      <3> QED BY <1>1, <1>3, <3>0, <3>1, <3>2 DEF Offset
    <2> QED BY <2>1, <2>2
  <1>8. PICK d \in Nat :
          /\ ring' \in Seq(Entry) /\ Len(ring') = n + count - d /\ d <= n + count
          /\ \A i \in 1..(n + count - d) : i + d \in 1..(n + count) /\ ring'[i] = joined[i + d]
    <2>1. CASE n + count <= MaxLines
      <3>1. ring' = joined
        BY <1>1, <1>3, <1>6, <2>1 DEF Newest
      <3>2. /\ 0 \in Nat /\ 0 <= n + count /\ n + count - 0 = n + count
            /\ \A i \in 1..(n + count) : i + 0 = i
        BY <1>1
      <3> QED BY <1>6, <3>1, <3>2
    <2>2. CASE ~(n + count <= MaxLines)
      <3> DEFINE m == Len(joined) - MaxLines + 1
      <3>0. Len(joined) > MaxLines
        BY <1>1, <1>6, <2>2
      <3>1. ring' = SubSeq(joined, m, Len(joined))
        BY <1>3, <3>0 DEF Newest
      <3>2. m \in 2..(n + count) /\ m - 1 \in Nat /\ Len(joined) = n + count
        BY <1>1, <1>6, <2>2
      <3>3. \A i \in m..(n + count) : joined[i] \in Entry
        BY <1>1, <1>6, <3>2, ElementOfSeq
      <3> HIDE DEF m
      <3>4. /\ ring' \in Seq(Entry) /\ Len(ring') = n + count - m + 1
            /\ \A i \in 1..(n + count - m + 1) : ring'[i] = joined[m + i - 1]
        BY <1>1, <3>1, <3>2, <3>3, SubSeqProperties
      <3>5. \A i \in 1..(n + count - (m - 1)) :
                i + (m - 1) \in 1..(n + count) /\ m + i - 1 = i + (m - 1)
                /\ i \in 1..(n + count - m + 1)
        BY <1>1, <3>2
      <3>6. n + count - (m - 1) = n + count - m + 1 /\ m - 1 <= n + count
        BY <1>1, <3>2
      <3> QED BY <3>2, <3>4, <3>5, <3>6
    <2> QED BY <2>1, <2>2
  <1>9. PaneShape'
    <2>1. ingested' \in 0..MaxIngested /\ nextSeq' \in 1..(ingested' + 1)
      BY <1>1, <1>3
    <2>2. era' \in [Line -> Nat]
      BY <1>3 DEF PaneInv, PaneShape
    <2> QED BY <1>3, <2>1, <2>2 DEF PaneInv, PaneShape
  <1>10. RingInv'
    <2>1. Len(ring') \in Nat /\ Len(ring') <= nextSeq' - 1
      BY <1>1, <1>3, <1>8
    <2>2. ASSUME NEW i \in 1..Len(ring')
          PROVE  /\ ring'[i].seq = nextSeq' - 1 - Len(ring') + i
                 /\ ring'[i].line = ring'[i].seq + Offset'
      <3>1. i + d \in 1..(n + count) /\ ring'[i] = joined[i + d]
        BY <1>8
      <3>2. nextSeq' - 1 - (n + count) + (i + d) = nextSeq' - 1 - Len(ring') + i
        BY <1>1, <1>3, <1>8
      <3> QED BY <1>4, <1>7, <3>1, <3>2
    <2> QED BY <1>8, <2>1, <2>2 DEF RingInv, Entry
  <1>11. CursorInv'
    BY <1>1, <1>3, <1>4 DEF PaneInv, CursorInv, PaneShape, Line
  <1>12. PageInv'
    <2>1. ASSUME NEW p \in page, p.ok PROVE Continues(p)'
      <3>1. Continues(p)
        BY <2>1 DEF PaneInv, PageInv
      <3>2. \A i \in 1..Len(p.logs) : p.logs[i] <= ingested'
        BY <1>1, <1>3, <3>1 DEF Continues, Line
      <3> QED BY <1>3, <1>4, <3>1, <3>2 DEF Continues
    <2> QED BY <1>3, <2>1 DEF PageInv
  <1>13. \A x \in Line : x <= ingested => era'[x] = era[x]
    BY <1>1, <1>3 DEF Line
  <1>14. \A i \in 1..Len(pane) : pane[i] \in Line /\ era'[pane[i]] = era[pane[i]]
    <2>1. \A i \in 1..Len(pane) : pane[i] \in Line /\ pane[i] <= ingested
      BY ElementOfSeq DEF PaneInv, PaneShape, CursorInv
    <2> QED BY <1>13, <2>1
  <1>15. FirstRun'
    <2> SUFFICES ASSUME restarts = 0 PROVE FirstRun'
      BY <1>3 DEF FirstRun
    <2>1. nextSeq' = ingested' + 1 /\ generation' = clears'
      BY <1>1, <1>3 DEF PaneInv, FirstRun
    <2>2. ASSUME NEW i \in 1..Len(ring') PROVE era'[ring'[i].line] = clears'
      <3>1. i + d \in 1..(n + count) /\ ring'[i] = joined[i + d] /\ ring'[i] \in Entry
        BY <1>8, ElementOfSeq
      <3>2. ring'[i].line \in Line
        BY <3>1 DEF Entry
      <3>3. CASE joined[i + d].line \in come
        BY <1>3, <3>1, <3>2, <3>3
      <3>4. CASE joined[i + d].line \notin come
        <4>1. PICK j \in 1..n : joined[i + d] = ring[j]
          BY <1>7, <3>1, <3>4
        <4>2. era[ring[j].line] = clears
          BY DEF PaneInv, FirstRun, n
        <4> QED BY <1>3, <3>1, <3>2, <3>4, <4>1, <4>2
      <3> QED BY <3>3, <3>4
    <2>3. \A p \in page : p.ok => GoesOn(p)'
      <3>1. ASSUME NEW p \in page, p.ok PROVE GoesOn(p)'
        <4>1. GoesOn(p) /\ Continues(p)
          BY <3>1 DEF PaneInv, FirstRun, PageInv
        <4>2. \A i \in 1..Len(p.logs) : p.logs[i] \in Line /\ p.logs[i] <= ingested
          BY <4>1, ElementOfSeq DEF Continues
        <4> QED BY <1>3, <1>13, <4>1, <4>2 DEF GoesOn
      <3> QED BY <3>1
    <2> QED BY <1>3, <1>14, <2>1, <2>2, <2>3 DEF PaneInv, FirstRun
  <1>16. PaneFaithful'
    <2>1. DOMAIN pane = 1..Len(pane)
      BY DEF PaneInv, PaneShape
    <2>2. NoStaleLineAbove'
      <3> SUFFICES ASSUME restarts = 0, NEW i \in 1..Len(pane), NEW j \in 1..Len(pane)
                   PROVE  era'[pane[i]] = era'[pane[j]]
        BY <1>3, <2>1 DEF NoStaleLineAbove
      <3>1. era[pane[i]] = era[pane[j]]
        BY <2>1 DEF PaneInv, PaneFaithful, NoStaleLineAbove
      <3> QED BY <1>14, <3>1
    <2> QED BY <1>3, <2>2 DEF PaneInv, PaneFaithful, PaneInOrder, PaneContinuous
  <1> QED BY <1>9, <1>10, <1>11, <1>12, <1>15, <1>16 DEF PaneInv

\* A clear empties the ring and is told by the generation.
LEMMA ClearKeeps ==
    ASSUME PaneInv, Clear
    PROVE  PaneInv'
  <1>1. /\ ring' = <<>> /\ generation' = generation + 1 /\ clears' = clears + 1
        /\ nextSeq' = nextSeq /\ ingested' = ingested /\ era' = era /\ page' = page
        /\ restarts' = restarts /\ cursor' = cursor /\ seenGen' = seenGen /\ pane' = pane
    BY DEF Clear, stream
  <1>2. Offset' = Offset /\ Len(ring') = 0
    BY <1>1 DEF Offset
  <1>3. PaneShape'
    BY <1>1 DEF PaneInv, PaneShape
  <1>4. RingInv'
    BY <1>1, <1>2 DEF PaneInv, PaneShape, RingInv
  <1>5. CursorInv'
    BY <1>1, <1>2 DEF PaneInv, CursorInv
  <1>6. PageInv'
    BY <1>1, <1>2 DEF PaneInv, PageInv, Continues
  <1>7. FirstRun'
    BY <1>1, <1>2 DEF PaneInv, FirstRun, GoesOn
  <1>8. PaneFaithful'
    BY <1>1 DEF PaneInv, PaneFaithful, PaneInOrder, PaneContinuous, NoStaleLineAbove
  <1> QED BY <1>3, <1>4, <1>5, <1>6, <1>7, <1>8 DEF PaneInv

\* After a restart the numbers are behind by all lines so far, none of which is
\* newer than what was shown or is on its way.
LEMMA RestartKeeps ==
    ASSUME PaneInv, Restart
    PROVE  PaneInv'
  <1>1. /\ ring' = <<>> /\ generation' = 0 /\ nextSeq' = 1 /\ restarts' = restarts + 1
        /\ clears' = clears /\ ingested' = ingested /\ era' = era /\ page' = page
        /\ cursor' = cursor /\ seenGen' = seenGen /\ pane' = pane
    BY DEF Restart, stream
  <1>2. /\ Offset' = ingested /\ Len(ring') = 0 /\ restarts' # 0
        /\ ingested \in Nat /\ cursor \in Nat /\ MaxIngested \in Nat
    BY <1>1, PaneAssumption DEF Offset, PaneInv, PaneShape
  <1>3. PaneShape'
    BY <1>1, <1>2 DEF PaneInv, PaneShape
  <1>4. RingInv'
    BY <1>1, <1>2 DEF RingInv
  <1>5. CursorInv'
    <2>1. \A i \in 1..Len(pane) : pane[i] \in Nat /\ pane[i] <= ingested
      BY ElementOfSeq DEF PaneInv, PaneShape, CursorInv, Line
    <2> QED BY <1>1, <1>2, <2>1 DEF CursorInv
  <1>6. PageInv'
    <2>1. ASSUME NEW p \in page, p.ok PROVE Continues(p)'
      <3>1. Continues(p)
        BY <2>1 DEF PaneInv, PageInv
      <3>2. \A i \in 1..Len(p.logs) : p.logs[i] \in Nat /\ p.logs[i] <= ingested
        <4>1. \A i \in 1..Len(p.logs) : p.logs[i] \in Line /\ p.logs[i] <= ingested
          BY <3>1, ElementOfSeq DEF Continues
        <4> QED BY <1>2, <4>1 DEF Line
      <3>3. \A i \in 1..Len(p.logs) : p.logs[i] <= p.cursor + ingested
        BY <1>2, <3>1, <3>2 DEF Continues
      <3> QED BY <1>1, <1>2, <3>1, <3>2, <3>3 DEF Continues
    <2> QED BY <1>1, <2>1 DEF PageInv
  <1>7. FirstRun'
    BY <1>2 DEF FirstRun
  <1>8. PaneFaithful'
    BY <1>1, <1>2 DEF PaneInv, PaneFaithful, PaneInOrder, PaneContinuous, NoStaleLineAbove
  <1> QED BY <1>3, <1>4, <1>5, <1>6, <1>7, <1>8 DEF PaneInv

\* An answer brings the lines after the cursor, and tells of a gap before them.
LEMMA PollKeeps ==
    ASSUME PaneInv, Poll
    PROVE  PaneInv'
  <1> DEFINE new == After(cursor)
             m == Len(new)
             p == Since(cursor)
  <1>1. /\ page' = {p}
        /\ ring' = ring /\ generation' = generation /\ nextSeq' = nextSeq /\ clears' = clears
        /\ ingested' = ingested /\ era' = era /\ restarts' = restarts
        /\ cursor' = cursor /\ seenGen' = seenGen /\ pane' = pane
    BY DEF Poll, server, stream
  <1>2. /\ cursor \in Nat /\ generation \in Nat /\ ingested \in Nat /\ nextSeq \in Nat
        /\ MaxIngested \in Nat /\ ring \in Seq(Entry)
    BY PaneAssumption DEF PaneInv, PaneShape, RingInv, Entry
  <1>3. /\ new \in Seq(Entry)
        /\ \A i \in 1..m :
              /\ new[i].seq = nextSeq - 1 - m + i
              /\ new[i].line = new[i].seq + Offset
              /\ new[i].seq > cursor
              /\ \E j \in 1..Len(ring) : new[i] = ring[j]
        /\ m > 0 /\ ~(cursor + 1 < ring[1].seq) => new[1].seq = cursor + 1
        /\ m > 0 => ring # <<>>
    BY <1>2, WhatIsAfter DEF PaneInv
  <1> HIDE DEF new
  <1>4. m \in Nat /\ DOMAIN new = 1..m /\ (new = <<>> <=> m = 0)
    BY <1>3
  <1>5. /\ p.generation = generation
        /\ p.dropped = (cursor # 0 /\ ring # <<>> /\ cursor + 1 < ring[1].seq)
        /\ p.cursor = IF m = 0 THEN cursor ELSE new[m].seq
        /\ p.logs = [i \in 1..m |-> new[i].line]
    BY <1>4 DEF Since, Last, new
  <1> HIDE DEF p
  <1>6. \A i \in 1..m : new[i] \in Entry /\ new[i].line \in Line
    <2>1. \A i \in 1..m : new[i] \in Entry
      BY <1>3, ElementOfSeq
    <2> QED BY <2>1 DEF Entry
  <1>7. /\ p.logs \in Seq(Line) /\ Len(p.logs) = m /\ (p.logs = <<>> <=> m = 0)
        /\ \A i \in 1..m : p.logs[i] = new[i].line
    <2>1. p.logs \in [1..m -> Line]
      BY <1>5, <1>6
    <2> QED BY <1>4, <1>5, <2>1
  <1>8. \A i \in 1..m : p.logs[i] = nextSeq - 1 - m + i + Offset
    BY <1>3, <1>7
  <1>9. m > 0 => p.cursor = nextSeq - 1
    <2> SUFFICES ASSUME m > 0 PROVE p.cursor = nextSeq - 1
      OBVIOUS
    <2>1. m \in 1..m
      BY <1>4
    <2>2. new[m].seq = nextSeq - 1 - m + m
      BY <1>3, <2>1
    <2> QED BY <1>2, <1>4, <1>5, <2>2
  <1>10. Continues(p)
    <2>1. p.generation \in Nat /\ p.cursor \in Nat /\ (p.logs = <<>> => p.cursor = cursor)
      <3>1. m > 0 => nextSeq - 1 \in Nat
        BY <1>2 DEF PaneInv, PaneShape
      <3> QED BY <1>2, <1>4, <1>5, <1>7, <1>9, <3>1
    <2>2. ASSUME NEW i \in 1..m
          PROVE  /\ p.logs[i] = p.logs[1] + i - 1
                 /\ p.logs[i] <= p.cursor + Offset /\ p.logs[i] <= ingested
      <3>1. 1 \in 1..m /\ m > 0
        BY <1>4
      <3>2. /\ p.logs[i] = nextSeq - 1 - m + i + Offset
            /\ p.logs[1] = nextSeq - 1 - m + 1 + Offset
        BY <1>8, <3>1
      <3> QED BY <1>2, <1>4, <1>9, <3>1, <3>2 DEF Offset
    <2>3. ASSUME NEW i \in 1..Len(pane), NEW j \in 1..m PROVE pane[i] < p.logs[j]
      <3>1. pane[i] \in Nat /\ pane[i] <= cursor + Offset
        <4>1. pane[i] \in Line
          BY ElementOfSeq DEF PaneInv, PaneShape
        <4> QED BY <1>2, <4>1 DEF PaneInv, CursorInv, Line
      <3>2. p.logs[j] = new[j].seq + Offset /\ new[j].seq > cursor
        BY <1>3, <1>7
      <3>3. new[j].seq \in Nat
        BY <1>2, <1>6 DEF Entry, SeqNo
      <3> QED BY <1>2, <3>1, <3>2, <3>3 DEF Offset
    <2> QED BY <1>7, <2>1, <2>2, <2>3 DEF Continues
  <1>11. restarts = 0 => GoesOn(p)
    <2> SUFFICES ASSUME restarts = 0 PROVE GoesOn(p)
      OBVIOUS
    <2>1. nextSeq = ingested + 1 /\ generation = clears
          /\ \A i \in 1..Len(ring) : era[ring[i].line] = clears
      BY DEF PaneInv, FirstRun
    <2>2. ASSUME NEW i \in 1..m PROVE era[p.logs[i]] = p.generation
      <3>1. PICK j \in 1..Len(ring) : new[i] = ring[j]
        BY <1>3
      <3>2. p.logs[i] = ring[j].line
        BY <1>7, <3>1
      <3> QED BY <1>5, <2>1, <3>2
    <2>3. p.logs # <<>> => p.logs[m] = p.cursor
      <3> SUFFICES ASSUME m > 0 PROVE p.logs[m] = p.cursor
        BY <1>4, <1>7
      <3>1. m \in 1..m
        BY <1>4
      <3>2. p.logs[m] = nextSeq - 1 - m + m + Offset
        BY <1>8, <3>1
      <3> QED BY <1>2, <1>4, <1>9, <2>1, <3>2 DEF Offset
    <2>4. p.logs # <<>> /\ ~p.dropped /\ cursor # 0 => p.logs[1] = cursor + 1
      <3> SUFFICES ASSUME m > 0, ~p.dropped, cursor # 0 PROVE p.logs[1] = cursor + 1
        BY <1>4, <1>7
      <3>1. new[1].seq = cursor + 1
        BY <1>3, <1>5
      <3>2. 1 \in 1..m
        BY <1>4
      <3>3. p.logs[1] = new[1].seq + Offset
        BY <1>3, <1>7, <3>2
      <3> QED BY <1>2, <2>1, <3>1, <3>3 DEF Offset
    <2> QED BY <1>7, <2>2, <2>3, <2>4 DEF GoesOn
  <1>12. Offset' = Offset
    BY <1>1 DEF Offset
  <1>13. PageInv'
    BY <1>1, <1>10, <1>12 DEF PageInv, Continues
  <1>14. FirstRun'
    BY <1>1, <1>11 DEF PaneInv, FirstRun, GoesOn
  <1>15. PaneShape' /\ RingInv' /\ CursorInv'
    BY <1>1, <1>12 DEF PaneInv, PaneShape, RingInv, CursorInv
  <1>16. PaneFaithful'
    BY <1>1 DEF PaneInv, PaneFaithful, PaneInOrder, PaneContinuous, NoStaleLineAbove
  <1> QED BY <1>13, <1>14, <1>15, <1>16 DEF PaneInv

\* A poll that fails brings nothing.
LEMMA PollFailsKeeps ==
    ASSUME PaneInv, PollFails
    PROVE  PaneInv'
  <1>1. /\ page' = {NoAnswer}
        /\ ring' = ring /\ generation' = generation /\ nextSeq' = nextSeq /\ clears' = clears
        /\ ingested' = ingested /\ era' = era /\ restarts' = restarts
        /\ cursor' = cursor /\ seenGen' = seenGen /\ pane' = pane
    BY DEF PollFails, server, stream
  <1>2. Offset' = Offset /\ \A p \in page' : ~p.ok
    BY <1>1 DEF Offset, NoAnswer
  <1> QED BY <1>1, <1>2 DEF PaneInv, PaneShape, RingInv, CursorInv, PageInv, FirstRun,
            PaneFaithful, PaneInOrder, PaneContinuous, NoStaleLineAbove

\* A frame shows the page's lines, alone or, when they go on from the cursor,
\* below those shown.
LEMMA NextFrameKeeps ==
    ASSUME PaneInv, NextFrame
    PROVE  PaneInv'
  <1>1. /\ page' = {}
        /\ ring' = ring /\ generation' = generation /\ nextSeq' = nextSeq /\ clears' = clears
        /\ ingested' = ingested /\ era' = era /\ restarts' = restarts
        /\ Offset' = Offset
    BY DEF NextFrame, server, Offset
  <1>2. /\ cursor \in Nat /\ ingested \in Nat /\ nextSeq \in Nat /\ MaxIngested \in Nat
        /\ Offset \in Nat
    BY PaneAssumption DEF PaneInv, PaneShape, Offset
  <1>3. RingInv' /\ PageInv'
    BY <1>1 DEF PaneInv, RingInv, PageInv
  <1>4. /\ pane \in Seq(Line) /\ Len(pane) \in Nat /\ DOMAIN pane = 1..Len(pane)
        /\ \A i \in 1..Len(pane) :
              /\ pane[i] \in Nat /\ pane[i] >= 1
              /\ pane[i] <= cursor + Offset /\ pane[i] <= ingested
        /\ \A i, j \in 1..Len(pane) : i < j => pane[i] < pane[j]
        /\ restarts = 0 =>
              /\ Offset = 0
              /\ \A i \in 1..(Len(pane) - 1) : pane[i + 1] = pane[i] + 1
              /\ pane # <<>> => pane[Len(pane)] = cursor
              /\ \A i \in 1..Len(pane) : era[pane[i]] = seenGen
    <2>1. pane \in Seq(Line) /\ Len(pane) \in Nat /\ DOMAIN pane = 1..Len(pane)
      BY DEF PaneInv, PaneShape
    <2>2. \A i \in 1..Len(pane) : pane[i] \in Line
      BY <2>1, ElementOfSeq
    <2>3. \A i \in 1..Len(pane) :
             /\ pane[i] \in Nat /\ pane[i] >= 1
             /\ pane[i] <= cursor + Offset /\ pane[i] <= ingested
      BY <1>2, <2>2 DEF PaneInv, CursorInv, Line
    <2>4. \A i, j \in 1..Len(pane) : i < j => pane[i] < pane[j]
      BY <2>1 DEF PaneInv, PaneFaithful, PaneInOrder
    <2>5. restarts = 0 =>
              /\ Offset = 0
              /\ \A i \in 1..(Len(pane) - 1) : pane[i + 1] = pane[i] + 1
              /\ pane # <<>> => pane[Len(pane)] = cursor
              /\ \A i \in 1..Len(pane) : era[pane[i]] = seenGen
      BY <1>2 DEF PaneInv, PaneFaithful, PaneContinuous, FirstRun, Offset
    <2> QED BY <2>1, <2>3, <2>4, <2>5
  <1>5. SUFFICES
          /\ cursor' \in Nat /\ seenGen' \in Nat /\ pane' \in Seq(Line)
          /\ \A i \in 1..Len(pane') :
                pane'[i] <= cursor' + Offset /\ pane'[i] <= ingested
          /\ \A i, j \in 1..Len(pane') : i < j => pane'[i] < pane'[j]
          /\ restarts = 0 =>
                /\ \A i \in 1..(Len(pane') - 1) : pane'[i + 1] = pane'[i] + 1
                /\ pane' # <<>> => pane'[Len(pane')] = cursor'
                /\ \A i \in 1..Len(pane') : era[pane'[i]] = seenGen'
    <2>1. PaneShape' /\ CursorInv'
      BY <1>1, <1>5 DEF PaneInv, PaneShape, CursorInv
    <2>2. FirstRun'
      BY <1>1, <1>5 DEF PaneInv, FirstRun
    <2>3. DOMAIN pane' = 1..Len(pane')
      BY <1>5
    <2>4. PaneFaithful'
      BY <1>1, <1>5, <2>3 DEF PaneFaithful, PaneInOrder, PaneContinuous, NoStaleLineAbove
    <2> QED BY <1>3, <2>1, <2>2, <2>4 DEF PaneInv
  <1>6. PICK p \in page : FrameOfOutage(p) \/ Frame(p)
    BY DEF NextFrame
  <1>7. CASE FrameOfOutage(p)
    <2>1. cursor' = cursor /\ seenGen' = seenGen /\ pane' = pane
      BY <1>7 DEF FrameOfOutage
    <2> QED BY <1>2, <1>4, <2>1 DEF PaneInv, PaneShape
  <1>8. CASE Frame(p)
    <2> DEFINE logs == p.logs
    <2>1. /\ logs \in Seq(Line) /\ Len(logs) \in Nat /\ (logs # <<>> => Len(logs) > 0)
          /\ p.generation \in Nat /\ p.cursor \in Nat
          /\ logs = <<>> => p.cursor = cursor
          /\ \A i \in 1..Len(logs) :
                /\ logs[i] \in Nat /\ logs[i] = logs[1] + i - 1
                /\ logs[i] <= p.cursor + Offset /\ logs[i] <= ingested
          /\ \A i \in 1..Len(pane), j \in 1..Len(logs) : pane[i] < logs[j]
      <3>1. Continues(p)
        BY <1>8 DEF Frame, PaneInv, PageInv
      <3>2. \A i \in 1..Len(logs) : logs[i] \in Line
        BY <3>1, ElementOfSeq DEF Continues
      <3>3. \A i \in 1..Len(logs) : logs[i] \in Nat
        BY <1>2, <3>2 DEF Line
      <3> QED BY <3>1, <3>3 DEF Continues
    <2>2. restarts = 0 => GoesOn(p)
      BY <1>8 DEF Frame, PaneInv, FirstRun
    <2>3. seenGen' = p.generation
      BY <1>8 DEF Frame
    <2> DEFINE Replaces == logs # <<>> /\ cursor' = p.cursor /\ pane' = logs
               Appends == /\ logs # <<>> /\ cursor' = p.cursor /\ pane' = pane \o logs
                          /\ cursor # 0 /\ p.generation = seenGen /\ ~p.dropped
               Empties == cursor' = p.cursor /\ pane' = <<>>
               Stays == cursor' = cursor /\ pane' = pane /\ (p.generation = seenGen \/ cursor = 0)
    <2>4. Replaces \/ Appends \/ Empties \/ Stays
      BY <1>8 DEF Frame
    <2> HIDE DEF logs
    <2>5. CASE Replaces
      <3>1. \A i, j \in 1..Len(logs) : i < j => logs[i] < logs[j]
        <4> SUFFICES ASSUME NEW i \in 1..Len(logs), NEW j \in 1..Len(logs), i < j
                     PROVE  logs[i] < logs[j]
          OBVIOUS
        <4>1. 1 \in 1..Len(logs)
          BY <2>1
        <4> QED BY <2>1, <4>1
      <3>2. \A i \in 1..(Len(logs) - 1) : logs[i + 1] = logs[i] + 1
        <4> SUFFICES ASSUME NEW i \in 1..(Len(logs) - 1) PROVE logs[i + 1] = logs[i] + 1
          OBVIOUS
        <4>1. 1 \in 1..Len(logs) /\ i \in 1..Len(logs) /\ i + 1 \in 1..Len(logs)
          BY <2>1
        <4> QED BY <2>1, <4>1
      <3>3. restarts = 0 => /\ logs[Len(logs)] = p.cursor
                            /\ \A i \in 1..Len(logs) : era[logs[i]] = p.generation
        BY <2>2, <2>5 DEF GoesOn, logs
      <3> QED BY <1>2, <2>1, <2>3, <2>5, <3>1, <3>2, <3>3
    <2>6. CASE Appends
      <3> DEFINE n == Len(pane)
      <3>1. /\ pane' \in Seq(Line) /\ Len(pane') = n + Len(logs)
            /\ \A i \in 1..(n + Len(logs)) :
                  pane'[i] = IF i <= n THEN pane[i] ELSE logs[i - n]
        BY <1>4, <2>1, <2>6, ConcatProperties
      <3>2. n \in Nat /\ Len(logs) \in Nat /\ Len(logs) > 0
        BY <1>4, <2>1, <2>6
      <3>3. n > 0 <=> pane # <<>>
        BY <1>4
      <3> HIDE DEF n
      <3>4. ASSUME NEW i \in 1..(n + Len(logs))
            PROVE  \/ i \in 1..n /\ pane'[i] = pane[i]
                   \/ i - n \in 1..Len(logs) /\ pane'[i] = logs[i - n] /\ i > n
        <4>1. CASE i <= n
          BY <3>1, <3>2, <4>1
        <4>2. CASE ~(i <= n)
          BY <3>1, <3>2, <4>2
        <4> QED BY <4>1, <4>2
      <3>5. ASSUME NEW i \in 1..n
            PROVE  pane[i] <= p.cursor + Offset
        <4>1. 1 \in 1..Len(logs)
          BY <3>2
        <4>2. pane[i] < logs[1] /\ logs[1] <= p.cursor + Offset
          BY <2>1, <4>1 DEF n
        <4> QED BY <1>2, <1>4, <2>1, <4>1, <4>2 DEF n
      <3>6. \A i \in 1..(n + Len(logs)) : pane'[i] <= p.cursor + Offset /\ pane'[i] <= ingested
        BY <1>4, <2>1, <3>4, <3>5 DEF n
      <3>7. ASSUME NEW i \in 1..(n + Len(logs)), NEW j \in 1..(n + Len(logs)), i < j
            PROVE  pane'[i] < pane'[j]
        <4>1. CASE i \in 1..n /\ pane'[i] = pane[i]
          <5>1. CASE j \in 1..n /\ pane'[j] = pane[j]
            BY <1>4, <3>7, <4>1, <5>1 DEF n
          <5>2. CASE j - n \in 1..Len(logs) /\ pane'[j] = logs[j - n]
            BY <2>1, <4>1, <5>2 DEF n
          <5> QED BY <3>4, <5>1, <5>2
        <4>2. CASE i - n \in 1..Len(logs) /\ pane'[i] = logs[i - n] /\ i > n
          <5>1. j - n \in 1..Len(logs) /\ pane'[j] = logs[j - n] /\ j - n > i - n
            BY <3>2, <3>4, <3>7, <4>2
          <5>2. 1 \in 1..Len(logs)
            BY <3>2
          <5>3. /\ logs[i - n] = logs[1] + (i - n) - 1 /\ logs[j - n] = logs[1] + (j - n) - 1
                /\ logs[1] \in Nat
            BY <2>1, <4>2, <5>1, <5>2
          <5> QED BY <3>2, <4>2, <5>1, <5>3
        <4> QED BY <3>4, <4>1, <4>2
      <3>8. ASSUME restarts = 0
            PROVE  /\ \A i \in 1..(n + Len(logs) - 1) : pane'[i + 1] = pane'[i] + 1
                   /\ pane'[n + Len(logs)] = p.cursor
                   /\ \A i \in 1..(n + Len(logs)) : era[pane'[i]] = p.generation
        <4>1. /\ \A i \in 1..Len(logs) : era[logs[i]] = p.generation
              /\ logs[Len(logs)] = p.cursor /\ logs[1] = cursor + 1
          BY <2>2, <2>6, <3>8 DEF GoesOn, logs
        <4>2. ASSUME NEW i \in 1..(n + Len(logs) - 1)
              PROVE  pane'[i + 1] = pane'[i] + 1
          <5>1. i \in 1..(n + Len(logs)) /\ i + 1 \in 1..(n + Len(logs)) /\ 1 \in 1..Len(logs)
            BY <3>2
          <5>2. CASE i < n
            <6>1. i \in 1..(n - 1) /\ pane'[i] = pane[i] /\ pane'[i + 1] = pane[i + 1]
              BY <3>1, <3>2, <5>1, <5>2
            <6> QED BY <1>4, <3>8, <6>1 DEF n
          <5>3. CASE i = n
            <6>1. pane'[i] = pane[n] /\ pane'[i + 1] = logs[1] /\ pane # <<>>
              BY <3>1, <3>2, <3>3, <5>1, <5>3
            <6> QED BY <1>4, <3>8, <4>1, <6>1 DEF n
          <5>4. CASE i > n
            <6>1. /\ i - n \in 1..Len(logs) /\ i + 1 - n \in 1..Len(logs)
                  /\ pane'[i] = logs[i - n] /\ pane'[i + 1] = logs[i + 1 - n]
              BY <3>1, <3>2, <5>1, <5>4
            <6>2. /\ logs[i - n] = logs[1] + (i - n) - 1
                  /\ logs[i + 1 - n] = logs[1] + (i + 1 - n) - 1 /\ logs[1] \in Nat
              BY <2>1, <5>1, <6>1
            <6> QED BY <3>2, <6>1, <6>2
          <5> QED BY <3>2, <5>2, <5>3, <5>4
        <4>3. pane'[n + Len(logs)] = p.cursor
          <5> DEFINE z == n + Len(logs)
          <5>1. z \in 1..(n + Len(logs)) /\ ~(z <= n) /\ z - n = Len(logs)
            BY <3>2
          <5> HIDE DEF z
          <5>2. pane'[z] = logs[z - n]
            BY <3>1, <5>1
          <5> QED BY <4>1, <5>1, <5>2 DEF z
        <4>4. ASSUME NEW i \in 1..(n + Len(logs)) PROVE era[pane'[i]] = p.generation
          BY <1>4, <2>6, <3>4, <3>8, <4>1 DEF n
        <4> QED BY <4>2, <4>3, <4>4
      <3>9. Len(pane') = n + Len(logs) /\ cursor' = p.cursor
        BY <2>6, <3>1
      <3>10. restarts = 0 =>
                /\ \A i \in 1..(Len(pane') - 1) : pane'[i + 1] = pane'[i] + 1
                /\ pane'[Len(pane')] = cursor'
                /\ \A i \in 1..Len(pane') : era[pane'[i]] = seenGen'
        <4> SUFFICES ASSUME restarts = 0
                     PROVE  /\ \A i \in 1..(Len(pane') - 1) : pane'[i + 1] = pane'[i] + 1
                            /\ pane'[Len(pane')] = cursor'
                            /\ \A i \in 1..Len(pane') : era[pane'[i]] = seenGen'
          OBVIOUS
        <4>1. \A i \in 1..(Len(pane') - 1) : pane'[i + 1] = pane'[i] + 1
          <5>1. \A i \in 1..(n + Len(logs) - 1) : pane'[i + 1] = pane'[i] + 1
            BY <3>8
          <5>2. ASSUME NEW i \in 1..(Len(pane') - 1) PROVE pane'[i + 1] = pane'[i] + 1
            <6>1. i \in 1..(n + Len(logs) - 1)
              BY <3>2, <3>9
            <6> QED BY <5>1, <6>1
          <5> QED BY <5>2
        <4>2. pane'[Len(pane')] = cursor'
          BY <3>8, <3>9, Zenon
        <4>3. \A i \in 1..Len(pane') : era[pane'[i]] = seenGen'
          BY <2>3, <3>8, <3>9, Zenon
        <4> QED BY <4>1, <4>2, <4>3
      <3>11. \A i \in 1..Len(pane') : pane'[i] <= cursor' + Offset /\ pane'[i] <= ingested
        BY <3>6, <3>9
      <3>12. \A i, j \in 1..Len(pane') : i < j => pane'[i] < pane'[j]
        BY <3>7, <3>9
      <3> QED BY <2>1, <2>3, <3>1, <3>9, <3>10, <3>11, <3>12
    <2>7. CASE Empties
      BY <2>1, <2>3, <2>7
    <2>8. CASE Stays
      <3>1. restarts = 0 => \A i \in 1..Len(pane) : era[pane[i]] = p.generation
        <4>1. CASE p.generation = seenGen
          BY <1>4, <4>1
        <4>2. CASE cursor = 0
          <5>1. restarts = 0 => Len(pane) = 0
            BY <1>4, <4>2
          <5> QED BY <5>1
        <4> QED BY <2>8, <4>1, <4>2
      <3> QED BY <1>2, <1>4, <2>1, <2>3, <2>8, <3>1
    <2> QED BY <2>4, <2>5, <2>6, <2>7, <2>8
  <1> QED BY <1>6, <1>7, <1>8

\* What is of the pane alone stays when none of it changes.
LEMMA PaneStays ==
    ASSUME PaneInv, UNCHANGED paneVars
    PROVE  PaneInv'
  <1>1. /\ page' = page
        /\ ring' = ring /\ generation' = generation /\ nextSeq' = nextSeq /\ clears' = clears
        /\ ingested' = ingested /\ era' = era /\ restarts' = restarts
        /\ cursor' = cursor /\ seenGen' = seenGen /\ pane' = pane
    BY DEF paneVars, server, stream
  <1> QED BY <1>1 DEF PaneInv, PaneShape, RingInv, CursorInv, PageInv, FirstRun, PaneFaithful,
            PaneInOrder, PaneContinuous, NoStaleLineAbove, Continues, GoesOn, Offset

-----------------------------------------------------------------------------
(* The whole way. *)

PathInv == ShipInv /\ PaneInv

\* Every step of a service, of the state service and of the stream.
LEMMA PathStep == PathInv /\ [PathNext]_<<shipVars, paneVars>> => PathInv'
  <1> SUFFICES ASSUME PathInv, [PathNext]_<<shipVars, paneVars>> PROVE PathInv'
    OBVIOUS
  <1>1. ShipInv /\ PaneInv /\ batch \in Nat /\ missed \in Nat
    BY DEF PathInv, ShipInv, ShipShape
  <1>2. ASSUME BatchArrives PROVE PaneInv'
    <2>1. batch + (IF missed > 0 THEN 1 ELSE 0) \in Nat
      BY <1>1
    <2> QED BY <1>1, <1>2, <2>1, IngestKeeps DEF BatchArrives
  <1>3. CASE ShipStep /\ UNCHANGED paneVars
    <2>1. PaneInv'
      BY <1>1, <1>3, PaneStays
    <2>2. ShipInv'
      <3>1. CASE \E t \in Threads : Log(t) \/ CountDrop(t)
        BY <1>1, <3>1, LogStep, CountDropStep
      <3>2. CASE Receive \/ CloseBatch
        BY <1>1, <3>2, DrainKeeps
      <3> QED BY <1>3, <3>1, <3>2 DEF ShipStep
    <2> QED BY <2>1, <2>2 DEF PathInv
  <1>4. CASE PostLands /\ BatchArrives
    BY <1>1, <1>2, <1>4, DrainKeeps DEF PathInv
  <1>5. CASE PostFails /\ (BatchArrives \/ UNCHANGED paneVars)
    BY <1>1, <1>2, <1>5, DrainKeeps, PaneStays DEF PathInv
  <1>6. CASE PaneStep /\ UNCHANGED shipVars
    <2>1. ShipInv'
      BY <1>1, <1>6, DrainKeeps
    <2>2. PaneInv'
      BY <1>1, <1>6, ClearKeeps, RestartKeeps, PollKeeps, PollFailsKeeps, NextFrameKeeps
         DEF PaneStep
    <2> QED BY <2>1, <2>2 DEF PathInv
  <1>7. CASE UNCHANGED <<shipVars, paneVars>>
    <2>1. UNCHANGED shipVars /\ UNCHANGED paneVars
      BY <1>7
    <2> QED BY <1>1, <2>1, DrainKeeps, PaneStays DEF PathInv
  <1> QED BY <1>3, <1>4, <1>5, <1>6, <1>7 DEF PathNext

\* Every state of the path is one of the invariant's.
LEMMA PathInvariant == PathSpec => []PathInv
  <1>1. PathInit => PathInv
    BY ShipInitially, PaneInitially DEF PathInit, PathInv
  <1> QED BY <1>1, PathStep, PTL DEF PathSpec

\* The pane shows a log, for any number of services' lines, clears, outages and
\* restarts: in order always, and without a gap or a stale line until the state
\* service restarts (next_frame of services/events-actix/src/console_logs.rs).
THEOREM PaneIsALog == PathSpec => []PaneFaithful
  <1>1. PathInv => PaneFaithful
    BY DEF PathInv, PaneInv
  <1> QED BY <1>1, PathInvariant, PTL

\* Until a post fails, every line logged is delivered, on its way, or counted once
\* as dropped, whichever thread counts while the drain takes the count.
THEOREM DropsAreCountedOnce == PathSpec => []GapsAreCounted
  <1>1. PathInv => GapsAreCounted
    BY DEF PathInv, ShipInv
  <1> QED BY <1>1, PathInvariant, PTL

-----------------------------------------------------------------------------
(* Sums over a set: by induction, a fold adds up what it should. *)

\* The order the induction is over.
LEMMA LessIsWellFounded == IsWellFoundedOn({ss \in Nat \X Nat : ss[1] < ss[2]}, Nat)
  <1>1. OpToRel(<, Nat) = {ss \in Nat \X Nat : ss[1] < ss[2]}  BY DEF OpToRel
  <1> QED BY <1>1, NatLessThanWellFounded

\* Induction over the naturals, for a set.
LEMMA ByInduction ==
    ASSUME NEW S, 0 \in S, \A n \in Nat : n \in S => n + 1 \in S
    PROVE  \A n \in Nat : n \in S
  <1> SUFFICES ASSUME Nat \ S # {} PROVE FALSE
    OBVIOUS
  <1> DEFINE less == {ss \in Nat \X Nat : ss[1] < ss[2]}
             rest == Nat \ S
  <1>1. PICK x \in rest : \A y \in rest : <<y, x>> \notin less
    <2>1. IsWellFoundedOn(less, Nat)  BY LessIsWellFounded
    <2>2. rest \subseteq Nat /\ rest # {}  OBVIOUS
    <2> HIDE DEF less, rest
    <2> QED BY <2>1, <2>2, WFMin
  <1>2. x - 1 \in rest /\ <<x - 1, x>> \in less
    <2>1. x # 0 /\ x \in Nat  OBVIOUS
    <2>2. x - 1 \in Nat /\ x - 1 < x  BY <2>1
    <2> QED BY <2>1, <2>2
  <1> QED BY <1>1, <1>2

\* The sum of f over S as LossesShown takes it, what the fold computes, and what a
\* sum should be.
Total(f, S) == MapThenSumSet(LAMBDA n : f[n], S)
Sums(f, S, h) ==
    h = [s \in SUBSET S |-> IF s = {} THEN 0
                            ELSE f[CHOOSE x \in s : TRUE] + h[s \ {CHOOSE x \in s : TRUE}]]
Additive(f, S, g) ==
    /\ g = [s \in SUBSET S |-> g[s]]
    /\ g[{}] = 0
    /\ \A x \in S : f[x] \in Nat
    /\ \A s \in SUBSET S : g[s] \in Nat
    /\ \A s \in SUBSET S : \A x \in s : g[s] = f[x] + g[s \ {x}]

\* MapThenSumSet adds the elements up in the order it chooses them.
LEMMA TotalIsChosen == ASSUME NEW f, NEW S PROVE Total(f, S) = (CHOOSE h : Sums(f, S, h))[S]
  BY DEF Total, Sums, MapThenSumSet, MapThenFoldSet

\* An additive function does so, too.
LEMMA AdditiveSums == ASSUME NEW f, NEW S, NEW g, Additive(f, S, g) PROVE Sums(f, S, g)
  <1>1. ASSUME NEW s \in SUBSET S
        PROVE g[s] = IF s = {} THEN 0
                            ELSE f[CHOOSE x \in s : TRUE] + g[s \ {CHOOSE x \in s : TRUE}]
    <2>1. CASE s = {}  BY <2>1 DEF Additive
    <2>2. CASE s # {}
      <3>1. (CHOOSE x \in s : TRUE) \in s  BY <2>2
      <3> QED BY <2>2, <3>1 DEF Additive
    <2> QED BY <2>1, <2>2
  <1>2. g = [s \in SUBSET S |-> g[s]]  BY DEF Additive
  <1> QED BY <1>1, <1>2 DEF Sums

\* There is one function that does, over a finite set.
LEMMA SumsUnique ==
    ASSUME NEW f, NEW S, IsFiniteSet(S), NEW g, NEW h, Sums(f, S, g), Sums(f, S, h)
    PROVE  g = h
  <1> DEFINE T == {k \in Nat : \A s \in SUBSET S : Cardinality(s) = k => g[s] = h[s]}
  <1>1. 0 \in T
    <2> SUFFICES ASSUME NEW s \in SUBSET S, Cardinality(s) = 0 PROVE g[s] = h[s]
      OBVIOUS
    <2>1. s = {}  BY FS_Subset, FS_EmptySet
    <2> QED BY <2>1 DEF Sums
  <1>2. ASSUME NEW k \in Nat, k \in T PROVE k + 1 \in T
    <2> SUFFICES ASSUME NEW s \in SUBSET S, Cardinality(s) = k + 1 PROVE g[s] = h[s]
      OBVIOUS
    <2>1. IsFiniteSet(s)  BY FS_Subset
    <2>2. s # {}  BY FS_EmptySet
    <2>3. PICK x : x = CHOOSE y \in s : TRUE  OBVIOUS
    <2>4. x \in s  BY <2>2, <2>3
    <2>5. Cardinality(s \ {x}) = k /\ s \ {x} \in SUBSET S
      <3>1. Cardinality(s \ {x}) = Cardinality(s) - 1  BY <2>1, <2>4, FS_RemoveElement, Zenon
      <3>2. Cardinality(s \ {x}) = k  BY <3>1
      <3> QED BY <3>2
    <2>6. g[s \ {x}] = h[s \ {x}]  BY <1>2, <2>5
    <2>7. g[s] = f[x] + g[s \ {x}] /\ h[s] = f[x] + h[s \ {x}]
      BY <2>2, <2>3 DEF Sums
    <2> QED BY <2>6, <2>7
  <1> HIDE DEF T
  <1>3. \A k \in Nat : k \in T  BY <1>1, <1>2, ByInduction
  <1>4. ASSUME NEW s \in SUBSET S PROVE g[s] = h[s]
    <2>1. Cardinality(s) \in Nat  BY FS_Subset, FS_CardinalityType
    <2> QED BY <1>3, <2>1 DEF T
  <1>5. g = [s \in SUBSET S |-> g[s]] /\ h = [s \in SUBSET S |-> h[s]]
    BY DEF Sums
  <1> QED BY <1>4, <1>5

\* So whichever the order, the sum is the additive function's value.
LEMMA TotalIs ==
    ASSUME NEW f, NEW S, IsFiniteSet(S), NEW g, Additive(f, S, g)
    PROVE  Total(f, S) = g[S]
  <1> DEFINE h == CHOOSE h : Sums(f, S, h)
  <1>1. Sums(f, S, g)  BY AdditiveSums
  <1>2. Sums(f, S, h)  BY <1>1
  <1>3. g = h
    <2> HIDE DEF h
    <2> QED BY <1>1, <1>2, SumsUnique
  <1> QED BY <1>3, TotalIsChosen

\* What an additive function g of S becomes with e.
Extended(f, S, g, e, h) ==
    /\ Additive(f, S \cup {e}, h)
    /\ h[S \cup {e}] = f[e] + g[S]

\* An additive function of a set is one of the set with an element more.
LEMMA AdditiveGrows ==
    ASSUME NEW f, NEW S, NEW g, Additive(f, S, g), NEW e, e \notin S, f[e] \in Nat
    PROVE  \E h : Extended(f, S, g, e, h)
  <1> DEFINE h == [s \in SUBSET (S \cup {e}) |-> IF e \in s THEN f[e] + g[s \ {e}] ELSE g[s]]
  <1>0. \A s \in SUBSET (S \cup {e}) : h[s] = IF e \in s THEN f[e] + g[s \ {e}] ELSE g[s]
    OBVIOUS
  <1>1. h = [s \in SUBSET (S \cup {e}) |-> h[s]]
    OBVIOUS
  <1> HIDE DEF h
  <1>2. h[{}] = 0
    BY <1>0 DEF Additive
  <1>3. ASSUME NEW s \in SUBSET (S \cup {e}) PROVE h[s] \in Nat
    <2>1. s \ {e} \in SUBSET S  OBVIOUS
    <2>2. e \notin s => s \in SUBSET S  OBVIOUS
    <2>3. CASE e \in s
      <3>1. g[s \ {e}] \in Nat  BY <2>1 DEF Additive
      <3>2. h[s] = f[e] + g[s \ {e}]  BY <1>0, <2>3
      <3> QED BY <3>1, <3>2
    <2>4. CASE e \notin s
      BY <1>0, <2>2, <2>4 DEF Additive
    <2> QED BY <2>3, <2>4
  <1>4. ASSUME NEW s \in SUBSET (S \cup {e}), NEW x \in s
        PROVE  h[s] = f[x] + h[s \ {x}]
    <2>1. s \ {x} \in SUBSET (S \cup {e})  OBVIOUS
    <2>2. CASE e \notin s
      <3>1. s \in SUBSET S /\ e \notin s \ {x}  BY <2>2
      <3>2. g[s] = f[x] + g[s \ {x}]  BY <3>1 DEF Additive
      <3> QED BY <1>0, <2>1, <2>2, <3>1, <3>2
    <2>3. CASE x = e
      <3>1. h[s] = f[e] + g[s \ {e}]  BY <1>0, <2>3
      <3>2. e \notin s \ {e}  OBVIOUS
      <3>3. h[s \ {x}] = g[s \ {e}]  BY <1>0, <2>1, <2>3, <3>2
      <3> QED BY <2>3, <3>1, <3>3
    <2>4. CASE e \in s /\ x # e
      <3>1. s \ {e} \in SUBSET S /\ x \in s \ {e}  BY <2>4
      <3>2. g[s \ {e}] = f[x] + g[(s \ {e}) \ {x}]  BY <3>1 DEF Additive
      <3>3. (s \ {e}) \ {x} = (s \ {x}) \ {e}  OBVIOUS
      <3>4. h[s] = f[e] + g[s \ {e}]  BY <1>0, <2>4
      <3>5. h[s \ {x}] = f[e] + g[(s \ {x}) \ {e}]  BY <1>0, <2>1, <2>4
      <3>6. PICK a : a = g[(s \ {x}) \ {e}]  OBVIOUS
      <3>7. a \in Nat
        <4>1. (s \ {x}) \ {e} \in SUBSET S  OBVIOUS
        <4> QED BY <3>6, <4>1 DEF Additive
      <3>8. g[s \ {e}] \in Nat /\ g[s \ {e}] = f[x] + a
        BY <3>1, <3>2, <3>3, <3>6 DEF Additive
      <3>9. h[s] = f[e] + (f[x] + a) /\ h[s \ {x}] = f[e] + a
        BY <3>4, <3>5, <3>6, <3>8
      <3>10. f[x] + (f[e] + a) = f[e] + (f[x] + a)
        <4>1. f[x] \in Nat  BY <3>1 DEF Additive
        <4>2. PICK b, c : b = f[x] /\ c = f[e]  OBVIOUS
        <4>3. b \in Nat /\ c \in Nat  BY <4>1, <4>2
        <4> QED BY <3>7, <4>2, <4>3
      <3> QED BY <3>9, <3>10
    <2> QED BY <2>2, <2>3, <2>4
  <1>5. h[S \cup {e}] = f[e] + g[S]
    <2>1. (S \cup {e}) \ {e} = S  OBVIOUS
    <2> QED BY <1>0, <2>1
  <1> QED BY <1>1, <1>2, <1>3, <1>4, <1>5 DEF Additive, Extended

\* There is one for any number of lines.
LEMMA AdditiveUpTo ==
    ASSUME NEW f, NEW n \in Nat, \A i \in 1..n : f[i] \in Nat
    PROVE  \E g : Additive(f, 1..n, g)
  <1> DEFINE T == {k \in Nat : k <= n => \E g : Additive(f, 1..k, g)}
  <1>1. 0 \in T
    <2> DEFINE g == [s \in SUBSET {} |-> 0]
    <2>1. Additive(f, {}, g)  BY DEF Additive
    <2>2. 1..0 = {}  OBVIOUS
    <2> QED BY <2>1, <2>2
  <1>2. ASSUME NEW k \in Nat, k \in T PROVE k + 1 \in T
    <2> SUFFICES ASSUME k + 1 <= n PROVE \E g : Additive(f, 1..(k + 1), g)
      OBVIOUS
    <2>1. PICK g : Additive(f, 1..k, g)  BY <1>2
    <2>2. PICK e : e = k + 1  OBVIOUS
    <2>3. e \notin 1..k /\ f[e] \in Nat  BY <2>2
    <2>4. 1..(k + 1) = (1..k) \cup {e}  BY <2>2
    <2>5. PICK S : S = 1..k  OBVIOUS
    <2>6. \E h : Additive(f, S \cup {e}, h)
      BY <2>1, <2>3, <2>5, AdditiveGrows DEF Extended
    <2> QED BY <2>4, <2>5, <2>6
  <1> HIDE DEF T
  <1>3. n \in T  BY <1>1, <1>2, ByInduction
  <1> QED BY <1>3 DEF T

\* A line more adds what it reports.
LEMMA TotalGrows ==
    ASSUME NEW f, NEW n \in Nat, \A i \in 1..(n + 1) : f[i] \in Nat
    PROVE  Total(f, 1..(n + 1)) = Total(f, 1..n) + f[n + 1] /\ Total(f, 1..n) \in Nat
  <1>1. PICK g : Additive(f, 1..n, g)
    <2>1. \A i \in 1..n : f[i] \in Nat  OBVIOUS
    <2> QED BY <2>1, AdditiveUpTo
  <1>2. n + 1 \notin 1..n /\ n + 1 \in 1..(n + 1) /\ 1..(n + 1) = (1..n) \cup {n + 1}
    OBVIOUS
  <1>3. PICK h : Additive(f, 1..(n + 1), h) /\ h[1..(n + 1)] = f[n + 1] + g[1..n]
    <2>1. PICK e : e = n + 1  OBVIOUS
    <2>2. PICK S : S = 1..n  OBVIOUS
    <2>3. e \notin S /\ f[e] \in Nat  BY <1>2, <2>1, <2>2
    <2>4. Additive(f, S, g)  BY <1>1, <2>2
    <2>5. PICK h : Extended(f, S, g, e, h)  BY <2>3, <2>4, AdditiveGrows
    <2>6. S \cup {e} = 1..(n + 1) /\ f[e] = f[n + 1]  BY <1>2, <2>1, <2>2
    <2> QED BY <2>2, <2>5, <2>6 DEF Extended
  <1>4. IsFiniteSet(1..n) /\ IsFiniteSet(1..(n + 1))  BY FS_Interval
  <1>5. Total(f, 1..n) = g[1..n] /\ Total(f, 1..(n + 1)) = h[1..(n + 1)]
    BY <1>1, <1>3, <1>4, TotalIs
  <1>6. g[1..n] \in Nat  BY <1>1 DEF Additive
  <1> QED BY <1>3, <1>5, <1>6

\* What the lines report is all the sum depends on.
LEMMA TotalOfSame ==
    ASSUME NEW f, NEW n \in Nat, \A i \in 1..n : f[i] \in Nat,
           NEW e, \A i \in 1..n : e[i] = f[i]
    PROVE  Total(e, 1..n) = Total(f, 1..n)
  <1>1. PICK g : Additive(f, 1..n, g)  BY AdditiveUpTo
  <1>2. Additive(e, 1..n, g)
    <2>1. ASSUME NEW s \in SUBSET (1..n), NEW x \in s PROVE g[s] = e[x] + g[s \ {x}]
      BY <1>1 DEF Additive
    <2> QED BY <1>1, <2>1 DEF Additive
  <1>3. IsFiniteSet(1..n)  BY FS_Interval
  <1> QED BY <1>1, <1>2, <1>3, TotalIs

\* Lines that report nothing add nothing.
LEMMA TotalOfMore ==
    ASSUME NEW f, NEW n \in Nat, NEW m \in Nat, \A i \in 1..(n + m) : f[i] \in Nat,
           \A i \in (n + 1)..(n + m) : f[i] = 0
    PROVE  Total(f, 1..(n + m)) = Total(f, 1..n)
  <1> DEFINE T == {k \in Nat : k <= m => Total(f, 1..(n + k)) = Total(f, 1..n)}
  <1>1. 0 \in T
    <2>1. n + 0 = n  OBVIOUS
    <2> QED BY <2>1
  <1>2. ASSUME NEW k \in Nat, k \in T PROVE k + 1 \in T
    <2> SUFFICES ASSUME k + 1 <= m PROVE Total(f, 1..(n + (k + 1))) = Total(f, 1..n)
      OBVIOUS
    <2>1. n + k \in Nat /\ (n + k) + 1 = n + (k + 1) /\ (n + k) + 1 \in (n + 1)..(n + m)
      OBVIOUS
    <2>2. \A i \in 1..((n + k) + 1) : f[i] \in Nat  BY <2>1
    <2>3. Total(f, 1..((n + k) + 1)) = Total(f, 1..(n + k)) + f[(n + k) + 1]
          /\ Total(f, 1..(n + k)) \in Nat
      BY <2>1, <2>2, TotalGrows
    <2>4. f[(n + k) + 1] = 0  BY <2>1
    <2>5. Total(f, 1..(n + k)) = Total(f, 1..n)  BY <1>2
    <2> QED BY <2>1, <2>3, <2>4, <2>5
  <1> HIDE DEF T
  <1>3. m \in T  BY <1>1, <1>2, ByInduction
  <1> QED BY <1>3 DEF T

-----------------------------------------------------------------------------
(* The account of the losses. *)

\* The lines of the ring that report no loss; none but them and the losses reported
\* by the others have been delivered or told, and a batch under way has a line.
Silent == {n \in 1..ingested : loss[n] = 0}
AccountInv ==
    /\ drain # "idle" => batch > 0
    /\ loss \in [Line -> Nat]
    /\ \A n \in Line : n > ingested => loss[n] = 0
    /\ failures = 0 => Cardinality(Silent) = delivered /\ Total(loss, 1..ingested) = reported

\* At the start nothing is shown and nothing is lost.
LEMMA AccountInitially == PathInit => AccountInv
  <1> SUFFICES ASSUME PathInit PROVE AccountInv  OBVIOUS
  <1>1. 1..ingested = {} /\ Silent = {}  BY DEF PathInit, PaneInit, Silent
  <1>2. Total(loss, {}) = 0
    <2> DEFINE g == [s \in SUBSET {} |-> 0]
    <2>1. Additive(loss, {}, g)  BY DEF Additive
    <2>2. g[{}] = 0  OBVIOUS
    <2> HIDE DEF g
    <2> QED BY <2>1, <2>2, FS_EmptySet, TotalIs
  <1> QED BY <1>1, <1>2, FS_EmptySet DEF PathInit, PaneInit, ShipInit, AccountInv

\* A batch adds its lines, and what its last line reports.
LEMMA IngestAccounts ==
    ASSUME AccountInv, ingested \in Nat, NEW count \in Nat \ {0}, NEW m \in Nat, Ingest(count, m)
    PROVE  /\ loss' \in [Line -> Nat]
           /\ \A n \in Line : n > ingested' => loss'[n] = 0
           /\ Total(loss', 1..ingested') = Total(loss, 1..ingested) + m
           /\ Cardinality(Silent') = Cardinality(Silent) + (IF m = 0 THEN count ELSE count - 1)
           /\ Cardinality(Silent) \in Nat /\ Total(loss, 1..ingested) \in Nat
  <1> DEFINE last == ingested + count
  <1>0. MaxIngested \in Nat  BY PaneAssumption
  <1>1. last \in Line /\ last > ingested /\ ingested' = last /\ last \in Nat
        /\ count <= MaxIngested - ingested
    BY <1>0 DEF Ingest, Line
  <1>2. loss' = [n \in Line |-> IF n = last THEN m ELSE loss[n]]
    BY DEF Ingest
  <1>3. 1..last \subseteq Line
    BY <1>0, <1>1 DEF Line
  <1>4. \A n \in Line : loss[n] \in Nat /\ (n > ingested => loss[n] = 0)
    BY DEF AccountInv
  <1>5. \A n \in Line : loss'[n] = IF n = last THEN m ELSE loss[n]
    BY <1>2
  <1>6. loss' \in [Line -> Nat]
    BY <1>2, <1>4
  <1> HIDE DEF last
  <1>7. \A n \in Line : n > last => loss'[n] = 0
    BY <1>1, <1>4, <1>5 DEF Line
  <1>8. Total(loss', 1..last) = Total(loss, 1..ingested) + m /\ Total(loss, 1..ingested) \in Nat
    <2> DEFINE k == count - 1
               was == loss'
    <2>1. k \in Nat /\ ingested + k + 1 = last /\ ingested + k \in Nat
      BY <1>1 DEF last
    <2> HIDE DEF was, k
    <2>2. \A i \in 1..((ingested + k) + 1) : was[i] \in Nat
      BY <1>3, <1>6, <2>1 DEF was
    <2>3. Total(was, 1..((ingested + k) + 1)) = Total(was, 1..(ingested + k)) + was[(ingested + k) + 1]
          /\ Total(was, 1..(ingested + k)) \in Nat
      BY <2>1, <2>2, TotalGrows
    <2>4. was[last] = m
      BY <1>1, <1>5 DEF was
    <2>5. Total(was, 1..(ingested + k)) = Total(was, 1..ingested)
      <3>1. \A i \in 1..(ingested + k) : was[i] \in Nat  BY <2>1, <2>2
      <3>2. ASSUME NEW i \in (ingested + 1)..(ingested + k) PROVE was[i] = 0
        <4>1. i \in 1..last /\ i # last /\ i > ingested  BY <2>1
        <4> QED BY <4>1, <1>3, <1>4, <1>5 DEF was
      <3> QED BY <2>1, <3>1, <3>2, TotalOfMore
    <2>6. Total(was, 1..ingested) = Total(loss, 1..ingested)
      <3>1. \A i \in 1..ingested : i \in Line /\ i # last
        BY <1>1, <1>3
      <3>2. \A i \in 1..ingested : loss[i] \in Nat /\ was[i] = loss[i]
        BY <3>1, <1>4, <1>5 DEF was
      <3> QED BY <3>2, TotalOfSame
    <2> QED BY <2>1, <2>3, <2>4, <2>5, <2>6 DEF was
  <1>9. IsFiniteSet(Silent) /\ Cardinality(Silent) \in Nat
    <2>1. IsFiniteSet(1..ingested)  BY FS_Interval
    <2>2. Silent \in SUBSET (1..ingested)  BY DEF Silent
    <2>3. IsFiniteSet(Silent)  BY <2>1, <2>2, FS_Subset
    <2> QED BY <2>3, FS_CardinalityType
  <1>10. Cardinality(Silent') = Cardinality(Silent) + (IF m = 0 THEN count ELSE count - 1)
    <2> DEFINE come == IF m = 0 THEN (ingested + 1)..last ELSE (ingested + 1)..(last - 1)
    <2>1. Silent' = Silent \cup come
      <3>1. ASSUME NEW n \in 1..last PROVE loss'[n] = 0 <=> n \in Silent \cup come
        <4>1. CASE n \in 1..ingested
          <5>1. n # last /\ n \in Line /\ n \notin come  BY <1>1, <1>3, <4>1
          <5> QED BY <4>1, <5>1, <1>5 DEF Silent
        <4>2. CASE n \in (ingested + 1)..(last - 1)
          <5>1. n # last /\ n \in Line /\ n > ingested /\ n \in come  BY <1>1, <1>3, <4>2
          <5> QED BY <5>1, <1>4, <1>5
        <4>3. CASE n = last
          <5>1. n \in Line /\ (n \in come <=> m = 0) /\ n \notin Silent  BY <1>1, <4>3 DEF Silent
          <5>2. loss'[n] = m  BY <4>3, <5>1, <1>5
          <5> QED BY <5>1, <5>2
        <4> QED BY <1>1, <4>1, <4>2, <4>3
      <3>2. Silent \cup come \subseteq 1..last
        BY <1>1 DEF Silent
      <3> QED BY <1>1, <3>1, <3>2 DEF Silent
    <2>2. Silent \cap come = {}
      BY <1>1 DEF Silent
    <2>3. IsFiniteSet(come) /\ Cardinality(come) = (IF m = 0 THEN count ELSE count - 1)
      <3>1. CASE m = 0
        <4>1. IsFiniteSet((ingested + 1)..last)
              /\ Cardinality((ingested + 1)..last) = IF ingested + 1 > last THEN 0 ELSE last - (ingested + 1) + 1
          BY <1>1, FS_Interval
        <4> QED BY <3>1, <4>1, <1>1 DEF last
      <3>2. CASE m # 0
        <4>0. PICK a, b : a = ingested + 1 /\ b = last - 1  OBVIOUS
        <4>1. a \in Int /\ b \in Int  BY <4>0, <1>1
        <4>2. IsFiniteSet(a..b) /\ Cardinality(a..b) = IF a > b THEN 0 ELSE b - a + 1
          BY <4>1, FS_Interval
        <4> QED BY <3>2, <4>0, <4>2, <1>1 DEF last
      <3> QED BY <3>1, <3>2
    <2> HIDE DEF come
    <2>4. Cardinality(Silent \cup come) =
             Cardinality(Silent) + Cardinality(come) - Cardinality(Silent \cap come)
      BY <1>9, <2>3, FS_Union
    <2> QED BY <1>9, <2>1, <2>2, <2>3, <2>4, FS_EmptySet
  <1> QED BY <1>1, <1>6, <1>7, <1>8, <1>9, <1>10

\* A batch that arrives has a line at least; the report is a line more.
LEMMA BatchAccounts ==
    ASSUME PathInv, AccountInv, BatchArrives, drain = "posting"
    PROVE  /\ loss' \in [Line -> Nat]
           /\ \A n \in Line : n > ingested' => loss'[n] = 0
           /\ Total(loss', 1..ingested') = Total(loss, 1..ingested) + missed
           /\ Cardinality(Silent') = Cardinality(Silent) + batch
           /\ Cardinality(Silent) \in Nat /\ Total(loss, 1..ingested) \in Nat
  <1> DEFINE count == batch + (IF missed > 0 THEN 1 ELSE 0)
  <1>1. batch \in Nat \ {0} /\ missed \in Nat /\ ingested \in Nat
    BY PaneAssumption DEF AccountInv, PathInv, ShipInv, ShipShape, PaneInv, PaneShape
  <1>2. count \in Nat \ {0} /\ (IF missed = 0 THEN count ELSE count - 1) = batch
    BY <1>1
  <1>3. Ingest(count, missed)  BY DEF BatchArrives
  <1> HIDE DEF count
  <1> QED BY <1>1, <1>2, <1>3, IngestAccounts

\* Every step keeps the account.
LEMMA AccountStep ==
    ASSUME PathInv, AccountInv, [PathNext]_<<shipVars, paneVars>>
    PROVE  AccountInv'
  <1>0. batch \in Nat /\ failures \in Nat /\ missed \in Nat /\ delivered \in Nat /\ reported \in Nat
    BY DEF PathInv, ShipInv, ShipShape
  <1>1. ASSUME UNCHANGED <<ingested, loss>>, UNCHANGED <<failures, delivered, reported>>,
               drain' # "idle" => batch' > 0
        PROVE  AccountInv'
    BY <1>1 DEF AccountInv, Silent
  <1>2. CASE ShipStep /\ UNCHANGED paneVars
    <2>1. UNCHANGED <<ingested, loss>>  BY <1>2 DEF paneVars
    <2>2. UNCHANGED <<failures, delivered, reported>> /\ (drain' # "idle" => batch' > 0)
      <3>1. ASSUME NEW t \in Threads, Log(t) \/ CountDrop(t)
            PROVE  UNCHANGED <<failures, delivered, reported, drain, batch>>
        BY <3>1 DEF Log, CountDrop
      <3>2. CASE Receive  BY <1>0, <3>2 DEF Receive
      <3>3. CASE CloseBatch  BY <3>3 DEF CloseBatch, AccountInv
      <3> QED BY <1>2, <3>1, <3>2, <3>3 DEF ShipStep, AccountInv
    <2> QED BY <1>1, <2>1, <2>2
  <1>3. CASE PostLands /\ BatchArrives
    <2>1. drain' = "idle" /\ delivered' = delivered + batch /\ reported' = reported + missed
          /\ failures' = failures /\ drain = "posting"
      BY <1>3 DEF PostLands, NextBatch
    <2> QED BY <1>0, <1>3, <2>1, BatchAccounts DEF AccountInv
  <1>4. CASE PostFails /\ BatchArrives
    <2>1. drain' = "idle" /\ failures' # 0 /\ drain = "posting"
      BY <1>0, <1>4 DEF PostFails, NextBatch
    <2> QED BY <1>4, <2>1, BatchAccounts DEF AccountInv
  <1>5. CASE PostFails /\ UNCHANGED paneVars
    <2>1. drain' = "idle" /\ failures' # 0 /\ UNCHANGED <<ingested, loss>>
      BY <1>0, <1>5 DEF PostFails, NextBatch, paneVars
    <2> QED BY <2>1 DEF AccountInv
  <1>6. CASE PaneStep /\ UNCHANGED shipVars
    <2>1. UNCHANGED <<ingested, loss>>
      BY <1>6 DEF PaneStep, Clear, Restart, Poll, PollFails, NextFrame
    <2>2. UNCHANGED <<failures, delivered, reported, drain, batch>>
      BY <1>6 DEF shipVars
    <2> QED BY <1>1, <2>1, <2>2 DEF AccountInv
  <1>7. CASE UNCHANGED <<shipVars, paneVars>>
    BY <1>1, <1>7 DEF shipVars, paneVars, AccountInv
  <1> QED BY <1>2, <1>3, <1>4, <1>5, <1>6, <1>7 DEF PathNext

\* The account holds throughout.
LEMMA AccountHolds == PathSpec => []AccountInv
  <1> QED BY AccountInitially, AccountStep, PathInvariant, PTL DEF PathSpec

\* A pane that shows all has the account of it.
LEMMA PaneAccounts == PathInv /\ AccountInv => PaneAccountsForLosses
  <1> SUFFICES ASSUME PathInv, AccountInv, failures = 0, InPane = 1..ingested
               PROVE  logged = LinesShown + LossesShown
                               + queue + batch + Cardinality(counting) + dropped + missed
    BY DEF PaneAccountsForLosses
  <1>1. LinesShown = delivered
    <2>1. {n \in InPane : loss[n] = 0} = Silent  BY DEF Silent
    <2> QED BY <2>1 DEF LinesShown, AccountInv
  <1>2. LossesShown = reported
    <2>1. LossesShown = Total(loss, 1..ingested)  BY DEF LossesShown, Total
    <2> QED BY <2>1 DEF AccountInv
  <1>3. Cardinality(counting) \in Nat
    BY FS_CardinalityType DEF PathInv, ShipInv, ShipShape
  <1> QED BY <1>1, <1>2, <1>3 DEF PathInv, ShipInv, ShipShape, GapsAreCounted

\* "The operator can see in the pane that lines were lost": while no post fails, and
\* whatever the threads, the drain, the ring and the stream do, a pane that shows all
\* that came to the ring accounts for every line logged (logship's drain, append of
\* services/state-actix/src/console_logs.rs).
THEOREM LossesReachThePane == PathSpec => []LossesAreSeen
  <1>1. PathInv /\ AccountInv => LossesAreSeen
    BY PaneAccounts DEF LossesAreSeen, PathInv, ShipInv
  <1> QED BY <1>1, PathInvariant, AccountHolds, PTL
=============================================================================
