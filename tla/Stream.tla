------------------------------- MODULE Stream -------------------------------
(***************************************************************************)
(* One streamed answer: crates/execute/src/stream.rs and stream_response   *)
(* of services/runtime-actix/src/pipeline.rs.  A task reads the provider's *)
(* body, translates each event and sends the frames into a bounded channel *)
(* that the client's response body drains; for a client that asked for     *)
(* JSON the same reading ends in one body.  The client may go away, and    *)
(* the provider's connection may break, at any point.                      *)
(*                                                                         *)
(* The provider is external.  It follows its own protocol: it opens a call *)
(* before it sends its arguments, says that it finished at most once, and  *)
(* sends no content after that, or reports an error and stops.  Its frames *)
(* reach the task in reads that begin and end anywhere, within a character *)
(* too, and of a binary stream one read may bring several.                 *)
(***************************************************************************)
EXTENDS Translate, FiniteSets

CONSTANTS Targets,    \* formats of the provider
          Sources,    \* formats of the client; "json" for a collapsed stream
          MaxEvents,  \* per format, a bound on the events a provider sends
          MaxCalls,   \* bound on its tool calls
          TornBy,     \* per format, a character is torn by this event or not at all
          Capacity    \* STREAM_CHANNEL_FRAMES

ASSUME StreamAssumption ==
    /\ Targets \subseteq {"openai", "claude", "gemini", "ollama", "commandcode", "grok",
                         "perplexity", "kiro", "cursor"}
    /\ \A t \in Targets : MaxEvents[t] \in Nat
    /\ MaxCalls \in Nat
    /\ \A t \in Targets : TornBy[t] \in Nat
    /\ Capacity \in Nat \ {0}

VARIABLES
    target, source,
    up, down,    \* StreamState, and the client side of it
    pump,        \* "reading"; "decoding" or "decoded" within a binary read;
                 \* "closing" once the body has ended; or "over"
    batch,       \* chunks decoded from one binary read and not yet translated
    pending,     \* frames translated and not yet in the channel
    channel,     \* the bounded channel between the task and the response body
    client,      \* "there" or "gone"
    got,         \* what the client has received
    said,        \* what the provider has said: its texts, thoughts, arguments
    talk,        \* how far the provider is in its protocol
    marred       \* what has gone wrong with the answer on its way, as a set of
                 \* "torn", "dropped", "shared" and "remarked"

vars == <<target, source, up, down, pump, batch, pending, channel, client, got, said, talk,
          marred>>

CallIds == 1..MaxCalls
Binary == {"kiro", "cursor"}
Unfinishing == {"grok", "perplexity"}
Reasons == {"stop", "tool_calls"}

NewDown(s) == CASE s = "claude" -> NewClaude
                [] s = "responses" -> NewResponses
                [] s = "json" -> NewJson
                [] OTHER -> [out |-> <<>>]

Init ==
    /\ target \in Targets /\ source \in Sources
    /\ target = "claude" => source # "claude"
    /\ \E thinking \in IF target \in {"grok", "cursor"} THEN BOOLEAN ELSE {FALSE} :
           up = NewUpstream(thinking)
    /\ down = NewDown(source)
    /\ pump = "reading"
    /\ batch = <<>> /\ pending = <<>> /\ channel = <<>>
    /\ client = "there"
    /\ got = <<>>
    /\ marred = {}
    /\ said = [text |-> 0, thought |-> 0, args |-> [i \in CallIds |-> 0]]
    /\ talk = [events |-> 0, calls |-> 0, block |-> Unset, kind |-> "none",
               blocks |-> 0, phase |-> "answering"]

---------------------------------------------------------------------------
(* What the provider may send next.  Pieces are numbered as they are said. *)

Next1(n) == <<n + 1>>
UpTo(n) == [i \in 1..n |-> i]

NewText == Event("text", 0, Next1(said.text), "none")
NewThought == Event("thought", 0, Next1(said.thought), "none")
NewCall(k, ps) ==
    IF talk.calls < MaxCalls THEN {Event(k, talk.calls + 1, ps, "none")} ELSE {}
Args(k) == {Event(k, i, Next1(said.args[i]), "none") : i \in 1..talk.calls}
Ending(k) == {Event(k, 0, <<>>, r) : r \in Reasons}
Error == Event("error", 0, <<>>, "none")
Repeats(n) == {UpTo(m) : m \in {n, n + 1} \ {0}}

OpenAiEvents ==
    {NewText, NewThought} \cup NewCall("open", <<>>) \cup NewCall("open", <<1>>)
        \cup Args("args") \cup Ending("finish")

ClaudeEvents ==
    IF talk.events = 0 THEN {Event("message_start", 0, <<>>, "none")}
    ELSE IF talk.block = Unset
    THEN {Event("block_start", talk.blocks, <<>>, kind) :
              kind \in {"text", "thought", "server"}
                        \cup (IF talk.calls < MaxCalls THEN {"call"} ELSE {})}
         \cup Ending("message_delta") \cup {Event("message_stop", 0, <<>>, "none")}
    ELSE {Event("block_stop", talk.block, <<>>, talk.kind),
          Event("block_delta", talk.block,
                Next1(CASE talk.kind = "text" -> said.text
                        [] talk.kind = "thought" -> said.thought
                        [] talk.kind = "call" -> said.args[talk.calls]
                        [] OTHER -> 0), talk.kind)}

\* Gemini's last chunk has a reason, and may have a part too.
GeminiEvents ==
    {[e EXCEPT !.tag = r] : e \in {NewText, NewThought} \cup NewCall("call", <<1>>),
                            r \in {"none", "stop"}}
        \cup {Event("finish", 0, <<>>, "stop")}

\* A call may state its number, or be the first or the second of its chunk.
OllamaEvents ==
    {NewText, NewThought, Event("done", 0, <<>>, "stop")}
        \cup {[c EXCEPT !.tag = place] :
                 c \in NewCall("call", <<1>>),
                 place \in {"numbered", "first"}
                           \cup (IF talk.kind = "first" THEN {"next"} ELSE {})}

\* A call may be streamed, sent whole, or streamed and then repeated whole.
CommandCodeEvents ==
    {NewText, NewThought, Error} \cup Ending("finish_step") \cup Ending("finish")
        \cup NewCall("open", <<>>) \cup NewCall("call", <<1>>) \cup Args("args")
        \cup {Event("call", i, UpTo(said.args[i]), "none") : i \in 1..talk.calls}

GrokEvents ==
    {IF up.thinking THEN NewThought ELSE NewText, Error}
        \cup {Event("whole", 0, ps, "none") :
                 ps \in IF up.thinking THEN {<<1>>} ELSE Repeats(said.text)}

PerplexityEvents ==
    {Event("text", 0, ps, "none") : ps \in Repeats(said.text)}
        \cup {Event("thought", 0, <<n>>, "none") :
                 n \in {said.thought, said.thought + 1} \ {0}}
        \cup {Error}

BinaryEvents ==
    {Error, Event("stop", 0, <<>>, "none")} \cup NewCall("call", <<1>>) \cup Args("call")

KiroEvents == {NewText, NewThought} \cup BinaryEvents

\* A composer model writes its answer into its thinking, after a mark that it
\* may write again.  "exec" asks for a tool of an editor.
CursorEvents ==
    (IF up.thinking
     THEN {IF CloseTag \in ToSet(up.embedded)
           THEN Event("embedded", 0, Next1(said.text), "none") ELSE NewThought,
           Event("mark", 0, <<>>, "none")}
     ELSE {NewText, NewThought})
        \cup BinaryEvents \cup {Event("exec", 0, <<>>, "none")}

\* What e makes of the conversation: nothing but Claude's message_stop, or
\* CommandCode's finish after an error, follows the end.
PhaseAfter(e) ==
    IF e.k \in {"error", "exec"} THEN "failed"
    ELSE IF talk.phase # "answering" \/ e.k = "message_stop" THEN "over"
    ELSE IF \/ e.k \in {"finish", "done", "message_delta", "stop"}
            \/ target = "gemini" /\ e.tag # "none"
            \/ target = "grok" /\ e.k = "whole"
         THEN "finished" ELSE "answering"

Answering ==
    CASE target = "openai" -> OpenAiEvents
      [] target = "claude" -> ClaudeEvents
      [] target = "gemini" -> GeminiEvents
      [] target = "ollama" -> OllamaEvents
      [] target = "commandcode" -> CommandCodeEvents
      [] target = "grok" -> GrokEvents
      [] target = "perplexity" -> PerplexityEvents
      [] target = "kiro" -> KiroEvents
      [] OTHER -> CursorEvents

Offers ==
    IF talk.events = MaxEvents[target] THEN {}
    ELSE CASE talk.phase = "answering" -> Answering
           [] talk.phase = "finished" ->
                 IF target = "claude" THEN {Event("message_stop", 0, <<>>, "none")} ELSE {}
           [] talk.phase = "failed" ->
                 IF target = "commandcode" THEN Ending("finish") ELSE {}
           [] talk.phase = "over" -> {}

TopicOf(e) == CASE e.k = "block_delta" -> e.tag
                [] e.k \in {"text", "whole", "embedded"} -> "text"
                [] e.k \in {"open", "args", "call"} -> "call"
                [] OTHER -> e.k

\* What the provider has said, and where it is, once it has sent e.
Say(e) ==
    LET topic == TopicOf(e)
        id == IF e.k = "block_delta" THEN talk.calls ELSE e.id
    IN  /\ said' = IF e.ps = <<>> THEN said
                   ELSE CASE topic = "text" -> [said EXCEPT !.text = Last(e.ps)]
                          [] topic = "thought" -> [said EXCEPT !.thought = Last(e.ps)]
                          [] topic = "call" -> [said EXCEPT !.args[id] = Last(e.ps)]
                          [] OTHER -> said
        /\ talk' = [events |-> talk.events + 1,
                    calls |-> IF \/ e.k \in {"open", "call"} /\ e.id > talk.calls
                                 \/ e.k = "block_start" /\ e.tag = "call"
                              THEN talk.calls + 1 ELSE talk.calls,
                    block |-> CASE e.k = "block_start" -> e.id
                                [] e.k = "block_stop" -> Unset
                                [] OTHER -> talk.block,
                    kind |-> IF e.k = "block_start" \/ target = "ollama" THEN e.tag
                             ELSE talk.kind,
                    blocks |-> talk.blocks + (IF e.k = "block_start" THEN 1 ELSE 0),
                    phase |-> PhaseAfter(e)]

---------------------------------------------------------------------------
(* Translation of one event, and of what follows the last one. *)

\* translate_response, first half; an OpenAI chunk is taken as it is.
FromProvider(e, u) ==
    CASE target = "openai" ->
            Step(u, <<Chunk(IF e.k = "text" THEN e.ps ELSE <<>>,
                            IF e.k = "thought" THEN e.ps ELSE <<>>,
                            IF e.k \in {"open", "args"}
                            THEN <<[index |-> e.id - 1, opens |-> e.k = "open", ps |-> e.ps]>>
                            ELSE <<>>, e.tag)>>)
      [] target = "claude" -> FromClaude(e, u)
      [] target = "gemini" -> FromGemini(e, u)
      [] target = "ollama" -> FromOllama(e, u)
      [] target = "commandcode" -> FromCommandCode(e, u)
      [] target = "grok" -> FromGrok(e, u)
      [] target = "perplexity" -> FromPerplexity(e, u)
      [] target = "kiro" -> FromKiro(e, u)
      [] OTHER -> FromCursor(e, u)

\* translate_response, second half, and to_client: d.out holds the frames.
ToOneClient(d, chunk) ==
    CASE source = "claude" -> ToClaude(d, chunk)
      [] source = "responses" -> ToResponses(d, chunk)
      [] source = "json" -> ToJson(d, chunk)
      [] OTHER -> [d EXCEPT !.out = Append(@, chunk)]

ToClient(d, chunks) == FoldLeft(ToOneClient, d, chunks)

\* Mutant: a stream of lines is never given the finish it lacks.
FinalizeNothing(u) == Nothing(u)

\* finalize_upstream for a stream of lines, decoder.finish for a binary one.
Finalize(u) ==
    CASE target \in Unfinishing /\ source # "json" -> Step(u, <<Finish("stop")>>)
      [] target = "kiro" -> KiroFinish(u)
      [] target = "cursor" -> CursorFinish(u)
      [] OTHER -> Nothing(u)

Done == Frame("done", 0, "none", <<>>)

\* finalize_response and the terminator, or the collapsed body.
Terminate(d) ==
    CASE source = "responses" -> Append(ResponsesFlush(d).out, Done)
      [] source = "json" -> <<JsonBody(d)>>
      [] OTHER -> Append(d.out, Done)

---------------------------------------------------------------------------
(* Actions. *)

\* from_utf8_lossy: a read, or a frame of Cursor's, may end within a character,
\* and what is read in its place is longer.  Bounds: once in a stream, early on.
AsRead(e) ==
    {e} \cup (IF \/ e.ps = <<>> \/ target = "kiro"
                 \/ "torn" \in marred \/ talk.events >= TornBy[target]
              THEN {}
              ELSE {Event(e.k, e.id, Front(e.ps) \o <<Garbled, Garbled>>, e.tag)})

\* What goes wrong when e is read as f, for the properties.
Harm(e, f) ==
    (IF f # e THEN {"torn"} ELSE {})
        \cup (IF e.k = "exec" /\ source # "json" /\ batch # <<>> THEN {"dropped"} ELSE {})
        \cup (IF target = "ollama" /\ e.k = "call" /\ OllamaIndex(e) # e.id - 1
              THEN {"shared"} ELSE {})
        \cup (IF e.k = "mark" /\ CloseTag \in ToSet(up.embedded) THEN {"remarked"} ELSE {})

\* body.next() and emit_line: the frames of one event of a stream of lines.
Read(e) ==
    /\ target \notin Binary
    /\ pump = "reading" /\ pending = <<>>
    /\ Say(e)
    /\ \E f \in AsRead(e) :
           LET step == FromProvider(f, up)
               d == ToClient(down, step.out)
           IN  /\ up' = step.u
               /\ pending' = d.out
               /\ down' = [d EXCEPT !.out = <<>>]
               /\ marred' = marred \cup Harm(e, f)
    /\ UNCHANGED <<target, source, pump, batch, channel, client, got>>

\* decoder.consume: one frame of a binary read, whose chunks wait for the rest of
\* the read.  An error ends the stream, and so does Cursor's own end; at a tool of
\* an editor the pump breaks before it relays what was decoded with it.
Decode(e) ==
    /\ target \in Binary
    /\ pump \in {"reading", "decoding"} /\ pending = <<>>
    /\ Say(e)
    /\ \E f \in AsRead(e) :
           LET step == FromProvider(f, up)
           IN  /\ up' = step.u
               /\ batch' = IF e.k = "exec" /\ source # "json" THEN <<>> ELSE batch \o step.out
               /\ marred' = marred \cup Harm(e, f)
    /\ pump' = IF e.k \in {"error", "exec"} \/ (target = "cursor" /\ e.k = "stop")
               THEN "decoded" ELSE "decoding"
    /\ UNCHANGED <<target, source, down, pending, channel, client, got>>

\* The chunks of a binary read are translated once it has no further whole frame.
HandOver ==
    /\ pump \in {"decoding", "decoded"}
    /\ LET d == ToClient(down, batch)
       IN  /\ pending' = d.out
           /\ down' = [d EXCEPT !.out = <<>>]
    /\ batch' = <<>>
    /\ pump' = IF pump = "decoded" THEN "closing" ELSE "reading"
    /\ UNCHANGED <<target, source, up, channel, client, got, said, talk, marred>>

\* The body ends or the connection breaks: both leave the loop.
EndOfBody ==
    /\ pump = "reading" /\ pending = <<>>
    /\ pump' = "closing"
    /\ UNCHANGED <<target, source, up, down, batch, pending, channel, client, got, said, talk,
                   marred>>

\* Everything that follows the loop, once the frames before it are sent.
Close ==
    /\ pump = "closing" /\ pending = <<>>
    /\ LET step == Finalize(up)
           d == ToClient(down, step.out)
       IN  /\ up' = step.u
           /\ pending' = Terminate(d)
           /\ down' = [d EXCEPT !.out = <<>>]
    /\ pump' = "over"
    /\ UNCHANGED <<target, source, batch, channel, client, got, said, talk, marred>>

\* Mutant: a frame the client did not take is offered again for ever.
SendAgain ==
    /\ pending # <<>>
    /\ \/ /\ client = "there" /\ Len(channel) < Capacity
          /\ channel' = Append(channel, Head(pending))
          /\ pending' = Tail(pending)
       \/ client = "gone" /\ UNCHANGED <<channel, pending>>
    /\ UNCHANGED <<target, source, up, down, pump, batch, client, got, said, talk, marred>>

\* sink.send: waits for room; fails, and ends everything, once the client is gone.
Send ==
    /\ pending # <<>>
    /\ \/ /\ client = "there" /\ Len(channel) < Capacity
          /\ channel' = Append(channel, Head(pending))
          /\ pending' = Tail(pending)
          /\ pump' = pump
       \/ /\ client = "gone"
          /\ pending' = <<>> /\ pump' = "over"
          /\ channel' = channel
    /\ UNCHANGED <<target, source, up, down, batch, client, got, said, talk, marred>>

\* recv_many takes all that is queued.
Receive ==
    /\ client = "there" /\ channel # <<>>
    /\ got' = got \o channel
    /\ channel' = <<>>
    /\ UNCHANGED <<target, source, up, down, pump, batch, pending, client, said, talk, marred>>

Leave ==
    /\ client = "there"
    /\ client' = "gone" /\ channel' = <<>>
    /\ UNCHANGED <<target, source, up, down, pump, batch, pending, got, said, talk, marred>>

Ended == pump = "over" /\ pending = <<>> /\ channel = <<>>
Stopped == Ended /\ UNCHANGED vars

Next == (\E e \in Offers : Read(e) \/ Decode(e)) \/ HandOver \/ EndOfBody \/ Close
            \/ Send \/ Receive \/ Leave \/ Stopped

Spec == Init /\ [][Next]_vars

\* The provider's request has a total timeout, so its body ends; the client
\* reads or goes away.  The last conjunct is WF_vars(HandOver), which is enabled
\* exactly within a read and ends it.
Fairness == /\ WF_vars(EndOfBody) /\ WF_vars(Close) /\ WF_vars(Send)
            /\ WF_vars(Receive \/ Leave)
            /\ []<>(pump \notin {"decoding", "decoded"})

FairSpec == Spec /\ Fairness

---------------------------------------------------------------------------
(* What the client has, once a stream has ended without it going away.     *)
(* The properties are about this state: what they say of a whole stream    *)
(* they say of its beginnings, which are all that a client that left got.  *)

Whole == Ended /\ client = "there"

TypeOK ==
    /\ target \in Targets /\ source \in Sources
    /\ pump \in {"reading", "decoding", "decoded", "closing", "over"}
    /\ IF pump \in {"decoding", "decoded"} THEN pending = <<>> ELSE batch = <<>>
    /\ Len(channel) <= Capacity
    /\ client \in {"there", "gone"}
    /\ talk.events \in 0..MaxEvents[target] /\ talk.calls \in 0..MaxCalls
    /\ marred \subseteq {"torn", "dropped", "shared", "remarked"}
    /\ pump = "over" /\ client = "there" => down.out = <<>>

\* A Claude client reads up to the first message_stop.
Ends(f) == f.t = "message_stop"
Read1 == IF \E i \in DOMAIN got : Ends(got[i])
         THEN SubSeq(got, 1, CHOOSE i \in DOMAIN got :
                                Ends(got[i]) /\ \A j \in 1..(i - 1) : ~Ends(got[j]))
         ELSE got

\* The pieces of one kind the client has read, in order.
Delta(f) == f.t \in {"block_delta", "delta"}
PiecesOf(f, kind) ==
    CASE f.t \in {"chunk", "body"} -> IF kind = "text" THEN f.text ELSE f.thought
      [] Delta(f) /\ f.kind = kind -> f.ps
      [] OTHER -> <<>>
Heard(kind) == SelectSeq(FlattenSeq([i \in DOMAIN Read1 |-> PiecesOf(Read1[i], kind)]),
                         LAMBDA p : p > 0)

\* The block a Claude client has for the n-th call.
CallBlocks == SelectSeq(Read1, LAMBDA f : f.t = "block_start" /\ f.kind = "call")
ArgsIn(f, n) ==
    CASE f.t \in {"chunk", "body"} ->
            FlattenSeq([i \in DOMAIN f.calls |->
                           IF f.calls[i].index = n - 1 THEN f.calls[i].ps ELSE <<>>])
      [] f.t = "delta" /\ f.kind = "call" /\ f.id = n - 1 -> f.ps
      [] f.t = "block_delta" /\ f.kind = "call" /\ n <= Len(CallBlocks)
            /\ f.id = CallBlocks[n].id -> f.ps
      [] OTHER -> <<>>
ArgsHeard(n) == SelectSeq(FlattenSeq([i \in DOMAIN Read1 |-> ArgsIn(Read1[i], n)]),
                          LAMBDA p : p > 0)

\* The provider said how its answer ended, or the code says it for it.
Finished == \/ talk.phase # "answering"
            \/ target \in Binary
            \/ target \in Unfinishing /\ source # "json"

\* What is heard of n pieces: they come in order and once, whatever went wrong;
\* only the last of them are missing if a read was dropped, and none if nothing
\* of harm happened.
Faithful(heard, n, harm) ==
    /\ \A i \in DOMAIN heard : heard[i] <= n /\ \A j \in 1..(i - 1) : heard[j] < heard[i]
    /\ marred \cap harm \subseteq {"dropped"} => IsPrefix(heard, UpTo(n))
    /\ marred \cap harm = {} => heard = UpTo(n)

\* A composer model's reasoning is not passed on.
Withheld == target = "cursor" /\ up.thinking

\* Text and reasoning reach the client complete, in order and once, whatever
\* formats lie between: no event, cumulative answer, whole message repeated
\* after its tokens, or end of body adds, drops or moves a piece.
AnswerFaithful ==
    Whole => /\ Faithful(Heard("text"), said.text, {"torn", "dropped", "remarked"})
             /\ IF Withheld THEN Heard("thought") = <<>>
                ELSE Faithful(Heard("thought"), said.thought, {"torn", "dropped"})

\* The arguments of every call reach the client complete, in order and once,
\* although fragments of several calls arrive interleaved, a call may be
\* repeated whole, and a Claude client gets them only with the finish; unless
\* calls share an index.
CallsFaithful ==
    Whole /\ (source = "claude" => Finished) /\ "shared" \notin marred =>
        \A n \in 1..talk.calls : Faithful(ArgsHeard(n), said.args[n], {"torn", "dropped"})

\* What the client hears is what the provider said, its answer and its calls,
\* except where the code is known to fall short: a character torn between two
\* reads, a binary read that ends in a request for a tool of an editor, calls of
\* an Ollama provider that state no number and come in several chunks, and a
\* composer model that writes its mark again.  Even then nothing is repeated or
\* moved, but for calls that share an index.
HearsWhatWasSaid == AnswerFaithful /\ CallsFaithful

Before(i, t, id, kind) ==
    \E j \in 1..(i - 1) : got[j].t = t /\ got[j].id = id /\ got[j].kind = kind

\* What a Claude client reads is a message: a block opens once, under an index
\* of its own, has its deltas while it is open, and closes once; all are closed
\* when the message stops.
ClaudeClientCanParse ==
    Whole /\ source = "claude" =>
        \A i \in DOMAIN Read1 : LET f == got[i] IN
            /\ (f.t = "message_start") = (i = 1 /\ f.t # "done")
            /\ f.t = "block_start" =>
                  \A j \in 1..(i - 1) : got[j].t = "block_start" => got[j].id < f.id
            /\ f.t \in {"block_delta", "block_stop"} =>
                  /\ Before(i, "block_start", f.id, f.kind)
                  /\ ~Before(i, "block_stop", f.id, f.kind)
            /\ f.t = "message_stop" =>
                  \A j \in 1..i : got[j].t = "block_start" =>
                                     Before(i, "block_stop", got[j].id, got[j].kind)

ItemPieces(i, f) ==
    FlattenSeq([j \in 1..i |-> IF got[j].t = "delta" /\ got[j].id = f.id /\ got[j].kind = f.kind
                               THEN got[j].ps ELSE <<>>])

\* What a Responses client reads is a response: an item is added once, has its
\* deltas after that, and is done once with everything it was sent so far; all
\* are done when the response completes, which is the last thing it hears.
ResponsesClientCanParse ==
    Whole /\ source = "responses" =>
        \A i \in DOMAIN got : LET f == got[i] IN
            /\ (f.t = "created") = (i = 1 /\ f.t # "done")
            /\ f.t = "added" => ~Before(i, "added", f.id, f.kind)
            /\ f.t \in {"delta", "done"} /\ f.kind # "none" =>
                  Before(i, "added", f.id, f.kind)
            /\ f.t = "done" /\ f.kind # "none" =>
                  /\ ~Before(i, "done", f.id, f.kind)
                  /\ f.ps = ItemPieces(i, f)
            /\ f.t = "completed" =>
                  /\ i = Len(got) - 1
                  /\ \A j \in 1..i : got[j].t = "added" =>
                                         Before(i, "done", got[j].id, got[j].kind)

\* A client of either format can make a message of what it reads.
ClientCanParse == ClaudeClientCanParse /\ ResponsesClientCanParse

\* A stream ends with one terminator after everything else; a Responses client
\* hears that its response completed however the body ended, the others hear an
\* end if the provider stated one or the code states it for that provider.
EndsProperly ==
    Whole =>
        /\ source # "json" => /\ Last(got) = Done
                              /\ \A i \in 1..(Len(got) - 1) : got[i] # Done
        /\ source = "responses" /\ Len(got) > 1 => got[Len(got) - 1].t = "completed"
        /\ source = "claude" /\ Finished => Ends(Last(Read1))
        /\ source = "openai" /\ Finished =>
              \E i \in DOMAIN got : got[i].t = "chunk" /\ got[i].finish # "none"
        /\ source = "json" => Len(got) = 1

ReasonIn(f) == CASE f.t = "message_delta" -> f.kind
                 [] f.t \in {"chunk", "body"} -> f.finish
                 [] OTHER -> "none"

\* Gemini and Ollama report an ordinary stop on a turn that called a tool, Kiro
\* and Cursor report nothing: a client told "stop" would never run the tool.
CallsAreAnnounced ==
    Whole /\ talk.calls > 0 /\ target \in {"gemini", "ollama"} \cup Binary =>
        \A i \in DOMAIN Read1 : ReasonIn(Read1[i]) \in {"none", "tool_calls"}

\* A client can act on what it reads: it parses, it ends, and a turn that wants a
\* tool run says so.
ClientCanRead == ClientCanParse /\ EndsProperly /\ CallsAreAnnounced

\* Every stream comes to an end, and a client that stays has all of it.
EveryStreamEnds == <>(pump = "over" /\ pending = <<>> /\ channel = <<>>)

---------------------------------------------------------------------------
(* Where the code falls short of what its comments say. *)

\* "Text closes before a tool item opens, so items never interleave": text that
\* comes after a call, or reasoning after text, goes to an item already done.
NoDeltaAfterDone ==
    Whole /\ source = "responses" =>
        \A i \in DOMAIN got : got[i].t = "delta" => ~Before(i, "done", got[i].id, got[i].kind)

\* A message stops once: an error inside a grok, perplexity or CommandCode
\* stream, and the end of a Cursor stream, are each followed by a second finish.
MessageStopsOnce ==
    \A i, j \in DOMAIN got : Ends(got[i]) /\ Ends(got[j]) => i = j

\* A Claude message whose provider broke off is never stopped.
MessageStops == Whole /\ source = "claude" => \E i \in DOMAIN got : Ends(got[i])

\* A chunk's boundaries are "the byte layer's problem, handled before this point",
\* and the splitter "manages split UTF-8 multi-byte sequences"; but every read is
\* decoded by itself, and a character that two of them share is replaced.
CharactersSurvive == "torn" \notin marred

\* A failure after content "is a truncation, and the text already delivered stays";
\* but a request for a tool of an editor takes along what came in one read with it.
NothingIsDropped == "dropped" \notin marred

\* An error before any content is "stated rather than swallowed": a binary
\* stream ends as an empty answer that finished normally.
FailureIsHeard ==
    Whole /\ talk.phase = "failed" =>
        \E i \in DOMAIN got : Failure \in ToSet(PiecesOf(got[i], "text"))
=============================================================================
