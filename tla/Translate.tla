------------------------------ MODULE Translate ------------------------------
(***************************************************************************)
(* The streaming translators of crates/translate and the binary decoders   *)
(* of crates/execute, as operators: a provider's event is turned into      *)
(* OpenAI chunks, and those into frames of the client's format.            *)
(*                                                                         *)
(* Text is a sequence of pieces.  The provider numbers the pieces of its   *)
(* answer, of its reasoning and of each call's arguments 1, 2, ..., so a   *)
(* piece lost, repeated or moved shows in what the client collects.  Ids,  *)
(* models, timestamps and token counts are left out.                       *)
(*                                                                         *)
(* StreamState is split in two: the fields the translators from the        *)
(* provider use, and those of the translators to the client.  The two sets *)
(* overlap in text_block_started and thinking_block_started, but only for  *)
(* a Claude provider and a Claude client, which is never translated.       *)
(***************************************************************************)
EXTENDS Integers, Sequences, SequencesExt

Unset == -1
OpenTag == -1     \* the text "<think>"
CloseTag == -2    \* the text "</think>"
Failure == -3     \* the text of an error reported inside the stream
Garbled == 0      \* what is read of a character torn between two reads

---------------------------------------------------------------------------
(* OpenAI chunks, the pivot, and events of a provider. *)

Chunk(text, thought, calls, finish) ==
    [t |-> "chunk", text |-> text, thought |-> thought,
     calls |-> calls, finish |-> finish]

Role == Chunk(<<>>, <<>>, <<>>, "none")
Text(ps) == Chunk(ps, <<>>, <<>>, "none")
Thought(ps) == Chunk(<<>>, ps, <<>>, "none")
Call(index, opens, ps) ==
    Chunk(<<>>, <<>>, <<[index |-> index, opens |-> opens, ps |-> ps]>>, "none")
Finish(reason) == Chunk(<<>>, <<>>, <<>>, reason)

\* An event: its kind, the call or block it is about, its pieces, its reason.
Event(k, id, ps, tag) == [k |-> k, id |-> id, ps |-> ps, tag |-> tag]

---------------------------------------------------------------------------
(* From the provider.  A step is the state after it and the chunks. *)

NewUpstream(thinking) ==
    [started |-> FALSE,    \* message_id is set, or the role was announced
     calls |-> <<>>,       \* call ids in the order first seen
     finish |-> "none",    \* finish_reason
     sent |-> FALSE,       \* finish_reason_sent, or finished
     think |-> Unset,      \* in_thinking_block and current_block_index
     server |-> Unset,     \* server_tool_block_index
     emitted |-> 0,        \* grok_emitted, pplx_seen, emitted_visible
     seen |-> {},          \* pplx_seen_reasoning
     answered |-> FALSE,   \* grok_saw_model_response
     embedded |-> <<>>,    \* thinking, in Cursor's decoder
     thinking |-> thinking] \* grok_thinking, composer

Step(u, chunks) == [u |-> u, out |-> chunks]
Nothing(u) == Step(u, <<>>)
Knows(u, id) == id \in ToSet(u.calls)
Seen(u, id) == IF Knows(u, id) THEN u.calls ELSE Append(u.calls, id)
IndexOf(calls, id) == (CHOOSE i \in DOMAIN calls : calls[i] = id) - 1

ClaudeBlockStart(e, u) ==
    CASE e.tag = "server" -> Nothing([u EXCEPT !.server = e.id])
      [] e.tag = "thought" -> Step([u EXCEPT !.think = e.id], <<Text(<<OpenTag>>)>>)
      [] e.tag = "call" -> Step([u EXCEPT !.calls = Append(@, e.id)],
                                <<Call(Len(u.calls), TRUE, <<>>)>>)
      [] OTHER -> Nothing(u)

ClaudeBlockDelta(e, u) ==
    IF e.id = u.server THEN Nothing(u)
    ELSE CASE e.tag = "text" -> Step(u, <<Text(e.ps)>>)
           [] e.tag = "thought" -> Step(u, <<Thought(e.ps)>>)
           [] e.tag = "call" /\ Knows(u, e.id) ->
                 Step(u, <<Call(IndexOf(u.calls, e.id), FALSE, e.ps)>>)
           [] OTHER -> Nothing(u)

ClaudeBlockStop(e, u) ==
    IF e.id = u.server THEN Nothing([u EXCEPT !.server = Unset])
    ELSE IF e.id = u.think THEN Step([u EXCEPT !.think = Unset], <<Text(<<CloseTag>>)>>)
    ELSE Nothing(u)

ClaudeMessageDelta(e, u) ==
    IF e.tag = "none" THEN Nothing(u)
    ELSE Step([u EXCEPT !.finish = e.tag, !.sent = TRUE], <<Finish(e.tag)>>)

ClaudeMessageStop(u) ==
    IF u.sent THEN Nothing(u)
    ELSE Step([u EXCEPT !.sent = TRUE],
              <<Finish(IF u.finish # "none" THEN u.finish
                       ELSE IF u.calls = <<>> THEN "stop" ELSE "tool_calls")>>)

FromClaude(e, u) ==
    CASE e.k = "message_start" -> Step([u EXCEPT !.calls = <<>>], <<Role>>)
      [] e.k = "block_start" -> ClaudeBlockStart(e, u)
      [] e.k = "block_delta" -> ClaudeBlockDelta(e, u)
      [] e.k = "block_stop" -> ClaudeBlockStop(e, u)
      [] e.k = "message_delta" -> ClaudeMessageDelta(e, u)
      [] e.k = "message_stop" -> ClaudeMessageStop(u)
      [] OTHER -> Nothing(u)

\* A Gemini chunk carries a part and, on the last one, the reason.
GeminiPart(e, u) ==
    CASE e.k = "text" -> Step(u, <<Text(e.ps)>>)
      [] e.k = "thought" -> Step(u, <<Thought(e.ps)>>)
      [] e.k = "call" -> Step([u EXCEPT !.calls = Append(@, e.id)],
                              <<Call(Len(u.calls), TRUE, e.ps)>>)
      [] OTHER -> Nothing(u)

\* Mutant: the reason as Gemini states it, "stop" on a turn that called a tool.
GeminiFinishAsStated(e, u) == e.tag

GeminiFinish(e, u) ==
    IF e.tag = "stop" /\ u.calls # <<>> THEN "tool_calls" ELSE e.tag

FromGemini(e, u) ==
    LET part == GeminiPart(e, u)
        fin == GeminiFinish(e, part.u)
    IN  Step([part.u EXCEPT !.started = TRUE,
                            !.finish = IF e.tag = "none" THEN @ ELSE fin],
             (IF u.started THEN <<>> ELSE <<Role>>) \o part.out
                 \o (IF e.tag = "none" THEN <<>> ELSE <<Finish(fin)>>))

OllamaFinish(e, u) ==
    IF e.tag = "tool_calls" \/ u.calls # <<>> THEN "tool_calls" ELSE e.tag

\* A call has the number it states, or else its position in its chunk.
OllamaIndex(e) == CASE e.tag = "numbered" -> e.id - 1
                    [] e.tag = "next" -> 1
                    [] OTHER -> 0

FromOllama(e, u) ==
    CASE e.k = "text" -> Step(u, <<Text(e.ps)>>)
      [] e.k = "thought" -> Step(u, <<Thought(e.ps)>>)
      [] e.k = "call" -> Step([u EXCEPT !.calls = Append(@, e.id)],
                              <<Call(OllamaIndex(e), TRUE, e.ps)>>)
      [] e.k = "done" -> Step([u EXCEPT !.finish = OllamaFinish(e, u)],
                              <<Finish(OllamaFinish(e, u))>>)
      [] OTHER -> Nothing(u)

CommandCodeToolStart(e, u) ==
    LET calls == Seen(u, e.id)
    IN  Step([u EXCEPT !.calls = calls], <<Call(IndexOf(calls, e.id), TRUE, <<>>)>>)

CommandCodeToolDelta(e, u) ==
    IF Knows(u, e.id) THEN Step(u, <<Call(IndexOf(u.calls, e.id), FALSE, e.ps)>>)
                      ELSE Nothing(u)

CommandCodeToolCall(e, u) ==
    IF Knows(u, e.id) THEN Nothing(u)
    ELSE Step([u EXCEPT !.calls = Append(@, e.id)], <<Call(Len(u.calls), TRUE, e.ps)>>)

CommandCodeFinish(e, u) ==
    Step(u, <<Finish(IF u.finish # "none" THEN u.finish ELSE e.tag)>>)

CommandCodeError(u) ==
    Step([u EXCEPT !.finish = "stop"], <<Text(<<Failure>>), Finish("stop")>>)

FromCommandCode(e, u) ==
    CASE e.k = "text" -> Step(u, <<Text(e.ps)>>)
      [] e.k = "thought" -> Step(u, <<Thought(e.ps)>>)
      [] e.k = "open" -> CommandCodeToolStart(e, u)
      [] e.k = "args" -> CommandCodeToolDelta(e, u)
      [] e.k = "call" -> CommandCodeToolCall(e, u)
      [] e.k = "finish_step" -> Nothing([u EXCEPT !.finish = e.tag])
      [] e.k = "finish" -> CommandCodeFinish(e, u)
      [] e.k = "error" -> CommandCodeError(u)
      [] OTHER -> Nothing(u)

\* Mutant: the whole message is sent again after its tokens.
GrokMessageAgain(e, u) ==
    Step([u EXCEPT !.answered = TRUE], <<Text(e.ps)>>)

\* A whole message repeats the answer: only what is beyond the tokens is new,
\* except on a thinking mode, where the tokens were reasoning.
GrokMessage(e, u) ==
    LET rest == SubSeq(e.ps, u.emitted + 1, Len(e.ps))
        v == [u EXCEPT !.answered = TRUE]
    IN  IF u.thinking THEN Step(v, <<Text(e.ps)>>)
        ELSE IF rest = <<>> THEN Nothing(v)
        ELSE Step([v EXCEPT !.emitted = @ + Len(rest)], <<Text(rest)>>)

GrokToken(e, u) ==
    IF u.thinking /\ ~u.answered THEN Step(u, <<Thought(e.ps)>>)
    ELSE Step([u EXCEPT !.emitted = @ + Len(e.ps)], <<Text(e.ps)>>)

\* An error inside the stream: content and a finish reason in one chunk.
FailAndStop(u) ==
    Step([u EXCEPT !.finish = "stop"], <<Chunk(<<Failure>>, <<>>, <<>>, "stop")>>)

FromGrok(e, u) ==
    CASE e.k = "error" -> FailAndStop(u)
      [] e.k = "whole" -> GrokMessage(e, u)
      [] e.k \in {"text", "thought"} -> GrokToken(e, u)
      [] OTHER -> Nothing(u)

\* Perplexity repeats the answer so far on every event.
PerplexityAdvance(e, u) ==
    IF Len(e.ps) <= u.emitted THEN Nothing(u)
    ELSE Step([u EXCEPT !.emitted = Len(e.ps)],
              <<Text(SubSeq(e.ps, u.emitted + 1, Len(e.ps)))>>)

PerplexityReasoning(e, u) ==
    IF e.ps \in u.seen THEN Nothing(u)
    ELSE Step([u EXCEPT !.seen = @ \cup {e.ps}], <<Thought(e.ps)>>)

FromPerplexity(e, u) ==
    CASE e.k = "error" -> FailAndStop(u)
      [] e.k = "text" -> PerplexityAdvance(e, u)
      [] e.k = "thought" -> PerplexityReasoning(e, u)
      [] OTHER -> Nothing(u)

---------------------------------------------------------------------------
(* Binary protocols: Kiro and Cursor frames, decoded to OpenAI chunks.  A  *)
(* tool call may come in fragments, each under the call's id.              *)

Opened(u) == [u EXCEPT !.started = TRUE]

BinaryCall(e, u) ==
    LET calls == Seen(u, e.id)
    IN  Step([u EXCEPT !.calls = calls, !.started = TRUE],
             <<Call(IndexOf(calls, e.id), TRUE, e.ps)>>)

BinaryFinish(u) ==
    Step([u EXCEPT !.started = TRUE, !.sent = TRUE],
         (IF u.started THEN <<>> ELSE <<Role>>)
            \o <<Finish(IF u.calls = <<>> THEN "stop" ELSE "tool_calls")>>)

\* Only Kiro's decoder remembers that it has finished.
KiroFinish(u) == IF u.sent THEN Nothing(u) ELSE BinaryFinish(u)
CursorFinish(u) == BinaryFinish(u)

FromKiro(e, u) ==
    CASE e.k = "text" -> Step(Opened(u), <<Text(e.ps)>>)
      [] e.k = "thought" -> Step(Opened(u), <<Thought(e.ps)>>)
      [] e.k = "call" -> BinaryCall(e, u)
      [] e.k = "stop" -> KiroFinish(u)
      [] OTHER -> Nothing(u)

\* What a composer model answers: all that follows the last mark in its thinking.
VisibleAfterThink(ps) ==
    LET marks == {i \in DOMAIN ps : ps[i] = CloseTag}
    IN  IF marks = {} THEN <<>> ELSE SubSeq(ps, Max(marks) + 1, Len(ps))

\* A composer model's thinking: only what is new of its answer is passed on.
ComposerThinking(e, u) ==
    LET all == u.embedded \o (IF e.k = "mark" THEN <<CloseTag>> ELSE e.ps)
        visible == VisibleAfterThink(all)
        rest == SubSeq(visible, u.emitted + 1, Len(visible))
        v == [u EXCEPT !.embedded = all]
    IN  IF rest = <<>> THEN Nothing(v)
        ELSE Step([Opened(v) EXCEPT !.emitted = Len(visible)], <<Text(rest)>>)

FromCursor(e, u) ==
    CASE e.k = "text" -> Step(Opened(u), <<Text(e.ps)>>)
      [] e.k \in {"thought", "mark", "embedded"} ->
            IF u.thinking THEN ComposerThinking(e, u)
                          ELSE Step(Opened(u), <<Thought(e.ps)>>)
      [] e.k = "call" ->
            Step(BinaryCall(e, u).u,
                 (IF u.started THEN <<>> ELSE <<Role>>) \o BinaryCall(e, u).out)
      [] e.k = "stop" -> CursorFinish(u)
      [] OTHER -> Nothing(u)

---------------------------------------------------------------------------
(* To a Claude client.  c.out collects the frames of one chunk. *)

Frame(t, id, kind, ps) == [t |-> t, id |-> id, kind |-> kind, ps |-> ps]
Emit(c, t, id, kind, ps) == [c EXCEPT !.out = Append(@, Frame(t, id, kind, ps))]

NewClaude ==
    [sent |-> FALSE,       \* message_start_sent
     next |-> 0,           \* next_block_index
     thought |-> Unset,    \* thinking_block_index, while started
     text |-> Unset,       \* text_block_index, while started
     calls |-> <<>>,       \* claude_tool_calls and tool_arg_buffers
     out |-> <<>>]

MessageStart(c) ==
    IF c.sent THEN c ELSE [Emit(c, "message_start", 0, "none", <<>>) EXCEPT !.sent = TRUE]

StopThinkingBlock(c) ==
    IF c.thought = Unset THEN c
    ELSE [Emit(c, "block_stop", c.thought, "thought", <<>>) EXCEPT !.thought = Unset]

\* Mutant: text_block_started is not reset.
StopTextBlockKept(c) ==
    IF c.text = Unset THEN c ELSE Emit(c, "block_stop", c.text, "text", <<>>)

StopTextBlock(c) ==
    IF c.text = Unset THEN c
    ELSE [Emit(c, "block_stop", c.text, "text", <<>>) EXCEPT !.text = Unset]

StartThinkingBlock(c) ==
    IF c.thought # Unset THEN c
    ELSE [Emit(c, "block_start", c.next, "thought", <<>>)
            EXCEPT !.thought = c.next, !.next = @ + 1]

StartTextBlock(c) ==
    IF c.text # Unset THEN c
    ELSE [Emit(c, "block_start", c.next, "text", <<>>)
            EXCEPT !.text = c.next, !.next = @ + 1]

ClaudeThought(c, ps) ==
    IF ps = <<>> THEN c
    ELSE LET d == StartThinkingBlock(StopTextBlock(c))
         IN  Emit(d, "block_delta", d.thought, "thought", ps)

ClaudeText(c, ps) ==
    IF ps = <<>> THEN c
    ELSE LET d == StartTextBlock(StopThinkingBlock(c))
         IN  Emit(d, "block_delta", d.text, "text", ps)

HasCall(c, index) == \E i \in DOMAIN c.calls : c.calls[i].index = index

\* A call's fragments are gathered under its index.
AddPieces(calls, call) ==
    [i \in DOMAIN calls |-> IF calls[i].index = call.index
                            THEN [calls[i] EXCEPT !.ps = @ \o call.ps] ELSE calls[i]]

\* A call opens one block; its arguments wait for the finish.
ClaudeToolCall(c, call) ==
    LET d == StopTextBlock(StopThinkingBlock(c))
        opened == IF call.opens /\ ~HasCall(c, call.index)
                  THEN [Emit(d, "block_start", d.next, "call", <<>>)
                          EXCEPT !.next = @ + 1,
                                 !.calls = Append(@, [index |-> call.index,
                                                      block |-> d.next, ps |-> <<>>])]
                  ELSE c
    IN  [opened EXCEPT !.calls = AddPieces(opened.calls, call)]

\* The arguments and the end of one call's block.
CloseClaudeCall(c, call) ==
    Emit(IF call.ps = <<>> THEN c ELSE Emit(c, "block_delta", call.block, "call", call.ps),
         "block_stop", call.block, "call", <<>>)

ClaudeFinish(c, reason) ==
    IF reason = "none" THEN c
    ELSE LET closed == FoldLeft(CloseClaudeCall, StopTextBlock(StopThinkingBlock(c)), c.calls)
         IN  Emit(Emit(closed, "message_delta", 0, reason, <<>>),
                  "message_stop", 0, "none", <<>>)

ToClaude(c, chunk) ==
    ClaudeFinish(
        FoldLeft(ClaudeToolCall,
                 ClaudeText(ClaudeThought(MessageStart(c), chunk.thought), chunk.text),
                 chunk.calls),
        chunk.finish)

---------------------------------------------------------------------------
(* To a client of the Responses API.  An item is its kind and output index; *)
(* the added and done events of an item and of its part are one frame.      *)

NewResponses ==
    [started |-> FALSE, completed |-> FALSE,
     added |-> {},       \* message_items_added, reasoning_item_added, function_...
     done |-> {},        \* message_items_done, reasoning_item_done, function_...
     text |-> <<>>,      \* message_text
     thought |-> <<>>,   \* reasoning_buffer
     args |-> <<>>,      \* function_arguments, a map from a call's index
     out |-> <<>>]

ResponsesStart(r) ==
    IF r.started THEN r ELSE [Emit(r, "created", 0, "none", <<>>) EXCEPT !.started = TRUE]

AddItem(r, kind, id) ==
    IF <<kind, id>> \in r.added THEN r
    ELSE [Emit(r, "added", id, kind, <<>>) EXCEPT !.added = @ \cup {<<kind, id>>}]

DoneItem(r, kind, id, ps) ==
    IF <<kind, id>> \notin r.added \/ <<kind, id>> \in r.done THEN r
    ELSE [Emit(r, "done", id, kind, ps) EXCEPT !.done = @ \cup {<<kind, id>>}]

CloseReasoning(r) == DoneItem(r, "thought", 0, r.thought)
CloseMessage(r) == DoneItem(r, "text", 0, r.text)

ResponsesThought(r, ps) ==
    IF ps = <<>> THEN r
    ELSE [Emit(AddItem(r, "thought", 0), "delta", 0, "thought", ps)
            EXCEPT !.thought = @ \o ps]

ResponsesText(r, ps) ==
    IF ps = <<>> THEN r
    ELSE [Emit(AddItem(CloseReasoning(r), "text", 0), "delta", 0, "text", ps)
            EXCEPT !.text = @ \o ps]

ArgsOf(r, index) == IF index \in DOMAIN r.args THEN r.args[index] ELSE <<>>

ResponsesToolCall(r, call) ==
    LET added == IF <<"call", call.index>> \in r.added THEN r
                 ELSE AddItem(CloseMessage(r), "call", call.index)
    IN  IF call.ps = <<>> THEN added
        ELSE [Emit(added, "delta", call.index, "call", call.ps)
                EXCEPT !.args = [i \in DOMAIN r.args \cup {call.index} |->
                                    ArgsOf(r, i) \o (IF i = call.index THEN call.ps ELSE <<>>)]]

CloseToolCall(r, index) == DoneItem(r, "call", index, ArgsOf(r, index))

\* The calls are closed in the order of their output indices.
CloseToolCalls(r) ==
    MapThenFoldSet(LAMBDA index, q : CloseToolCall(q, index), r, LAMBDA index : index, Max,
                   {item[2] : item \in {added \in r.added : added[1] = "call"}})

ResponsesFlush(r) ==
    IF r.completed \/ ~r.started THEN r
    ELSE [Emit(CloseToolCalls(CloseReasoning(CloseMessage(r))), "completed", 0, "none", <<>>)
            EXCEPT !.completed = TRUE]

ToResponses(r, chunk) ==
    LET said == FoldLeft(ResponsesToolCall,
                         ResponsesText(ResponsesThought(ResponsesStart(r), chunk.thought),
                                       chunk.text),
                         chunk.calls)
    IN  IF chunk.finish = "none" THEN said ELSE ResponsesFlush(said)

---------------------------------------------------------------------------
(* To one JSON body: collapse_stream_to_json and merge_tool_calls. *)

NewJson == [text |-> <<>>, thought |-> <<>>, calls |-> <<>>, finish |-> "none",
            out |-> <<>>]

MergeToolCall(j, call) ==
    IF HasCall(j, call.index)
    THEN [j EXCEPT !.calls = AddPieces(j.calls, call)]
    ELSE [j EXCEPT !.calls = Append(@, [index |-> call.index, ps |-> call.ps])]

ToJson(j, chunk) ==
    [FoldLeft(MergeToolCall, j, chunk.calls)
        EXCEPT !.text = @ \o chunk.text, !.thought = @ \o chunk.thought,
               !.finish = IF chunk.finish = "none" THEN @ ELSE chunk.finish]

JsonBody(j) ==
    [t |-> "body", text |-> j.text, thought |-> j.thought, calls |-> j.calls,
     finish |-> IF j.finish # "none" THEN j.finish
                ELSE IF j.calls = <<>> THEN "stop" ELSE "tool_calls"]
=============================================================================
