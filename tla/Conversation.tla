---------------------------- MODULE Conversation ----------------------------
(***************************************************************************)
(* A conversation carried between formats: translate_request and           *)
(* translate_body of crates/translate.  A client keeps the conversation and *)
(* sends all of it with every request; the runtime takes it into OpenAI's   *)
(* format and from there into the provider's, and brings the answer back.   *)
(*                                                                         *)
(* A block is a piece of a conversation: a text, an image held in the       *)
(* request, a link to one, a call of a tool, the result of a call (blank if  *)
(* it is empty).  Texts and pictures are numbered by the turn they are said  *)
(* in, calls by their order, and a result carries the number of the call it  *)
(* is truly the result of, so that a block lost, moved, or given to another  *)
(* call shows.  Reasoning, tool definitions and sampling are left out.       *)
(*                                                                         *)
(* What clients and providers send and accept is external: it is their own   *)
(* formats.                                                                *)
(***************************************************************************)
EXTENDS Integers, Sequences, SequencesExt, FiniteSets

CONSTANTS
    Habits,    \* per route, what its client and its provider may do
    MaxTurns   \* bound on the turns of a conversation

ASSUME TalkAssumption == MaxTurns \in Nat

VARIABLES
    route,     \* the two formats and whether the model is blind; NoRoute at first
    history,   \* the conversation as the client has it
    answer     \* the last answer, and what the client read of it

talkVars == <<route, history, answer>>

NoRoute == [client |-> "none", provider |-> "none", blind |-> FALSE]
NoAnswer == [blocks |-> <<>>, reason |-> "none", read |-> <<>>, told |-> "none"]

Does(habit) == habit \in Habits[<<route.client, route.provider>>]

---------------------------------------------------------------------------
(* Blocks and messages. *)

Block(kind, n) == [kind |-> kind, n |-> n, id |-> <<>>, tool |-> "none"]
CallOf(n, tool, id) == [kind |-> "call", n |-> n, id |-> id, tool |-> tool]
ResultOf(call, kind) == [call EXCEPT !.kind = kind]
Message(role, blocks) == [role |-> role, blocks |-> blocks]

OfKind(blocks, kinds) == SelectSeq(blocks, LAMBDA b : b.kind \in kinds)
Content == {"text", "image", "link"}
Results == {"result", "blank", "missing"}
Parts(m) == OfKind(m.blocks, Content)
CallsOf(m) == OfKind(m.blocks, {"call"})
ResultsOf(m) == OfKind(m.blocks, Results)
Holds(m, kinds) == OfKind(m.blocks, kinds) # <<>>

\* A message unless it is empty.
Unless(m) == IF m.blocks = <<>> THEN <<>> ELSE <<m>>

\* Neighbours of one role become one message.
Joined(ms) ==
    FoldLeft(LAMBDA out, m :
                 IF out # <<>> /\ Last(out).role = m.role
                 THEN [out EXCEPT ![Len(out)].blocks = @ \o m.blocks]
                 ELSE Append(out, m),
             <<>>, ms)

---------------------------------------------------------------------------
(* What a client sends.  The first turn, if it is the system's, has a place  *)
(* of its own in every format but OpenAI's.                                 *)

Items(t) ==
    IF t.role \in {"assistant", "results"}
    THEN [i \in DOMAIN t.blocks |->
             Message(IF t.blocks[i].kind \in Content THEN t.role ELSE t.blocks[i].kind,
                     <<t.blocks[i]>>)]
    ELSE <<t>>

SpokenTurn(i) ==
    LET t == history[i]
    IN  CASE t.role = "system" /\ i = 1 /\ route.client # "openai" ->
                <<Message("instructions", t.blocks)>>
          [] route.client = "openai" /\ t.role = "results" ->
                [j \in DOMAIN t.blocks |-> Message("tool", <<t.blocks[j]>>)]
          [] route.client \in {"claude", "gemini"} /\ t.role = "results" ->
                <<Message("user", t.blocks)>>
          [] route.client = "responses" -> Items(t)
          [] OTHER -> <<t>>

Spoken == FlattenSeq([i \in DOMAIN history |-> SpokenTurn(i)])

---------------------------------------------------------------------------
(* Into OpenAI's format. *)

\* convert_content_blocks: results come first, as messages of their own; the rest
\* of such a message follows as the user's.  Linked images are not carried.
ClaudeBlocks(m) ==
    LET parts == OfKind(m.blocks, {"text", "image"})
        results == [i \in DOMAIN ResultsOf(m) |-> Message("tool", <<ResultsOf(m)[i]>>)]
    IN  IF results # <<>> THEN results \o Unless(Message("user", parts))
        ELSE IF CallsOf(m) # <<>> THEN <<Message("assistant", parts \o CallsOf(m))>>
        ELSE IF m.blocks = <<>> THEN <<m>>
        ELSE Unless(Message(m.role, parts))

\* A system message inside the conversation becomes the user's.
ClaudeMessage(m) ==
    CASE m.role = "instructions" -> <<Message("system", m.blocks)>>
      [] m.role = "system" -> <<Message("user", m.blocks)>>
      [] OTHER -> ClaudeBlocks(m)

\* The calls of ms[i] that the tool messages right after it do not answer.
RunEnd(ms, i) ==
    CHOOSE k \in i..Len(ms) : /\ \A j \in (i + 1)..k : ms[j].role = "tool"
                              /\ k < Len(ms) => ms[k + 1].role # "tool"
Unanswered(ms, i) ==
    SelectSeq(CallsOf(ms[i]),
              LAMBDA c : \A j \in (i + 1)..RunEnd(ms, i) : ms[j].blocks[1].id # c.id)

\* Mutant: the client's conversation is taken as complete.
FixNothing(ms) == ms

\* fix_missing_tool_responses: placeholders at the end of that run.
FixMissing(ms) ==
    FlattenSeq([k \in DOMAIN ms |-> <<ms[k]>> \o FlattenSeq(
        [i \in 1..k |->
            IF RunEnd(ms, i) = k /\ ms[i].role = "assistant"
            THEN [j \in DOMAIN Unanswered(ms, i) |->
                     Message("tool", <<ResultOf(Unanswered(ms, i)[j], "missing")>>)]
            ELSE <<>>])])

FromClaudeClient(said) ==
    FixMissing(FlattenSeq([i \in DOMAIN said |-> ClaudeMessage(said[i])]))

\* Gemini has no ids for calls: one is made of the name.
NameId(b) == [b EXCEPT !.id = IF @ = <<>> THEN <<b.tool>> ELSE @]

\* convert_content: the first result makes a tool message of the whole content.
GeminiContent(m) ==
    LET parts == OfKind(m.blocks, {"text", "image"})
        calls == [i \in DOMAIN CallsOf(m) |-> NameId(CallsOf(m)[i])]
    IN  CASE m.role = "instructions" -> <<Message("system", m.blocks)>>
          [] Holds(m, Results) -> <<Message("tool", <<NameId(Head(ResultsOf(m)))>>)>>
          [] calls # <<>> -> <<Message("assistant", parts \o calls)>>
          [] OTHER -> Unless(Message(m.role, parts))

FromGeminiClient(said) == FlattenSeq([i \in DOMAIN said |-> GeminiContent(said[i])])

\* Mutant: every call opens a turn of its own.
ResponsesItemAlone(st, item) ==
    [out |-> Append(st.out, Message(CASE item.role = "call" -> "assistant"
                                      [] item.role \in Results -> "tool"
                                      [] item.role = "instructions" -> "system"
                                      [] OTHER -> item.role, item.blocks)),
     calls |-> <<>>]

\* One item of a Responses input: calls gather in a turn that the next message or
\* output ends.
ResponsesItem(st, item) ==
    LET closed == st.out \o Unless(Message("assistant", st.calls))
    IN  CASE item.role = "call" -> [st EXCEPT !.calls = @ \o item.blocks]
          [] item.role \in Results ->
                [out |-> Append(closed, Message("tool", item.blocks)), calls |-> <<>>]
          [] OTHER ->
                [out |-> Append(closed, Message(IF item.role = "instructions" THEN "system"
                                                ELSE item.role, item.blocks)),
                 calls |-> <<>>]

FromResponsesClient(said) ==
    LET st == FoldLeft(ResponsesItem, [out |-> <<>>, calls |-> <<>>], said)
    IN  st.out \o Unless(Message("assistant", st.calls))

Pivot ==
    CASE route.client = "claude" -> FromClaudeClient(Spoken)
      [] route.client = "gemini" -> FromGeminiClient(Spoken)
      [] route.client = "responses" -> FromResponsesClient(Spoken)
      [] OTHER -> Spoken

---------------------------------------------------------------------------
(* From OpenAI's format into the provider's: its instructions, its messages. *)

Body(system, messages) == [system |-> system, messages |-> messages]
Systems(ms) == SelectSeq(ms, LAMBDA m : m.role = "system")

\* content_blocks: what Claude is given of a message; nothing of a developer's.
ContentBlocks(m) ==
    CASE m.role = "tool" -> m.blocks
      [] m.role = "user" -> OfKind(m.blocks, Content)
      [] m.role = "assistant" -> OfKind(m.blocks, {"text", "call"})
      [] OTHER -> <<>>

\* merge_messages and its flush: parts gather while the side is the same; calls
\* end a message, results are one of their own.
Flushed(st) == st.out \o Unless(Message(st.role, st.parts))

\* Mutant: a result waits with what the user says.
MergeLate(st, m) ==
    LET role == IF m.role \in {"user", "tool"} THEN "user" ELSE "assistant"
        same == IF st.role = role THEN st ELSE [out |-> Flushed(st), role |-> role, parts |-> <<>>]
    IN  [same EXCEPT !.parts = IF m.role = "user" THEN ContentBlocks(m) \o @
                               ELSE @ \o ContentBlocks(m)]

MergeMessage(st, m) ==
    LET role == IF m.role \in {"user", "tool"} THEN "user" ELSE "assistant"
        same == IF st.role = role THEN st ELSE [out |-> Flushed(st), role |-> role, parts |-> <<>>]
        more == [same EXCEPT !.parts = @ \o ContentBlocks(m)]
    IN  CASE Holds(m, Results) ->
                [out |-> Append(Flushed(st), Message("user", ContentBlocks(m))),
                 role |-> st.role, parts |-> <<>>]
          [] Holds(m, {"call"}) -> [more EXCEPT !.out = Flushed(more), !.parts = <<>>]
          [] OTHER -> more

ForClaude(ms) ==
    LET rest == SelectSeq(ms, LAMBDA m : m.role # "system")
        st == FoldLeft(MergeMessage, [out |-> <<>>, role |-> "none", parts |-> <<>>], rest)
    IN  Body(FlattenSeq([i \in DOMAIN Systems(ms) |-> Systems(ms)[i].blocks]), Flushed(st))

\* sanitize_function_name: a name that begins with a digit is changed.
Sanitized(tool) == IF tool = "7z" THEN "_7z" ELSE tool
Renamed(b) == [b EXCEPT !.tool = Sanitized(@)]

\* tool_responses: the last tool message of every id.
ReplyTo(ms, id) ==
    LET of == {j \in DOMAIN ms : ms[j].role = "tool" /\ ms[j].blocks[1].id = id}
    IN  IF of = {} THEN <<>> ELSE <<ms[CHOOSE j \in of : \A k \in of : k <= j].blocks[1]>>

\* push_assistant_content: the calls, and behind them whatever answers them.
GeminiTurn(ms, m) ==
    LET said == OfKind(m.blocks, {"text"})
        calls == [i \in DOMAIN CallsOf(m) |-> Renamed(CallsOf(m)[i])]
        replies == FlattenSeq([i \in DOMAIN calls |-> ReplyTo(ms, calls[i].id)])
        named == [i \in DOMAIN replies |-> Renamed(replies[i])]
    IN  Unless(Message("assistant", said \o calls)) \o Unless(Message("user", named))

\* openai_to_gemini: of several system messages the last remains, a lone one is
\* the user's, tool messages are found again behind their calls.
ForGemini(ms) ==
    LET alone == Len(ms) = 1
    IN  Body(IF alone \/ Systems(ms) = <<>> THEN <<>> ELSE Last(Systems(ms)).blocks,
             Joined(FlattenSeq([i \in DOMAIN ms |->
                 CASE ms[i].role = "user" \/ (ms[i].role = "system" /\ alone) ->
                         Unless(Message("user", Parts(ms[i])))
                   [] ms[i].role = "assistant" -> GeminiTurn(ms, ms[i])
                   [] OTHER -> <<>>])))

\* normalize_messages: linked images, blank results and turns left empty are
\* dropped; a result is known by the name of its tool.
Named(blocks) == [i \in DOMAIN blocks |-> [blocks[i] EXCEPT !.id = <<>>]]

OllamaMessage(m) ==
    CASE m.role = "tool" -> Unless(Message("tool", Named(OfKind(m.blocks, {"result", "missing"}))))
      [] m.role = "assistant" -> <<Message("assistant", Named(OfKind(m.blocks, {"text", "call"})))>>
      [] OTHER -> Unless(Message(m.role, OfKind(m.blocks, {"text", "image"})))

ForOllama(ms) == Body(<<>>, FlattenSeq([i \in DOMAIN ms |-> OllamaMessage(ms[i])]))

\* strip_content: a picture goes, a note of it is added at the end.
Stripped(m, kinds) ==
    LET gone == OfKind(m.blocks, kinds)
    IN  [m EXCEPT !.blocks = SelectSeq(@, LAMBDA b : b.kind \notin kinds)
                             \o [i \in DOMAIN gone |-> Block("omitted", gone[i].n)]]

\* Mutant: a picture goes without a note.
StripSilently(body) ==
    IF ~route.blind THEN body
    ELSE [body EXCEPT !.messages =
             [i \in DOMAIN @ |-> Message(@[i].role, OfKind(@[i].blocks, {"text", "call"} \cup Results))]]

\* strip_unsupported_modalities, on the body in the provider's format: Gemini's
\* own spelling of an image's type is not the one looked for, and Ollama's
\* images are not where they are looked for.
Strip(body) ==
    LET kinds == CASE route.provider \in {"openai", "commandcode", "claude"} -> {"image", "link"}
                   [] route.provider = "gemini" -> {"link"}
                   [] OTHER -> {}
    IN  IF ~route.blind THEN body
        ELSE [body EXCEPT !.messages = [i \in DOMAIN @ |-> Stripped(@[i], kinds)]]

\* translate_request; a body already in the provider's format is not touched.
Told ==
    CASE route.client = route.provider -> Body(<<>>, Spoken)
      [] route.provider = "claude" -> Strip(ForClaude(Pivot))
      [] route.provider = "gemini" -> Strip(ForGemini(Pivot))
      [] route.provider = "ollama" -> Strip(ForOllama(Pivot))
      [] OTHER -> Strip(Body(<<>>, Pivot))

---------------------------------------------------------------------------
(* An answer on its way back, when the client asked for no stream. *)

\* Mutant: Gemini's and Ollama's own reason, which is an ordinary stop.
PivotAsStated(reason) ==
    CASE reason = "calls" -> IF route.provider = "claude" THEN "tool_calls" ELSE "stop"
      [] reason = "cut" -> IF route.provider \in {"claude", "gemini"} THEN "max_tokens" ELSE "length"
      [] OTHER -> "stop"

\* finish in claude_body_to_openai and gemini_body_to_openai: any reason but the
\* common ones is left as the provider spells it.
PivotReason(reason) ==
    CASE reason = "calls" -> "tool_calls"
      [] reason = "cut" -> IF route.provider \in {"claude", "gemini"} THEN "max_tokens" ELSE "length"
      [] OTHER -> "stop"

\* How a format spells a reason.
Spelled(format, reason) ==
    CASE reason = "calls" -> IF format = "claude" THEN "tool_use" ELSE "tool_calls"
      [] reason = "cut" -> IF format = "claude" THEN "max_tokens" ELSE "length"
      [] OTHER -> IF format = "claude" THEN "end_turn" ELSE "stop"

\* translate_body, with from_openai_finish for a Claude client.
ToldReason(reason) ==
    CASE route.client = route.provider -> Spelled(route.client, reason)
      [] route.client # "claude" -> PivotReason(reason)
      [] PivotReason(reason) = "tool_calls" -> "tool_use"
      [] PivotReason(reason) = "length" -> "max_tokens"
      [] OTHER -> "end_turn"

\* Ids are the provider's, or made to be unique; a Gemini client keeps none.
ReadBlocks(blocks) ==
    [i \in DOMAIN blocks |->
        IF blocks[i].kind # "call" \/ route.client = "gemini" THEN blocks[i]
        ELSE [blocks[i] EXCEPT !.id = <<blocks[i].n>>]]

---------------------------------------------------------------------------
(* The conversation. *)

CallsMade == FlattenSeq([i \in DOMAIN history |-> CallsOf(history[i])])
LastRole == IF history = <<>> THEN "none" ELSE Last(history).role
Here == Len(history) + 1
Turn(role, blocks) == history' = Append(history, Message(role, blocks))
Talking == route # NoRoute /\ Len(history) < MaxTurns

TalkInit == route = NoRoute /\ history = <<>> /\ answer = NoAnswer

Connect ==
    /\ route = NoRoute
    /\ \E pair \in DOMAIN Habits, blind \in BOOLEAN :
          /\ blind => "blind" \in Habits[pair]
          /\ route' = [client |-> pair[1], provider |-> pair[2], blind |-> blind]
    /\ UNCHANGED <<history, answer>>

SystemSpeaks ==
    /\ Talking
    /\ \/ history = <<>>
       \/ LastRole \in {"user", "assistant"} /\ CallsOf(Last(history)) = <<>> /\ Does("late system")
    /\ \E role \in IF Does("developer") THEN {"system", "developer"} ELSE {"system"} :
          Turn(role, <<Block("text", Here)>>)
    /\ answer' = NoAnswer
    /\ UNCHANGED route

Pictures == {<<>>, <<Block("image", Here)>>}
               \cup (IF Does("link") THEN {<<Block("link", Here)>>} ELSE {})

\* A user may speak again before an answer, as after one that failed.
UserSpeaks ==
    /\ Talking
    /\ LastRole = "assistant" => CallsOf(Last(history)) = <<>>
    /\ \E pictures \in Pictures : Turn("user", <<Block("text", Here)>> \o pictures)
    /\ answer' = NoAnswer
    /\ UNCHANGED route

\* What a provider may answer: words, calls, or nothing.
ToolsCalled ==
    {<<>>, <<"grep">>}
        \cup (IF Does("parallel") THEN {<<"grep", "sed">>} ELSE {})
        \cup (IF Does("twin calls") THEN {<<"grep", "grep">>} ELSE {})
        \cup (IF Does("digit") THEN {<<"7z">>} ELSE {})
Callable(tools) ==
    \A i \in DOMAIN tools, j \in DOMAIN CallsMade :
        tools[i] = CallsMade[j].tool => Does("same tool again")
NameHeard(tool) ==
    IF route.provider = "gemini" /\ route.client # "gemini" THEN Sanitized(tool) ELSE tool

ProviderAnswers ==
    /\ Talking
    /\ LastRole \in {"user", "results"}
    /\ \E tools \in ToolsCalled, words \in BOOLEAN :
          /\ Callable(tools)
          /\ \E reason \in IF tools # <<>> THEN {"calls"}
                           ELSE IF Does("cut") THEN {"stop", "cut"} ELSE {"stop"} :
                LET blocks == (IF words THEN <<Block("text", Here)>> ELSE <<>>)
                              \o [i \in DOMAIN tools |->
                                     CallOf(Len(CallsMade) + i, NameHeard(tools[i]), <<>>)]
                    read == ReadBlocks(blocks)
                IN  /\ Turn("assistant", read)
                    /\ answer' = [blocks |-> (IF words THEN <<Block("text", Here)>> ELSE <<>>)
                                             \o [i \in DOMAIN tools |->
                                                    CallOf(Len(CallsMade) + i, tools[i], <<>>)],
                                  reason |-> reason, read |-> read, told |-> ToldReason(reason)]
    /\ UNCHANGED route

Orders(calls) == {calls} \cup (IF Does("any order") THEN {Reverse(calls)} ELSE {})
Kinds == IF Does("blank") THEN {"result", "blank"} ELSE {"result"}

\* The client returns the results; a Claude client's may come with what its user
\* said meanwhile, and may be without those of calls it was interrupted in.
ToolsReturn ==
    /\ Talking
    /\ LastRole = "assistant" /\ CallsOf(Last(history)) # <<>>
    /\ \E calls \in Orders(CallsOf(Last(history))), kind \in Kinds, words \in BOOLEAN,
          done \in BOOLEAN :
          /\ words => route.client = "claude"
          /\ ~done => words /\ Does("interrupt")
          /\ Turn("results",
                  [i \in 1..(IF done THEN Len(calls) ELSE Len(calls) - 1) |->
                      ResultOf(calls[i], IF i = 1 THEN kind ELSE "result")]
                  \o (IF words THEN <<Block("text", Here)>> ELSE <<>>))
    /\ answer' = NoAnswer
    /\ UNCHANGED route

TalkNext == Connect \/ SystemSpeaks \/ UserSpeaks \/ ProviderAnswers \/ ToolsReturn

TalkSpec == TalkInit /\ [][TalkNext]_talkVars

---------------------------------------------------------------------------
(* What a request must carry. *)

Asking == LastRole \in {"user", "results"}
System == {i \in DOMAIN history : history[i].role \in {"system", "developer"}}

\* All blocks in order, with the side that says them.
Flat(ms) ==
    FlattenSeq([i \in DOMAIN ms |->
        [j \in DOMAIN ms[i].blocks |->
            [side |-> IF ms[i].role = "assistant" THEN "assistant" ELSE "user",
             block |-> ms[i].blocks[j]]]])

\* What is said, and by whom, without the results and the system's words.
Said(flat) ==
    LET kinds == {"text", "call"} \cup (IF route.blind THEN {} ELSE {"image", "link"})
        said == SelectSeq(flat, LAMBDA f : /\ f.block.kind \in kinds
                                           /\ f.block.kind = "text" => f.block.n \notin System)
    IN  [i \in DOMAIN said |-> <<said[i].side, said[i].block.kind, said[i].block.n, said[i].block.tool>>]

\* The call the p-th block is taken to be the result of: the last one with its id
\* or, without ids, the first call of its tool that no earlier result has.
CallFor(flat, p) ==
    LET b == flat[p].block
        calls == {q \in 1..(p - 1) : /\ flat[q].block.kind = "call"
                                     /\ flat[q].block.id = b.id
                                     /\ b.id = <<>> => flat[q].block.tool = b.tool}
        earlier == {q \in 1..(p - 1) : /\ flat[q].block.kind \in Results
                                       /\ flat[q].block.tool = b.tool}
        rank(q) == Cardinality({c \in calls : c < q})
        found == {q \in calls : IF b.id = <<>> THEN rank(q) = Cardinality(earlier)
                                ELSE \A c \in calls : c <= q}
    IN  IF found = {} THEN 0 ELSE flat[CHOOSE q \in found : TRUE].block.n

\* Every result: where it stands, what it is, and whose it is taken to be.
Given(flat) ==
    {<<Len(Said(SubSeq(flat, 1, p))), flat[p].block.kind, flat[p].block.n, CallFor(flat, p)>> :
        p \in {q \in DOMAIN flat : flat[q].block.kind \in {"result", "blank"}}}
Due(flat) ==
    {<<Len(Said(SubSeq(flat, 1, p))), flat[p].block.kind, flat[p].block.n, flat[p].block.n>> :
        p \in {q \in DOMAIN flat : flat[q].block.kind \in {"result", "blank"}}}

CountOf(flat, kinds) == Len(SelectSeq(flat, LAMBDA f : f.block.kind \in kinds))

\* The provider hears what was said: both sides' words, pictures and calls in
\* order and once, every result with the call it belongs to, and everything the
\* system said; a model that cannot see is told of every picture it is not shown.
ProviderHears(body) ==
    LET heard == Flat(body.messages)
        meant == Flat(history)
    IN  /\ Said(heard) = Said(meant)
        /\ Given(heard) = Due(meant)
        /\ CountOf(heard, {"result", "blank"}) = CountOf(meant, {"result", "blank"})
        /\ \A i \in System :
              \E b \in ToSet(body.system) \cup {heard[p].block : p \in DOMAIN heard} :
                  b.kind = "text" /\ b.n = i
        /\ route.blind =>
              /\ CountOf(heard, {"image", "link"}) = 0
              /\ CountOf(heard, {"omitted"}) = CountOf(meant, {"image", "link"})

\* The provider accepts the body: the results of a message's calls follow it at
\* once, all of them and nothing before them, and no others are there; Claude and
\* Gemini take no empty message, and Claude no id twice and no answer first.  A
\* body that is not translated is the client's own.
ProviderAccepts(body) ==
    LET ms == Joined(body.messages)
        After(i) == IF i < Len(ms) THEN ms[i + 1].blocks ELSE <<>>
        ids(blocks) == {b.id : b \in ToSet(blocks)}
        made == FlattenSeq([i \in DOMAIN ms |-> CallsOf(ms[i])])
    IN  /\ \A i \in DOMAIN ms :
              LET calls == CallsOf(ms[i])
                  results == OfKind(After(i), Results)
              IN  /\ Len(results) = Len(calls)
                  /\ \A j \in DOMAIN calls : After(i)[j].kind \in Results
                  /\ ids(results) = ids(calls)
        /\ ~Holds(Head(ms), Results)
        /\ route.provider \in {"claude", "gemini"} =>
              \A i \in DOMAIN body.messages : body.messages[i].blocks # <<>>
        /\ route.provider = "claude" =>
              /\ Head(ms).role = "user"
              /\ Cardinality(ids(made)) = Len(made)

\* The client reads the answer: the words and the calls, each call with an id of
\* its own and the name of the tool it knows, and why the answer ended.
AnswerIsRead ==
    answer # NoAnswer /\ route.client \in {"openai", "claude"} =>
        LET read == answer.read
            calls == OfKind(read, {"call"})
        IN  /\ [i \in DOMAIN read |-> [read[i] EXCEPT !.id = <<>>]] = answer.blocks
            /\ \A i, j \in DOMAIN CallsMade : CallsMade[i].id = CallsMade[j].id => i = j
            /\ answer.told = Spelled(route.client, answer.reason)

\* A conversation survives its translation, in both directions.
ConversationCarried ==
    /\ Asking =>
          LET body == Told
          IN  ProviderHears(body) /\ (route.client # route.provider => ProviderAccepts(body))
    /\ AnswerIsRead

TalkTypeOK ==
    /\ route = NoRoute \/ <<route.client, route.provider>> \in DOMAIN Habits
    /\ Len(history) <= MaxTurns
    /\ \A i \in DOMAIN history :
          history[i].role \in {"system", "developer", "user", "assistant", "results"}
    /\ answer # NoAnswer => LastRole = "assistant"
=============================================================================
