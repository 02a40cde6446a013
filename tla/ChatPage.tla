------------------------------ MODULE ChatPage ------------------------------
(* The chat of the dashboard (routes/chat.rs): one turn at a time, a        *)
(* transcript that can be cleared while a turn is under way, and bubbles    *)
(* named by their place in the transcript.                                  *)
EXTENDS Naturals, Sequences, SequencesExt, FiniteSets

CONSTANTS MaxTurns, MaxClears

VARIABLES
    messages,   \* the transcript
    generating, \* is_generating, which holds the composer down
    turns,      \* requests under way: the turn, the bubble to fill and what was sent
    turn,       \* turns begun
    clears

chatVars == <<messages, generating, turns, turn, clears>>

ChatInit == messages = <<>> /\ generating = FALSE /\ turns = {} /\ turn = 0 /\ clears = 0

Bubble(id, role, of, is) == [id |-> id, role |-> role, of |-> of, is |-> is, answer |-> 0]

(* append_turn: the ids are the places the two messages take. *)
Appended(n) ==
    messages \o <<Bubble(Len(messages), "user", n, "said"),
                  Bubble(Len(messages) + 1, "assistant", n, "streaming")>>

(* build_chat_request: what is finished, without error and not empty. *)
History(transcript) ==
    LET upTo[n \in 0..Len(transcript)] ==
            IF n = 0 THEN <<>>
            ELSE IF transcript[n].is \in {"said", "answered"}
                 THEN Append(upTo[n - 1], transcript[n])
                 ELSE upTo[n - 1]
    IN  upTo[Len(transcript)]

(* Chat's send_message. *)
SendMessage ==
    /\ ~generating /\ turn < MaxTurns
    /\ turn' = turn + 1
    /\ messages' = Appended(turn + 1)
    /\ generating' = TRUE
    /\ turns' = turns \cup {[n |-> turn + 1, bubble |-> Len(messages) + 1,
                             sent |-> History(messages')]}
    /\ UNCHANGED clears

\* Mutant: the composer is released with the transcript.
ClearConversationReleases ==
    /\ clears < MaxClears /\ clears' = clears + 1
    /\ messages' = <<>> /\ generating' = FALSE
    /\ UNCHANGED <<turns, turn>>

(* clear_conversation empties the transcript and leaves the turn running. *)
ClearConversation ==
    /\ clears < MaxClears /\ clears' = clears + 1
    /\ messages' = <<>>
    /\ UNCHANGED <<generating, turns, turn>>

(* dispatch_chat_turn: the composer is released and the bubble, looked up   *)
(* by its id, takes the answer or the error. A 200 may carry an error too.  *)
TurnEnds(t) ==
    /\ turns' = turns \ {t}
    /\ generating' = FALSE
    /\ \E is \in {"answered", "empty", "failed"} :
          messages' = [i \in DOMAIN messages |->
                          IF messages[i].id = t.bubble
                          THEN [messages[i] EXCEPT !.is = is, !.answer = t.n]
                          ELSE messages[i]]
    /\ UNCHANGED <<turn, clears>>

ChatNext == SendMessage \/ ClearConversation \/ \E t \in turns : TurnEnds(t)

(* The request ends, or the browser gives up on it. *)
ChatFairness == WF_chatVars(\E t \in turns : TurnEnds(t))
ChatSpec == ChatInit /\ [][ChatNext]_chatVars /\ ChatFairness
=============================================================================
