------------------------------ MODULE MCStream ------------------------------
(* Small instances of Stream: every pair of formats, short answers. *)
EXTENDS Stream

MCTargets == {"openai", "claude", "gemini", "ollama", "commandcode", "grok",
              "perplexity", "kiro", "cursor"}
MCSources == {"openai", "claude", "responses", "json"}
\* A Claude provider needs three events for a block of one piece; the two whose
\* calls come in fragments need one event more than the others.
MCMaxEvents == [t \in MCTargets |-> CASE t = "claude" -> 8
                                      [] t \in {"openai", "commandcode"} -> 5
                                      [] OTHER -> 4]
\* A tear in the first piece, or a later one of a format that repeats itself or
\* continues; none for CommandCode, which passes its pieces on as OpenAI does.
MCTornBy == [t \in MCTargets |-> CASE t = "claude" -> 3
                                   [] t = "commandcode" -> 0
                                   [] t \in {"grok", "perplexity", "cursor"} -> 2
                                   [] OTHER -> 1]
=============================================================================
