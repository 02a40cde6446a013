-------------------------- MODULE MCRuntimeService --------------------------
(* Two requests on a connection whose token rotates twice; two readers of a   *)
(* combo that is edited and edited back; a panel of three; three callers of   *)
(* the token saver, one with a body larger than a pipe; a conversation in any  *)
(* two formats.                                                              *)
EXTENDS RuntimeService, TLC

MCVersions == <<<<"a", "b">>, <<"b", "a", "c">>, <<"a", "b">>>>

Clients == {"openai", "claude", "gemini", "responses"}
Providers == {"openai", "claude", "gemini", "ollama", "commandcode"}

(* Command Code takes OpenAI's format, so it differs from openai for openai.    *)
Routes == {pair \in Clients \X Providers : pair[2] = "commandcode" => pair[1] = "openai"}

Everything ==
    {"late system", "developer", "link", "parallel", "twin calls", "same tool again",
     "any order", "blank", "digit", "cut", "interrupt", "blind"}

(* What a client's format cannot say, or says of its own accord.              *)
Foreign(from) ==
    (IF from \in {"claude", "gemini"} THEN {"developer"} ELSE {})
        \cup (IF from = "gemini" THEN {"late system"} ELSE {})
        \cup (IF from # "claude" THEN {"interrupt"} ELSE {})

(* What the code does not carry on a route: the README lists each.             *)
NotKept(from, to) ==
    (CASE from = "claude" -> {"link"}
       [] from = "gemini" -> {"link", "parallel", "twin calls"}
       [] OTHER -> {})
    \cup (CASE to = "claude" ->
                  {"developer", "cut"} \cup (IF from = "gemini" THEN {"same tool again"} ELSE {})
            [] to = "gemini" ->
                  {"developer", "digit", "cut", "blind"}
                      \cup (IF from = "claude" THEN {} ELSE {"late system"})
            [] to = "ollama" -> {"link", "blank", "twin calls", "blind"}
            [] OTHER -> {})

(* A request that stays in its format is not touched: no habit matters.        *)
MCHabits ==
    [pair \in Routes |->
        IF pair[1] = pair[2] THEN {}
        ELSE Everything \ (Foreign(pair[1]) \cup NotKept(pair[1], pair[2]))]
=============================================================================
