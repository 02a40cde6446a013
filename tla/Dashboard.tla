------------------------------ MODULE Dashboard ------------------------------
(***************************************************************************)
(* The dashboard as a user meets it: one page open, its list loaded, its   *)
(* dialogs and forms used, while others change the same list; on the chat  *)
(* page the conversation beside it; the sign-in through a provider before  *)
(* it; and the keys that are handed out there.                             *)
(*                                                                         *)
(* The last two share no variable with the page nor with each other: a     *)
(* behaviour is of one of the three, from the common start, and the state  *)
(* spaces are added instead of multiplied.                                 *)
(***************************************************************************)
EXTENDS DashboardPage, ChatPage, SignOn, ApiKeys

dashboardVars == <<pageVars, chatVars, signOnVars, keyVars>>

DashboardInit == PageInit /\ ChatInit /\ SignOnInit /\ KeysInit

\* There is one start on the chat page, which has no controls.
AtStart == page = "chat" /\ PageInit /\ ChatInit

PageTurn ==
    /\ SignOnInit /\ KeysInit /\ UNCHANGED <<signOnVars, keyVars>>
    /\ \/ PageNext /\ UNCHANGED chatVars
       \/ page = "chat" /\ ChatNext /\ UNCHANGED pageVars
SignOnTurn ==
    /\ AtStart /\ KeysInit /\ UNCHANGED <<pageVars, chatVars, keyVars>>
    /\ SignOnNext
KeysTurn ==
    /\ AtStart /\ SignOnInit /\ UNCHANGED <<pageVars, chatVars, signOnVars>>
    /\ KeysNext

DashboardNext == PageTurn \/ SignOnTurn \/ KeysTurn

DashboardSpec ==
    DashboardInit /\ [][DashboardNext]_dashboardVars /\ PageFairness /\ ChatFairness
-----------------------------------------------------------------------------
PageTypeOK ==
    /\ page \in DOMAIN Pages /\ list \in Pages[page].lists
    /\ used \subseteq {c.name : c \in Pages[page].controls}
    /\ shown.is \in {"loading", "failed", "ready"} /\ shown.version \in 0..db
    /\ loads \subseteq [asked : 1..asked, read : BOOLEAN, seen : 0..db]
    /\ open = Closed \/ (open.ctl \in used /\ open.row \in Rows \cup {NoRow})
    /\ {p.place.ctl : p \in prepared} \subseteq {c.name : c \in Pages[page].controls}
    /\ {db, drawn, opened, steps, heard, lastAsked} \subseteq Nat
    /\ overtaken \in BOOLEAN

ChatTypeOK ==
    /\ \A i \in DOMAIN messages : messages[i].role \in {"user", "assistant"}
    /\ generating \in BOOLEAN
    /\ turn \in 0..MaxTurns /\ clears \in 0..MaxClears

\* The variables of every part have their types.
DashboardTypeOK == PageTypeOK /\ ChatTypeOK /\ SignOnTypeOK /\ KeysTypeOK

\* A page that was told its write succeeded does not go on showing the list as
\* it was before: once its loads are in, the change is on screen. An answer
\* that is overtaken by an earlier one is the exception.
ScreenCatchesUp == loads = {} /\ Ready /\ ~overtaken => shown.version >= heard

\* What was typed stays until what it was typed for has succeeded, whatever is
\* refused, lost or redrawn elsewhere on the page. It goes with the list it is
\* drawn under, with a form or a dialog the user closes, and the token of the
\* named tunnel goes when it is sent.  A place is filled again once it is empty;
\* what is typed over it while its write is under way is one with what was sent.
TypedIsKept ==
    [][\A p \in prepared \ prepared' :
         LET c == Ctl(p.place.ctl) IN
         c.needs = "text" /\ c.name # "enable named tunnel" =>
             \/ \E w \in writes \ writes' : w.ctl = c.name /\ w.state = "accepted"
             \/ c.at = list /\ <<shown, drawn, asked>> # <<shown, drawn, asked>>'
             \/ c.takesBack
             \/ c.at = "asked" /\ open' = Closed]_dashboardVars

\* The page comes to rest: whatever is answered late, lost or cannot be read,
\* no list stays loading, no button stays held down and the composer of the
\* chat is free again. The flag of a pool's test is the exception.
PageSettles ==
    []<>(/\ writes = {} /\ shown.is # "loading"
         /\ {s \in busy : s.save # "testing"} = {}
         /\ ~generating)

\* An answer is written into the turn that asked for it, with what was said
\* until then and nothing of another conversation, one turn at a time; and a
\* bubble waits only while its turn is under way, whatever was cleared.
AnswerLandsInItsTurn ==
    /\ \A i \in DOMAIN messages :
          /\ messages[i].answer \in {0, messages[i].of}
          /\ messages[i].answer # 0 => messages[i].role = "assistant"
          /\ messages[i].is = "streaming" => \E t \in turns : t.n = messages[i].of
    /\ \A t \in turns :
          /\ t.sent # <<>>
          /\ Last(t.sent).of = t.n /\ Last(t.sent).role = "user"
    /\ Cardinality(turns) <= 1

\* The page shows what is: its list as the server has it once all is in, and
\* each answer of the chat in its own turn.
ShowsWhatIs == ScreenCatchesUp /\ AnswerLandsInItsTurn

\* The doc of run, "keeping the server's own sentence whichever way it went":
\* the answer for which the status is fetched again stays to be read.
TunnelAnswerIsShown ==
    [][page = "tunnel" =>
         \A w \in writes \ writes' : asked' # asked => w.line \in told']_dashboardVars
=============================================================================
