--------------------------- MODULE DashboardPage ---------------------------
(* A page of the dashboard (apps/dashboard-leptos): the lists it loads, the *)
(* controls that write, and what becomes of both while requests are under   *)
(* way. The components of a page are data (module DashboardPages); this     *)
(* module is what the browser does with them, api.rs and ui/page.rs.        *)
(*                                                                          *)
(* One list of the page is watched. A control drawn under another list is   *)
(* taken to stay drawn.                                                     *)
EXTENDS DashboardPages, Naturals, FiniteSets

CONSTANTS
    Rows,        \* rows of the list
    NoRow,
    MaxUsed,     \* controls the user touches
    MaxSteps     \* what the user does on the page, and others do to its list

ASSUME PageAssumption == NoRow \notin Rows

VARIABLES
    page,      \* the route that is open
    list,      \* its list that is watched
    used,      \* the controls the user touches
    db,        \* version of the list on the server
    shown,     \* the Hydrate signal: "loading", "failed" or "ready", and
               \* the version that was shown last
    drawn,     \* times the panel of the list was drawn
    loads,     \* GETs of the list under way
    asked,     \* GETs sent
    open,      \* the dialog on screen and its target
    opened,    \* dialogs opened
    prepared,  \* what was typed or armed, where, and for which row
    busy,      \* Save signals that are Saving
    told,      \* answers on screen
    writes,    \* writes under way
    steps,     \* of the user and of others
    heard,     \* the newest version a success callback ran for
    lastAsked, \* the newest load that was answered
    overtaken  \* what is shown was asked for before something shown earlier

pageVars == <<page, list, used, db, shown, drawn, loads, asked, open, opened, prepared, busy,
              told, writes, steps, heard, lastAsked, overtaken>>

Ready == shown.is = "ready"
Closed == [ctl |-> "", row |-> NoRow]
Ctl(n) == CHOOSE c \in Pages[page].controls : c.name = n
Controls == {c \in Pages[page].controls : c.name \in used}
Dialogs == {c \in Controls : c.at \in {"dialog", "asked"}}

Life(c) == CASE c.at = list -> drawn [] c.at = "asked" -> opened [] OTHER -> 0
Place(c, r) == [ctl |-> c.name, life |-> Life(c), row |-> IF c.at = "dialog" THEN NoRow ELSE r]
Signal(c, r) ==
    IF c.saveOnPage THEN [save |-> c.save, life |-> 0, row |-> NoRow]
    ELSE [save |-> c.save, life |-> Life(c), row |-> Place(c, r).row]
Line(c, r) == IF c.tells = "page" THEN [ctl |-> "", life |-> 0, row |-> NoRow] ELSE Place(c, r)
Flag(c, r) == [Signal(c, r) EXCEPT !.save = "testing"]
RowsOf(c) == IF c.perRow THEN Rows ELSE {NoRow}

(* Modal dialogs keep the rest of the page from being clicked. *)
Usable(c, r) ==
    /\ IF c \in Dialogs THEN open = [ctl |-> c.name, row |-> r] ELSE open = Closed
    /\ c.at = list \/ c.perRow => Ready
Prepared(c, r) == {p \in prepared : p.place = Place(c, r)}

(* As many controls as MaxUsed allows, or all there are. *)
SomeOf(names) ==
    {u \in SUBSET names : Cardinality(u) = MaxUsed \/ (u = names /\ Cardinality(u) < MaxUsed)}

StepTaken == steps < MaxSteps /\ steps' = steps + 1

PageInit ==
    /\ page \in DOMAIN Pages /\ list \in Pages[page].lists
    /\ used \in SomeOf({c.name : c \in Pages[page].controls})
    /\ db = 0 /\ shown = [is |-> "loading", version |-> 0] /\ drawn = 0
    /\ loads = {[asked |-> 1, read |-> FALSE, seen |-> 0]} /\ asked = 1
    /\ open = Closed /\ opened = 0 /\ prepared = {} /\ busy = {} /\ told = {} /\ writes = {}
    /\ steps = 0 /\ heard = 0 /\ lastAsked = 0 /\ overtaken = FALSE
-----------------------------------------------------------------------------
(* What is drawn under the list goes with it, signals and all. *)
UnderList(n) == Ctl(n).at = list
PreparedElsewhere == {p \in prepared : ~UnderList(p.place.ctl)}
ToldElsewhere(t) == {p \in t : p.ctl = "" \/ ~UnderList(p.ctl)}
DrawnUnder(s) == \E c \in Controls : c.at = list /\ ~c.saveOnPage /\ s.save \in {c.save, "testing"}
BusyElsewhere(b) == {s \in b : ~DrawnUnder(s)}

\* Mutant: the signal is set to Loading and the GET is forgotten.
AskingForgets ==
    /\ shown' = [shown EXCEPT !.is = "loading"]
    /\ UNCHANGED <<asked, loads>>

(* reload: the signal is set to Loading and a GET is spawned; none under    *)
(* way is dropped.                                                          *)
Asking ==
    /\ asked' = asked + 1
    /\ loads' = loads \cup {[asked |-> asked + 1, read |-> FALSE, seen |-> 0]}
    /\ shown' = [shown EXCEPT !.is = "loading"]

(* api.rs load: the server answers what the list is now ... *)
ListIsRead(l) ==
    /\ ~l.read
    /\ loads' = (loads \ {l}) \cup {[l EXCEPT !.read = TRUE, !.seen = db]}
    /\ UNCHANGED <<page, list, used, db, shown, drawn, asked, open, opened, prepared, busy, told,
                   writes, steps, heard, lastAsked, overtaken>>

(* ... and whatever arrives is set, in the order of arrival. Panel redraws. *)
ListArrives(l) ==
    /\ loads' = loads \ {l}
    /\ \/ l.read /\ shown' = [is |-> "ready", version |-> l.seen]
       \/ shown' = [shown EXCEPT !.is = "failed"]
    /\ drawn' = drawn + 1
    /\ overtaken' = (l.asked < lastAsked)
    /\ lastAsked' = IF l.asked < lastAsked THEN lastAsked ELSE l.asked
    /\ prepared' = PreparedElsewhere
    /\ busy' = BusyElsewhere(busy)
    /\ told' = ToldElsewhere(told)
    /\ UNCHANGED <<page, list, used, db, asked, open, opened, writes, steps, heard>>

(* PanelError's button, offered for the errors that may pass. *)
Retry ==
    /\ shown.is = "failed" /\ open = Closed
    /\ StepTaken
    /\ Asking
    /\ UNCHANGED <<page, list, used, db, drawn, open, opened, prepared, busy, told, writes, heard,
                   lastAsked, overtaken>>

(* Somebody else changes the list. *)
EditedElsewhere ==
    /\ StepTaken
    /\ db' = db + 1
    /\ UNCHANGED <<page, list, used, shown, drawn, loads, asked, open, opened, prepared, busy, told,
                   writes, heard, lastAsked, overtaken>>
-----------------------------------------------------------------------------
OpenDialog(c, r) ==
    /\ open = Closed
    /\ StepTaken
    /\ c.perRow => Ready
    /\ open' = [ctl |-> c.name, row |-> r] /\ opened' = opened + 1
    /\ UNCHANGED <<page, list, used, db, shown, drawn, loads, asked, prepared, busy, told, writes,
                   heard, lastAsked, overtaken>>

(* Cancel, Escape or the backdrop, also while the write is under way. What  *)
(* was typed stays in a dialog that is kept and goes with one made for the  *)
(* occasion.                                                                *)
CancelDialog ==
    /\ open # Closed
    /\ open' = Closed
    /\ IF Ctl(open.ctl).at = "dialog"
       THEN UNCHANGED <<prepared, busy, told>>
       ELSE /\ prepared' = {p \in prepared : p.place.ctl # open.ctl}
            /\ told' = {p \in told : p.ctl # open.ctl}
            /\ busy' = {s \in busy : s.save # Ctl(open.ctl).save}
    /\ UNCHANGED <<page, list, used, db, shown, drawn, loads, asked, opened, writes, steps, heard,
                   lastAsked, overtaken>>

(* The user types, ticks or arms what a control needs; nothing stops it     *)
(* while a write is under way.                                              *)
Prepare(c, r) ==
    /\ Usable(c, r) /\ c.needs \in {"text", "confirmation"}
    /\ StepTaken
    /\ Prepared(c, r) = {}
    /\ prepared' = prepared \cup {[place |-> Place(c, r), for |-> r]}
    /\ UNCHANGED <<page, list, used, db, shown, drawn, loads, asked, open, opened, busy, told,
                   writes, heard, lastAsked, overtaken>>

(* The edit form of a row is closed again, the confirmation taken back. *)
TakeBack(c, r) ==
    /\ Usable(c, r) /\ c.takesBack /\ Signal(c, r) \notin busy
    /\ Prepared(c, r) # {}
    /\ prepared' = prepared \ Prepared(c, r)
    /\ UNCHANGED <<page, list, used, db, shown, drawn, loads, asked, open, opened, busy, told,
                   writes, steps, heard, lastAsked, overtaken>>

(* api.rs submit, submit_reporting and the pages' own: Saving, and the      *)
(* request is spawned.                                                      *)
Send(c, r) ==
    /\ Usable(c, r)
    /\ Signal(c, r) \notin busy /\ (c.flag => Flag(c, r) \notin busy)
    /\ c.needs # "nothing" => Prepared(c, r) # {}
    /\ StepTaken
    /\ writes' = writes \cup {[ctl |-> c.name, row |-> r, place |-> Place(c, r),
                               signal |-> Signal(c, r), flag |-> Flag(c, r),
                               line |-> Line(c, r),
                               state |-> "sent", version |-> 0]}
    /\ busy' = busy \cup {Signal(c, r)} \cup (IF c.flag THEN {Flag(c, r)} ELSE {})
    /\ told' = told \ (IF c.tells = "here" THEN {Place(c, r)} ELSE {})
    /\ prepared' = {p \in prepared : ~(\/ p.place = Place(c, r) /\ c.clearsFirst
                                       \/ p.place.ctl \in c.finds)}
    /\ UNCHANGED <<page, list, used, db, shown, drawn, loads, asked, open, opened, heard, lastAsked,
                   overtaken>>

(* The service takes the write, or refuses it. *)
WriteIsTaken(w) ==
    /\ w.state = "sent"
    /\ db' = IF list \in Ctl(w.ctl).changes THEN db + 1 ELSE db
    /\ writes' = (writes \ {w}) \cup {[w EXCEPT !.state = "accepted", !.version = db']}
    /\ UNCHANGED <<page, list, used, shown, drawn, loads, asked, open, opened, prepared, busy, told,
                   steps, heard, lastAsked, overtaken>>

WriteIsRefused(w) ==
    /\ w.state = "sent"
    /\ writes' = (writes \ {w}) \cup {[w EXCEPT !.state = "refused"]}
    /\ UNCHANGED <<page, list, used, db, shown, drawn, loads, asked, open, opened, prepared, busy,
                   told, steps, heard, lastAsked, overtaken>>

(* How the exchange ends for the page: any may be lost, a success may carry *)
(* a body that cannot be read.                                              *)
Ends(w) == {"lost"} \cup (CASE w.state = "accepted" -> {"accepted", "garbled"}
                            [] w.state = "refused" -> {"refused"}
                            [] OTHER -> {})

\* Mutant: whatever was answered counts as a success.
SucceedsIfAnswered(c, end) == end # "lost"

(* on_success runs for a 2xx; some pages want a body they can read, too.    *)
Succeeds(c, end) == end = "accepted" \/ (end = "garbled" /\ ~c.reads)

(* The Save signal leaves Saving; the success callback clears, closes and   *)
(* reloads, in an instance that may have been redrawn meanwhile.            *)
AnswerArrives(w, end) ==
    LET c == Ctl(w.ctl)
        succeeds == Succeeds(c, end)
        released == busy \ ({w.signal} \cup (IF succeeds THEN {w.flag} ELSE {}))
        spoken == IF c.tells # "" /\ end # "lost" THEN told \cup {w.line} ELSE told
        leaves == succeeds /\ c.closes /\ open.ctl = c.name
        left == {p \in prepared : ~(\/ succeeds /\ c.clears /\ p.place = w.place
                                    \/ leaves /\ c.at = "asked" /\ p.place.ctl = c.name)}
        found == IF succeeds THEN {[place |-> [ctl |-> n, life |-> 0, row |-> NoRow], for |-> NoRow] :
                                      n \in c.finds}
                 ELSE {}
        reloads == list \in c.reloads /\ (succeeds \/ (c.reloadsAnyway /\ end # "lost"))
    IN  /\ writes' = writes \ {w}
        /\ open' = IF leaves THEN Closed ELSE open
        /\ heard' = IF succeeds /\ list \in c.changes /\ w.version > heard THEN w.version ELSE heard
        /\ IF reloads
           THEN /\ Asking
                /\ prepared' = (left \cup found) \cap (PreparedElsewhere \cup found)
                /\ busy' = BusyElsewhere(released)
                /\ told' = ToldElsewhere(spoken)
           ELSE /\ prepared' = left \cup found
                /\ busy' = released
                /\ told' = spoken
                /\ UNCHANGED <<shown, loads, asked>>
        /\ UNCHANGED <<page, list, used, db, drawn, opened, lastAsked, overtaken, steps>>

PageNext ==
    \/ \E l \in loads : ListIsRead(l) \/ ListArrives(l)
    \/ Retry \/ EditedElsewhere \/ CancelDialog
    \/ \E c \in Dialogs : \E r \in RowsOf(c) : OpenDialog(c, r)
    \/ \E c \in Controls : \E r \in RowsOf(c) : Prepare(c, r) \/ TakeBack(c, r) \/ Send(c, r)
    \/ \E w \in writes : WriteIsTaken(w) \/ WriteIsRefused(w)
    \/ \E w \in writes : \E end \in Ends(w) : AnswerArrives(w, end)

(* Requests end: the service answers, or the browser gives up on them. *)
PageFairness ==
    /\ WF_pageVars(\E l \in loads : ListArrives(l))
    /\ WF_pageVars(\E w \in writes : \E end \in Ends(w) : AnswerArrives(w, end))

PageSpec == PageInit /\ [][PageNext]_pageVars /\ PageFairness
=============================================================================
