---------------------------- MODULE FusionPanel ----------------------------
(***************************************************************************)
(* A fusion request: execute_fusion, collect_panel and panel_text in        *)
(* services/runtime-actix/src/pipeline.rs, with the quorum of fusion.rs.    *)
(* Every panel model is asked at once; the loop that collects races their   *)
(* answers against two timers; what it has decides what is asked next.      *)
(* A provider's call and a whole execute_for_target are outcomes here.      *)
(***************************************************************************)
EXTENDS Naturals, Sequences, FiniteSets

CONSTANTS Panel,      \* the combo's models
          FirstModel, \* the one that judges
          MinPanel    \* FusionTuning.min_panel

ASSUME PanelAssumption ==
    /\ IsFiniteSet(Panel) /\ Cardinality(Panel) >= 2
    /\ FirstModel \in Panel
    /\ MinPanel \in Nat \ {0}

VARIABLES
    stage,      \* where execute_fusion is
    call,       \* what each panel call has come to
    ready,      \* calls that have ended and that the loop has not seen
    answers,    \* models whose text the loop has, in order
    hard,       \* the hard deadline: "running" or "elapsed"
    grace,      \* the straggler's: "off", "running" or "elapsed"
    asked,      \* the model that writes the reply: {} or {m}
    client,     \* what the client got
    recorded    \* models whose panel call was recorded as usage

fusionVars == <<stage, call, ready, answers, hard, grace, asked, client, recorded>>

FusionTypeOK ==
    /\ stage \in {"new", "collecting", "deciding", "writing", "done"}
    /\ call \in [Panel -> {"calling", "text", "nothing", "dropped"}]
    /\ ready \in Seq(Panel)
    /\ answers \in Seq(Panel)
    /\ hard \in {"running", "elapsed"}
    /\ grace \in {"off", "running", "elapsed"}
    /\ asked \subseteq Panel
    /\ client \in {"waiting", "503", "reply", "failure"}
    /\ recorded \subseteq Panel

FusionInit ==
    /\ stage = "new"
    /\ call = [m \in Panel |-> "calling"]
    /\ ready = <<>>
    /\ answers = <<>>
    /\ hard = "running"
    /\ grace = "off"
    /\ asked = {}
    /\ client = "waiting"
    /\ recorded = {}

\* FusionTuning::quorum
Quorum == LET floor == IF MinPanel < 2 THEN 2 ELSE MinPanel
          IN IF floor > Cardinality(Panel) THEN Cardinality(Panel) ELSE floor

Ask ==
    /\ stage = "new"
    /\ stage' = "collecting"
    /\ UNCHANGED <<call, ready, answers, hard, grace, asked, client, recorded>>

-----------------------------------------------------------------------------
(* panel_text *)

CallEnds(m, how) ==
    /\ stage = "collecting"
    /\ call[m] = "calling"
    /\ call' = [call EXCEPT ![m] = how]
    /\ ready' = Append(ready, m)
    /\ UNCHANGED <<stage, answers, hard, grace, asked, client>>

\* A call that succeeded is recorded, also when its text is blank.
Answers(m) ==
    /\ \E how \in {"text", "nothing"} : CallEnds(m, how)
    /\ recorded' = recorded \cup {m}

\* No account, no executor, a refusal or an unreadable body.
IsDropped(m) == CallEnds(m, "nothing") /\ UNCHANGED recorded

-----------------------------------------------------------------------------
(* collect_panel.  The select is biased: the hard deadline, the grace, a call *)

HardElapses ==
    /\ stage = "collecting"
    /\ hard = "running"
    /\ hard' = "elapsed"
    /\ UNCHANGED <<stage, call, ready, answers, grace, asked, client, recorded>>

GraceElapses ==
    /\ stage = "collecting"
    /\ grace = "running"
    /\ grace' = "elapsed"
    /\ UNCHANGED <<stage, call, ready, answers, hard, asked, client, recorded>>

\* The calls under way go with the loop.
Leave ==
    /\ stage' = "deciding"
    /\ call' = [m \in Panel |-> IF call[m] = "calling" THEN "dropped" ELSE call[m]]
    /\ UNCHANGED <<ready, answers, hard, grace, asked, client, recorded>>

\* Mutant: the deadline waits for a quorum.
StopAtDeadlineWithQuorum ==
    stage = "collecting" /\ hard = "elapsed" /\ Len(answers) >= Quorum /\ Leave

StopAtDeadline == stage = "collecting" /\ hard = "elapsed" /\ Leave

StopAfterGrace ==
    /\ stage = "collecting"
    /\ hard # "elapsed"
    /\ grace = "elapsed"
    /\ Leave

NoTimer == stage = "collecting" /\ hard # "elapsed" /\ grace # "elapsed"

\* Mutant: the grace begins with the first report, useful or not.
TakeAnswerInHaste ==
    /\ NoTimer
    /\ ready # <<>>
    /\ ready' = Tail(ready)
    /\ answers' = IF call[Head(ready)] = "text" THEN Append(answers, Head(ready)) ELSE answers
    /\ grace' = IF grace = "off" THEN "running" ELSE grace
    /\ UNCHANGED <<stage, call, hard, asked, client, recorded>>

TakeAnswer ==
    /\ NoTimer
    /\ ready # <<>>
    /\ ready' = Tail(ready)
    /\ answers' = IF call[Head(ready)] = "text" THEN Append(answers, Head(ready)) ELSE answers
    /\ grace' = IF answers' # answers /\ Len(answers') >= Quorum /\ grace = "off"
                THEN "running" ELSE grace
    /\ UNCHANGED <<stage, call, hard, asked, client, recorded>>

StopWhenAllReported ==
    /\ NoTimer
    /\ ready = <<>>
    /\ \A m \in Panel : call[m] # "calling"
    /\ Leave

-----------------------------------------------------------------------------
(* execute_fusion, after the panel *)

NobodyAnswered ==
    /\ stage = "deciding"
    /\ answers = <<>>
    /\ stage' = "done"
    /\ client' = "503"
    /\ UNCHANGED <<call, ready, answers, hard, grace, asked, recorded>>

\* The model that answered is asked again, with the client's own body; of
\* several answers the first model writes one.
AskForReply ==
    /\ stage = "deciding"
    /\ answers # <<>>
    /\ stage' = "writing"
    /\ asked' = {IF Len(answers) = 1 THEN answers[1] ELSE FirstModel}
    /\ UNCHANGED <<call, ready, answers, hard, grace, client, recorded>>

\* execute_for_target responds or fails; either response is the client's.
ReplyWritten ==
    /\ stage = "writing"
    /\ stage' = "done"
    /\ client' \in {"reply", "failure"}
    /\ UNCHANGED <<call, ready, answers, hard, grace, asked, recorded>>

FusionStep ==
    \/ StopAtDeadline
    \/ StopAfterGrace
    \/ TakeAnswer
    \/ StopWhenAllReported
    \/ NobodyAnswered
    \/ AskForReply
    \/ ReplyWritten

FusionNext ==
    \/ Ask
    \/ \E m \in Panel : Answers(m) \/ IsDropped(m)
    \/ HardElapses
    \/ GraceElapses
    \/ FusionStep

\* The request is polled, and its timers run; a provider may never answer.
FusionFairness == WF_fusionVars(FusionStep) /\ WF_fusionVars(HardElapses)

-----------------------------------------------------------------------------
\* The text of a model is left out only for a reason: it answered with nothing,
\* or the hard deadline passed, or a quorum was there and its grace had passed;
\* and whatever the reply is written from was recorded as usage ("recorded as
\* one, or the usage page would under-report a fusion combo").
LeftOutForAReason ==
    /\ stage \in {"deciding", "writing", "done"} =>
           \A m \in Panel \ {answers[i] : i \in DOMAIN answers} :
               \/ call[m] = "nothing"
               \/ hard = "elapsed"
               \/ grace = "elapsed" /\ Len(answers) >= Quorum
    /\ {answers[i] : i \in DOMAIN answers} \subseteq recorded

\* "A hard timeout caps the whole fan-out regardless": the client of a fusion
\* request is answered, whatever its providers do.
EveryFusionAnswered == stage # "new" ~> client # "waiting"

\* "Exactly one answer is returned directly."  The code breaks it: the model is asked
\* a second time, and that call may fail.
OneAnswerIsReturned == stage = "done" /\ Len(answers) = 1 => client = "reply"

\* "A panel call is a real provider request and is recorded as one."  The code
\* breaks it: a call dropped at a deadline never reaches the recording.
EveryCallRecorded == stage = "done" => \A m \in Panel : call[m] # "dropped"
=============================================================================
