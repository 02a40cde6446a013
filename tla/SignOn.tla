------------------------------- MODULE SignOn -------------------------------
(***************************************************************************)
(* Signing in to the dashboard through an identity provider: oidc_start,   *)
(* oidc_callback, saml_start and saml_acs of services/auth-actix/src/      *)
(* sso_routes.rs.                                                          *)
(*                                                                         *)
(* The service keeps nothing between the two legs of a sign-in: what binds *)
(* them is in the browser's cookies, one jar for all tabs, and the         *)
(* settings are read from state again for every leg.  In between, another  *)
(* tab may start, the cookies may expire, an administrator may change the  *)
(* settings, and state or the provider may be out.                         *)
(*                                                                         *)
(* A flow is a number: its state, nonce and verifier travel and are set    *)
(* and cleared together.  A registration is an issuer with a client.       *)
(***************************************************************************)
EXTENDS Integers, Sequences, SequencesExt

CONSTANTS Tabs, Registrations, Off, MaxFlows, MaxChanges, MaxFaults

ASSUME SignOnAssumption ==
    /\ Off \notin Registrations /\ Registrations # {}
    /\ {MaxFlows, MaxChanges, MaxFaults} \subseteq Nat

VARIABLES
    registered,  \* the OIDC registration that state holds, or Off
    samlSet,     \* whether state holds a SAML configuration
    jar,         \* the flow whose cookies the browser has, per kind; 0 is none
    tabs,        \* the sign-in of each tab
    minted,      \* the flows that sessions were created for, in order
    spent,       \* the codes the provider exchanged, named by their flow
    flows, changes, faults

signOnVars ==
    <<registered, samlSet, jar, tabs, minted, spent, flows, changes, faults>>

\* `by` is the registration the flow was started with, `now` the one it is
\* finished with, `sent` the cookies that came with the callback, `why`
\* everything that happened to the sign-in, whether it was noticed or not.
AtLogin ==
    [at |-> "login", kind |-> "oidc", flow |-> 0, by |-> Off, now |-> Off,
     sent |-> 0, answer |-> "none", said |-> "nothing", why |-> {}]

SignOnInit ==
    /\ registered = CHOOSE r \in Registrations : TRUE
    /\ samlSet = TRUE
    /\ jar = [oidc |-> 0, saml |-> 0]
    /\ tabs = [t \in Tabs |-> AtLogin]
    /\ minted = <<>> /\ spent = {}
    /\ flows = 0 /\ changes = 0 /\ faults = 0
-----------------------------------------------------------------------------
InFlight(tab) == tab.at \notin {"login", "refused", "signed"}

\* A tab moves on; `what` happened to it on the way.
Moves(t, at, what) ==
    tabs' = [tabs EXCEPT ![t].at = at, ![t].why = @ \cup what]

\* The handler has its answer, which is on its way to the browser.
Answers(t, said, what) ==
    tabs' = [tabs EXCEPT ![t].at = "replying", ![t].said = said, ![t].why = @ \cup what]

Fails(t, said, what) ==
    /\ faults < MaxFaults /\ faults' = faults + 1
    /\ Answers(t, said, {what})

\* The jar holds flow n of a kind from now on; a tab whose cookies it held
\* has lost them, and does not know.
JarBecomes(kind, n, what, others) ==
    /\ jar' = [jar EXCEPT ![kind] = n]
    /\ tabs' = [u \in Tabs |->
           IF /\ others[u].kind = kind /\ InFlight(others[u])
              /\ others[u].flow # 0 /\ others[u].flow = jar[kind] /\ n # jar[kind]
           THEN [others[u] EXCEPT !.why = @ \cup {what}]
           ELSE others[u]]

\* What a sign-in of this kind meets if it reads these settings.
OffFor(kind, registration, saml) ==
    IF (kind = "oidc" /\ registration = Off) \/ (kind = "saml" /\ ~saml)
    THEN {"off"} ELSE {}

SsoSettings == <<registered, samlSet, changes>>
-----------------------------------------------------------------------------
(* The first leg. *)

Start(t, kind) ==
    /\ ~InFlight(tabs[t]) /\ flows < MaxFlows
    /\ tabs' = [tabs EXCEPT ![t] =
           [AtLogin EXCEPT !.at = "starting", !.kind = kind,
                           !.why = OffFor(kind, registered, samlSet)]]
    /\ UNCHANGED <<SsoSettings, jar, minted, spent, flows, faults>>

\* oidc_config, then for OIDC the discovery document.
StartReadsSettings(t) ==
    /\ tabs[t].at = "starting" /\ tabs[t].kind = "oidc"
    /\ \/ /\ registered = Off
          /\ Answers(t, "not configured", {})
          /\ UNCHANGED faults
       \/ /\ registered # Off
          /\ tabs' = [tabs EXCEPT ![t].at = "discovering", ![t].by = registered]
          /\ UNCHANGED faults
       \/ Fails(t, "state unavailable", "outage")
    /\ UNCHANGED <<SsoSettings, jar, minted, spent, flows>>

StartDiscovers(t) ==
    /\ tabs[t].at = "discovering"
    /\ \/ /\ flows < MaxFlows /\ flows' = flows + 1
          /\ tabs' = [tabs EXCEPT ![t].at = "replying", ![t].said = "go",
                                  ![t].flow = flows + 1]
          /\ UNCHANGED faults
       \/ /\ Fails(t, "discovery", "provider out")
          /\ UNCHANGED flows
    /\ UNCHANGED <<SsoSettings, jar, minted, spent>>

SamlStarts(t) ==
    /\ tabs[t].at = "starting" /\ tabs[t].kind = "saml"
    /\ \/ /\ ~samlSet
          /\ Answers(t, "not configured", {})
          /\ UNCHANGED <<flows, faults>>
       \/ /\ samlSet /\ flows < MaxFlows /\ flows' = flows + 1
          /\ tabs' = [tabs EXCEPT ![t].at = "replying", ![t].said = "go",
                                  ![t].flow = flows + 1]
          /\ UNCHANGED faults
       \/ /\ Fails(t, "state unavailable", "outage")
          /\ UNCHANGED flows
    /\ UNCHANGED <<SsoSettings, jar, minted, spent>>

\* The tab after the end of its flow.
Ended(tab) ==
    [AtLogin EXCEPT !.at = IF tab.said = "session" THEN "signed" ELSE "refused",
                    !.kind = tab.kind, !.flow = tab.flow, !.by = tab.by,
                    !.answer = tab.answer, !.why = tab.why \cap {"resent", "blank", "declined"}]

\* Mutant: only a finished sign-in clears its cookies.
CookiesStay(tab) ==
    IF tab.said = "go" THEN tab.flow ELSE IF tab.said = "session" THEN 0 ELSE jar[tab.kind]
\* The cookies set with the redirect; any end of a flow clears all three.
CookiesAfter(tab) == IF tab.said = "go" THEN tab.flow ELSE 0

ReplyArrives(t) ==
    LET tab == tabs[t] IN
    /\ tab.at = "replying"
    /\ JarBecomes(tab.kind, CookiesAfter(tab), "overtaken",
           [tabs EXCEPT ![t] = IF tab.said = "go" THEN [tab EXCEPT !.at = "provider"]
                                                  ELSE Ended(tab)])
    /\ UNCHANGED <<SsoSettings, minted, spent, flows, faults>>
-----------------------------------------------------------------------------
(* At the provider, which is external, and the way back. *)

\* The user signs in there, declines, or comes to the callback with nothing.
ProviderAnswers(t) ==
    /\ tabs[t].at = "provider"
    /\ \E answer \in {"code", "declined", "blank"} :
          /\ tabs[t].kind = "saml" => answer # "declined"
          /\ tabs' = [tabs EXCEPT ![t].at = "returning", ![t].answer = answer,
                          ![t].why = @ \cup (IF answer = "code" THEN {} ELSE {answer})]
    /\ UNCHANGED <<SsoSettings, jar, minted, spent, flows, faults>>

\* A finished tab sends its callback again (back, reload, restored).
Resend(t) ==
    /\ tabs[t].at \in {"refused", "signed"} /\ tabs[t].answer # "none"
    /\ "resent" \notin tabs[t].why
    /\ Moves(t, "returning", {"resent"} \cup OffFor(tabs[t].kind, registered, samlSet))
    /\ UNCHANGED <<SsoSettings, jar, minted, spent, flows, faults>>

Returns(t, kind) == tabs[t].at = "returning" /\ tabs[t].kind = kind

\* Mutant: that there are cookies is enough.
VerdictOnPresence(tab, sent) ==
    CASE tab.answer = "declined" -> "declined"
      [] tab.answer = "blank" -> "missing code"
      [] tab.answer = "code" /\ sent = 0 -> "invalid state"
      [] OTHER -> "nothing"
\* What oidc_callback decides from the query and the cookies alone.
Verdict(tab, sent) ==
    CASE tab.answer = "declined" -> "declined"
      [] tab.answer = "blank" -> "missing code"
      [] tab.answer = "code" /\ (sent = 0 \/ sent # tab.flow) -> "invalid state"
      [] OTHER -> "nothing"

CallbackArrives(t) ==
    LET said == Verdict(tabs[t], jar.oidc) IN
    /\ Returns(t, "oidc")
    /\ tabs' = [tabs EXCEPT ![t].sent = jar.oidc, ![t].said = said,
                    ![t].at = IF said = "nothing" THEN "finishing" ELSE "replying"]
    /\ UNCHANGED <<SsoSettings, jar, minted, spent, flows, faults>>

FinishReadsSettings(t) ==
    /\ tabs[t].at = "finishing"
    /\ \/ /\ registered = Off
          /\ Answers(t, "not configured", {})
          /\ UNCHANGED faults
       \/ /\ registered # Off
          /\ tabs' = [tabs EXCEPT ![t].at = "rediscovering", ![t].now = registered]
          /\ UNCHANGED faults
       \/ Fails(t, "state unavailable", "outage")
    /\ UNCHANGED <<SsoSettings, jar, minted, spent, flows>>

FinishDiscovers(t) ==
    /\ tabs[t].at = "rediscovering"
    /\ \/ Moves(t, "exchanging", {}) /\ UNCHANGED faults
       \/ Fails(t, "discovery", "provider out")
    /\ UNCHANGED <<SsoSettings, jar, minted, spent, flows>>

\* The provider takes a code once, from the client it was issued to and with
\* the verifier of its flow.  Its answer may be lost after it took the code,
\* or lack the id_token.
Honoured(tab) ==
    tab.by = tab.now /\ tab.flow \notin spent /\ tab.sent = tab.flow

Exchange(t) ==
    LET tab == tabs[t] IN
    /\ tab.at = "exchanging"
    /\ \/ /\ Honoured(tab)
          /\ spent' = spent \cup {tab.flow}
          /\ \/ Moves(t, "verifying", {}) /\ UNCHANGED faults
             \/ \E said \in {"exchange", "missing id_token"} :
                    Fails(t, said, "provider out")
       \/ /\ ~Honoured(tab)
          /\ Answers(t, "exchange", {})
          /\ UNCHANGED <<spent, faults>>
       \/ /\ Fails(t, "exchange", "provider out")
          /\ UNCHANGED spent
    /\ UNCHANGED <<SsoSettings, jar, minted, flows>>

\* The keys are fetched and the id_token is verified: signed by the provider
\* of now for the client of now, with the nonce of the cookies.
Verified(tab) == tab.by = tab.now /\ tab.sent = tab.flow

Verify(t) ==
    LET tab == tabs[t] IN
    /\ tab.at = "verifying"
    /\ \/ /\ Verified(tab)
          /\ Answers(t, "session", {})
          /\ minted' = Append(minted, tab.flow)
          /\ UNCHANGED faults
       \/ /\ ~Verified(tab)
          /\ Answers(t, "id_token", {})
          /\ UNCHANGED <<minted, faults>>
       \/ /\ Fails(t, "id_token", "provider out")
          /\ UNCHANGED minted
    /\ UNCHANGED <<SsoSettings, jar, spent, flows>>

\* The assertion is posted from the provider's site, so a browser may hold
\* the cookie back.  No assertion is ever accepted.
SamlVerdict(tab, sent) ==
    CASE tab.answer = "blank" -> "missing response"
      [] tab.answer = "code" /\ ~samlSet -> "not configured"
      [] tab.answer = "code" /\ samlSet /\ sent \notin {0, tab.flow} -> "request mismatch"
      [] OTHER -> "cannot be verified"

SamlAcs(t) ==
    /\ Returns(t, "saml")
    /\ \/ /\ \E sent \in {0, jar.saml} :
                tabs' = [tabs EXCEPT ![t].at = "replying", ![t].sent = sent,
                                     ![t].said = SamlVerdict(tabs[t], sent)]
          /\ UNCHANGED faults
       \/ Fails(t, IF tabs[t].answer = "blank" THEN "missing response"
                                              ELSE "not configured", "outage")
    /\ UNCHANGED <<SsoSettings, jar, minted, spent, flows>>
-----------------------------------------------------------------------------
(* What happens around it. *)

CookiesExpire ==
    /\ \E kind \in {"oidc", "saml"} :
          jar[kind] # 0 /\ JarBecomes(kind, 0, "expired", tabs)
    /\ UNCHANGED <<SsoSettings, minted, spent, flows, faults>>

EditSettings ==
    /\ changes < MaxChanges /\ changes' = changes + 1
    /\ \/ /\ registered' \in (Registrations \cup {Off}) \ {registered}
          /\ UNCHANGED samlSet
       \/ samlSet' = ~samlSet /\ UNCHANGED registered
    /\ tabs' = [t \in Tabs |->
           IF InFlight(tabs[t])
           THEN [tabs[t] EXCEPT !.why = @ \cup {"edited"} \cup OffFor(tabs[t].kind, registered', samlSet')]
           ELSE tabs[t]]
    /\ UNCHANGED <<jar, minted, spent, flows, faults>>

SignOnNext ==
    \/ \E t \in Tabs :
          \/ \E kind \in {"oidc", "saml"} : Start(t, kind)
          \/ StartReadsSettings(t) \/ StartDiscovers(t) \/ SamlStarts(t)
          \/ ReplyArrives(t) \/ ProviderAnswers(t) \/ Resend(t)
          \/ CallbackArrives(t) \/ FinishReadsSettings(t) \/ FinishDiscovers(t)
          \/ Exchange(t) \/ Verify(t) \/ SamlAcs(t)
    \/ CookiesExpire
    \/ EditSettings

SignOnSpec == SignOnInit /\ [][SignOnNext]_signOnVars
-----------------------------------------------------------------------------
SignOnTypeOK ==
    /\ registered \in Registrations \cup {Off} /\ samlSet \in BOOLEAN
    /\ jar \in [{"oidc", "saml"} -> 0..flows]
    /\ \A t \in Tabs : tabs[t].flow \in 0..flows /\ tabs[t].sent \in 0..flows
    /\ minted \in Seq(1..flows) /\ spent \subseteq 1..flows
    /\ flows \in 0..MaxFlows /\ changes \in 0..MaxChanges /\ faults \in 0..MaxFaults

\* A session comes from a code that the registration of the flow issued and
\* took back, presented by the browser that started that flow; and never two
\* from one flow.
SessionsAreEarned ==
    /\ \A t \in Tabs : LET tab == tabs[t] IN
          tab.said = "session" =>
              /\ tab.kind = "oidc" /\ tab.answer = "code" /\ tab.flow \in spent
              /\ tab.sent = tab.flow /\ tab.by = tab.now
    /\ IsInjective(minted)

\* Every end of a flow takes its cookies away: it cannot be finished again.
FlowsEndOnce ==
    \A t \in Tabs :
        ~InFlight(tabs[t]) /\ tabs[t].answer # "none" =>
            jar[tabs[t].kind] # tabs[t].flow

\* What a refusal can be put down to. An outage of state at the end of a SAML
\* sign-in is told as a missing configuration, against the doc of saml_config.
Causes(said) ==
    CASE said = "declined" -> {"declined"}
      [] said \in {"missing code", "missing response"} -> {"blank"}
      [] said \in {"invalid state", "request mismatch"} ->
            {"overtaken", "expired", "resent"}
      [] said = "not configured" -> {"off", "outage"}
      [] said = "state unavailable" -> {"outage"}
      [] said = "exchange" -> {"provider out", "edited"}
      [] said \in {"discovery", "missing id_token", "id_token"} -> {"provider out"}
      [] said = "cannot be verified" -> {}

\* Who is sent back to the sign-in page is told something that did happen to
\* this sign-in, however the legs of two tabs, edits and outages fell.
RefusalsAreTrue ==
    \A t \in Tabs :
        tabs[t].at = "replying" /\ tabs[t].said \notin {"go", "session", "cannot be verified"} =>
            tabs[t].why \cap Causes(tabs[t].said) # {}

\* The sign-in through a provider keeps all of this.
SignOnHolds == SessionsAreEarned /\ FlowsEndOnce /\ RefusalsAreTrue
=============================================================================
