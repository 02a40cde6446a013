-------------------------- MODULE CredentialImport --------------------------
(***************************************************************************)
(* Importing credentials, and the connections they become.                 *)
(*                                                                         *)
(* An importer of api-actix takes a credential from the user, has the      *)
(* provider verify it, or spends it for a newer one, and posts the result  *)
(* to state-actix, which owns the connections.  Three parties can fail     *)
(* apart: the provider may rotate a key and lose its answer, state may     *)
(* apply a post whose answer is lost or too late, and the user edits       *)
(* connections and the proxy pools they are bound to meanwhile.            *)
(*                                                                         *)
(* Keys are numbers.  A submitted credential is Good or Bad; the keys of   *)
(* iFlow and the refresh tokens of Kiro are counted as they are issued,    *)
(* and only the newest of each is alive.  A connection keeps the name its  *)
(* importer derives from the account unless the user renames it.           *)
(***************************************************************************)
EXTENDS Naturals, FiniteSets

CONSTANTS
    Clients,      \* requests that may be in flight at once
    Offered,      \* the importers users call
    Renamed,      \* providers whose connections users rename
    MaxCalls,     \* bound: requests of all kinds
    MaxFaults     \* bound: answers that are lost or too late

VARIABLES
    conns,        \* state: the provider connections
    pools,        \* state: the proxy pools
    stamp,        \* state: the millisecond the last id was drawn from
    req,          \* the requests, with the step each is at
    pending,      \* posts whose sender has given up, and which may still arrive
    iflow, kiro,  \* the providers: the newest key of iFlow, the newest refresh token of Kiro
    accounted,    \* history: iFlow keys whose importer was told of a failure or went away
    overlapped,   \* history: iFlow keys issued while another iFlow import was under way
    overtaken,    \* history: connections bound to a pool deleted while the bind was under way
    calls, faults

stateVars == <<conns, pools, stamp>>
history == <<accounted, overlapped, overtaken>>
importVars == <<conns, pools, stamp, req, pending, iflow, kiro,
                accounted, overlapped, overtaken, calls, faults>>
-----------------------------------------------------------------------------
(* What the importers have in common and what they do not: the provider they *)
(* record, whether they hand over an apiKey, how many accounts one call has, *)
(* and the step that follows a request that is well formed.                  *)

Importer(provider, apiKey, accounts, first) ==
    [provider |-> provider, apiKey |-> apiKey, accounts |-> accounts, first |-> first]

GitlabPat == Importer("gitlab", TRUE, 1, "verify")
KiroApiKey == Importer("kiro", FALSE, 1, "verify")
CodexImportToken == Importer("codex", FALSE, 1, "post")
CursorImport == Importer("cursor", FALSE, 1, "post")
KiroImport == Importer("kiro", FALSE, 1, "refresh")
IflowCookie == Importer("iflow", TRUE, 1, "read")
CodexBulkImport == Importer("codex", FALSE, 2, "item")
KiroImportCliProxy == Importer("kiro", FALSE, 1, "post")
GrokCliBulkImport == Importer("grok-cli", FALSE, 2, "item")
XiaomiMimoApiKey == Importer("xiaomi-mimo", TRUE, 1, "post")

Importers == {GitlabPat, KiroApiKey, CodexImportToken, CursorImport, KiroImport, IflowCookie,
              CodexBulkImport, KiroImportCliProxy, GrokCliBulkImport, XiaomiMimoApiKey}

ASSUME ImportAssumption ==
    /\ Offered \subseteq Importers
    /\ MaxCalls \in Nat /\ MaxFaults \in Nat

Good == 1
Bad == 2
NoPool == 0
Dashboard == Importer("openai", TRUE, 1, "bind")  \* the form of the dashboard, for contrast

Providers == {i.provider : i \in Importers \cup {Dashboard}}
Connections == [id : Nat, provider : Providers, name : {"own", "renamed"}, key : Nat, pool : Nat]
Steps == {"idle", "verify", "refresh", "read", "rotate", "item", "post", "landed", "declined", "bind",
          "invalid", "failed", "unrecorded", "success", "gone"}
Ends == {"idle", "invalid", "failed", "unrecorded", "success", "gone"}
Blank == [step |-> "idle", by |-> Dashboard, key |-> 0, left |-> 0, won |-> 0, lost |-> 0,
          landed |-> 0, moved |-> FALSE, pool |-> NoPool, target |-> 0]

ImportTypeOK ==
    /\ conns \subseteq Connections
    /\ \A c, d \in conns : c.id = d.id => c = d
    /\ pools \subseteq Nat /\ stamp \in Nat
    /\ \A r \in {req[w] : w \in Clients} :
          /\ r.step \in Steps /\ r.by \in Offered \cup {Dashboard}
          /\ r.landed <= r.by.accounts /\ r.won + r.lost + r.left <= r.by.accounts
    /\ pending \subseteq [provider : Providers, key : Nat]
    /\ iflow \in Nat /\ kiro \in Nat

ImportInit ==
    /\ conns = {} /\ pools = {} /\ stamp = 0 /\ pending = {}
    /\ req = [w \in Clients |-> Blank]
    /\ iflow = 10 /\ kiro = 10
    /\ accounted = {} /\ overlapped = {} /\ overtaken = {} /\ calls = 0 /\ faults = 0
-----------------------------------------------------------------------------
(* The store of state-actix. *)

\* A post for a provider and name that already has a connection replaces its
\* key and its proxy, and keeps its id.
Same(cs, provider) == {c \in cs : c.provider = provider /\ c.name = "own"}
Created(cs, provider, key, pool, id) ==
    LET new == [id |-> id, provider |-> provider, name |-> "own", key |-> key, pool |-> pool]
    IN  IF Same(cs, provider) = {} THEN cs \cup {new}
        ELSE {IF c \in Same(cs, provider) THEN [new EXCEPT !.id = c.id] ELSE c : c \in cs}

\* Another millisecond for each id.
Draw == stamp' = stamp + 1

Create(provider, key, pool) ==
    /\ Draw /\ conns' = Created(conns, provider, key, pool, stamp')

\* Mutant: only connections with a name of their own are counted.
BoundAndNamed(pool) == {c \in conns : c.pool = pool /\ c.name = "renamed"}
Bound(pool) == {c \in conns : c.pool = pool}
-----------------------------------------------------------------------------
(* The steps of an importer. *)

At(w, step) == req[w].step = step
To(w, step) == req' = [req EXCEPT ![w].step = step]

\* The end of an import, after which only its outcome is of interest.
Answer(w, step) ==
    /\ req' = [req EXCEPT ![w].step = step]
    /\ accounted' = IF req[w].by = IflowCookie /\ step \notin {"success", "invalid"}
                    THEN accounted \cup {req'[w].key} ELSE accounted

Called(w) ==
    /\ req[w].step \in Ends
    /\ calls < MaxCalls /\ calls' = calls + 1

\* A request that is malformed, or names half a credential, ends before anything
\* is asked of anybody.
Arrive(w, importer, key) ==
    /\ Called(w)
    /\ \E step \in {importer.first, "invalid"} :
          req' = [req EXCEPT ![w] = [Blank EXCEPT
              !.step = step, !.by = importer, !.left = IF step = "item" THEN importer.accounts ELSE 0,
              !.key = IF importer = KiroImport THEN kiro + 1 - key ELSE key]]
    /\ UNCHANGED <<conns, pools, stamp, pending, iflow, kiro, accounted, overlapped, overtaken, faults>>

\* Mutant: a refusal is not looked at.
AcceptsAnything(key) == key \in {Good, Bad}

\* GitLab, and Amazon Q with at least one model listed, accept a good token only.
Accepts(key) == key = Good
Verify(w) ==
    /\ At(w, "verify")
    /\ \/ Accepts(req[w].key) /\ To(w, "post") /\ UNCHANGED accounted
       \/ ~Accepts(req[w].key) /\ Answer(w, "invalid")
       \/ Answer(w, "failed")
    /\ UNCHANGED <<stateVars, pending, iflow, kiro, overlapped, overtaken, calls, faults>>

\* Kiro takes the newest refresh token only.  It may rotate it, and then lose
\* the answer or leave the access token out of it.
Refresh(w) ==
    /\ At(w, "refresh")
    /\ \/ Answer(w, "failed") /\ UNCHANGED kiro
       \/ /\ req[w].key = kiro
          /\ kiro' \in {kiro, kiro + 1}
          /\ \/ req' = [req EXCEPT ![w].step = "post", ![w].key = kiro', ![w].moved = TRUE]
             \/ req' = [req EXCEPT ![w].step = "failed", ![w].moved = TRUE]
          /\ UNCHANGED accounted
    /\ UNCHANGED <<stateVars, pending, iflow, overlapped, overtaken, calls, faults>>

\* The cookie is used twice: to read the name the account's key goes by ...
Read(w) ==
    /\ At(w, "read")
    /\ \/ To(w, "rotate") /\ UNCHANGED accounted
       \/ Answer(w, "invalid") \/ Answer(w, "failed")
    /\ UNCHANGED <<stateVars, pending, iflow, kiro, overlapped, overtaken, calls, faults>>

\* Mutant: the key of the first call is recorded, which the second ended.
KeyReadBefore(issued) == issued - 1

\* ... and to have a new key issued under it, which ends the life of the last.
KeyIssued(issued) == issued
Rotate(w) ==
    LET others == {v \in Clients \ {w} : req[v].by = IflowCookie /\ req[v].step \notin Ends}
        issued == [req[w] EXCEPT !.key = KeyIssued(iflow + 1), !.moved = TRUE]
    IN
    /\ At(w, "rotate")
    /\ \/ Answer(w, "failed") /\ UNCHANGED <<iflow, overlapped>>
       \/ /\ iflow' = iflow + 1
          /\ overlapped' = IF others = {} THEN overlapped ELSE overlapped \cup {iflow'}
          /\ \/ /\ req' = [req EXCEPT ![w] = [issued EXCEPT !.step = "post"]]
                /\ UNCHANGED accounted
             \/ /\ req' = [req EXCEPT ![w] = [issued EXCEPT !.step = "failed"]]
                /\ accounted' = accounted \cup {iflow'}
    /\ UNCHANGED <<stateVars, pending, kiro, overtaken, calls, faults>>

\* State serves a post: without an apiKey it answers 400, whatever else it holds.
Land(w) ==
    /\ At(w, "post")
    /\ IF req[w].by.apiKey
       THEN /\ Create(req[w].by.provider, req[w].key, NoPool)
            /\ req' = [req EXCEPT ![w].step = "landed", ![w].landed = @ + 1]
       ELSE To(w, "declined") /\ UNCHANGED <<conns, stamp>>
    /\ UNCHANGED <<pools, pending, iflow, kiro, history, calls, faults>>

\* One account of a bulk import has been dealt with.
Many(w) == req[w].by.accounts > 1
ItemDone(w, won) ==
    /\ req' = [req EXCEPT ![w].step = "item", ![w].left = @ - 1,
                          ![w].won = IF won THEN @ + 1 ELSE @, ![w].lost = IF won THEN @ ELSE @ + 1]
    /\ UNCHANGED accounted

Item(w) ==
    /\ At(w, "item")
    /\ IF req[w].left = 0 THEN Answer(w, "success")
       ELSE (To(w, "post") /\ UNCHANGED accounted) \/ ItemDone(w, FALSE)
    /\ UNCHANGED <<stateVars, pending, iflow, kiro, overlapped, overtaken, calls, faults>>

\* The answer of state reaches the importer.
Reply(w) ==
    /\ \/ /\ At(w, "landed")
          /\ IF Many(w) THEN ItemDone(w, TRUE) ELSE Answer(w, "success")
       \/ /\ At(w, "declined")
          /\ IF Many(w) THEN ItemDone(w, FALSE) ELSE Answer(w, "unrecorded")
    /\ UNCHANGED <<stateVars, pending, iflow, kiro, overlapped, overtaken, calls, faults>>

\* A post that is not served yet when its sender stops waiting.
Abandoned(w) == IF At(w, "post") /\ req[w].by.apiKey
                THEN {[provider |-> req[w].by.provider, key |-> req[w].key]} ELSE {}

\* It does not, or not in time; a post not served yet may be served later.
GiveUp(w) ==
    /\ req[w].step \in {"post", "landed", "declined"}
    /\ faults < MaxFaults /\ faults' = faults + 1
    /\ IF Many(w) THEN ItemDone(w, FALSE) ELSE Answer(w, "unrecorded")
    /\ pending' = pending \cup Abandoned(w)
    /\ UNCHANGED <<stateVars, iflow, kiro, overlapped, overtaken, calls>>

LandLate(p) ==
    /\ p \in pending /\ pending' = pending \ {p}
    /\ Create(p.provider, p.key, NoPool)
    /\ UNCHANGED <<pools, req, iflow, kiro, history, calls, faults>>

\* The user closes the page, or api-actix stops, and the handler with it.
Leave(w) ==
    /\ req[w].step \notin Ends
    /\ faults < MaxFaults /\ faults' = faults + 1
    /\ Answer(w, "gone") /\ pending' = pending \cup Abandoned(w)
    /\ UNCHANGED <<stateVars, iflow, kiro, overlapped, overtaken, calls>>
-----------------------------------------------------------------------------
(* What else changes connections and pools. *)

Edit == calls < MaxCalls /\ calls' = calls + 1
        /\ UNCHANGED <<req, pending, iflow, kiro, history, faults>>

CreatePool == Edit /\ Draw /\ pools' = pools \cup {stamp'} /\ UNCHANGED conns
DeletePool(p) ==
    /\ p \in pools /\ Bound(p) = {}
    /\ Edit /\ pools' = pools \ {p} /\ UNCHANGED <<conns, stamp>>
DeleteConnection(c) == Edit /\ conns' = conns \ {c} /\ UNCHANGED <<pools, stamp>>
Rename(c) ==
    /\ c.provider \in Renamed
    /\ Edit /\ conns' = (conns \ {c}) \cup {[c EXCEPT !.name = "renamed"]}
    /\ UNCHANGED <<pools, stamp>>

\* Creating a connection, or binding one that exists, looks the pool up first
\* and writes under another lock.
Bind(w, pool, target) ==
    /\ Called(w) /\ pool \in pools
    /\ req' = [req EXCEPT ![w] = [Blank EXCEPT !.step = "bind", !.pool = pool, !.target = target,
                                              !.key = Good]]
    /\ UNCHANGED <<conns, pools, stamp, pending, iflow, kiro, history, faults>>

BindLands(w) ==
    LET r == req[w]
        found == {c \in conns : c.id = r.target}
        touched == {c.id : c \in {d \in conns' : d.pool = r.pool}} \ {c.id : c \in Bound(r.pool)}
    IN
    /\ At(w, "bind")
    /\ IF r.target = 0 THEN Create(r.by.provider, r.key, r.pool)
       ELSE /\ conns' = (conns \ found) \cup {[c EXCEPT !.pool = r.pool] : c \in found}
            /\ UNCHANGED stamp
    /\ To(w, IF r.target = 0 \/ found # {} THEN "success" ELSE "invalid")
    /\ overtaken' = IF r.pool \in pools THEN overtaken ELSE overtaken \cup touched
    /\ UNCHANGED <<pools, pending, iflow, kiro, accounted, overlapped, calls, faults>>

ImportNext ==
    \/ \E w \in Clients :
         \/ \E i \in Offered, key \in {Good, Bad} : Arrive(w, i, key)
         \/ Verify(w) \/ Refresh(w) \/ Read(w) \/ Rotate(w) \/ Land(w) \/ Item(w) \/ Reply(w)
         \/ GiveUp(w) \/ Leave(w) \/ BindLands(w)
         \/ \E p \in pools, t \in {0} \cup {c.id : c \in conns} : Bind(w, p, t)
    \/ \E p \in pending : LandLate(p)
    \/ \E p \in pools : DeletePool(p)
    \/ \E c \in conns : DeleteConnection(c) \/ Rename(c)
    \/ CreatePool

ImportSpec == ImportInit /\ [][ImportNext]_importVars
-----------------------------------------------------------------------------
\* An importer says that it recorded what state has applied, however many
\* accounts it was given; one that refuses the request has spent and recorded
\* nothing; and no token of GitLab is recorded, or said to be verified, that
\* GitLab did not accept.
ImportAnswersTruthful ==
    \A w \in Clients : LET r == req[w] IN r.by \in Importers =>
        /\ r.step = "success" => r.won + r.lost = IF r.by.accounts > 1 THEN r.by.accounts ELSE 0
        /\ r.step = "success" /\ r.by.accounts = 1 => r.landed = 1
        /\ r.won <= r.landed
        /\ r.step = "invalid" => r.landed = 0 /\ ~r.moved
        /\ r.by.first = "verify" /\ (r.landed > 0 \/ r.step = "unrecorded") => r.key = Good

\* The key a connection to iFlow holds is the one alive, or somebody knows: the
\* importer of a later key -- or of this one, when its post came late -- was told
\* of a failure, went away, overlapped with another, or is still at work.  Not so a
\* connection that was renamed: the next import does not find it, makes a second
\* one, and leaves the first with a key that ended.
DeadKeyIsAccounted ==
    \A c \in Same(conns, "iflow") : c.key # iflow =>
        \/ c.key \in accounted
        \/ \E key \in (c.key + 1)..iflow :
              \/ key \in accounted \cup overlapped
              \/ \E w \in Clients : req[w].by = IflowCookie /\ req[w].key = key /\ req[w].step \notin Ends

\* What an importer answered is so, and what it did not record is known of.
ImportsAreAccounted == ImportAnswersTruthful /\ DeadKeyIsAccounted

\* A connection is bound to a pool that exists, unless the pool was deleted
\* between the look-up of the bind and its write.
DanglingOnlyWhenOvertaken ==
    \A c \in conns : c.pool \in pools \cup {NoPool} \/ c.id \in overtaken

\* What an import says is so, what it lost somebody was told of, and bindings
\* hold.
ImportsHold == ImportsAreAccounted /\ DanglingOnlyWhenOvertaken

\* What kiro_import says of itself: the connection is recorded with the access
\* token of the refresh, when every party answers.
RefreshedIsRecorded ==
    \A w \in Clients : req[w].by = KiroImport /\ req[w].step = "unrecorded" => faults > 0
=============================================================================
