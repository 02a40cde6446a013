---------------------------- MODULE ChatFallback ----------------------------
(***************************************************************************)
(* How a chat request walks accounts and models: execute_chat,             *)
(* execute_for_target, attempt and refresh_if_due in services/             *)
(* runtime-actix/src/pipeline.rs, against the accounts that the state      *)
(* service keeps (AccountPool).  Runtime and state are two processes: a    *)
(* request selects an account, calls its provider, and only then reports   *)
(* what happened, while other requests do the same and the accounts        *)
(* change.  Reports are best-effort posts that may be lost.                *)
(*                                                                         *)
(* Which of the available accounts the strategy prefers is left open here  *)
(* (RoundRobin models it).                                                 *)
(***************************************************************************)
EXTENDS AccountPool, Sequences

CONSTANTS Requests,    \* client connections, each making one request at a time
          TargetsOf,   \* the [provider, model] targets its requests resolve to
          Malformed,   \* the clients whose bodies every provider refuses
          MaxAttempts, \* MAX_ACCOUNT_ATTEMPTS
          MaxEdits     \* bound on dashboard edits of the accounts

ASSUME WalkAssumption ==
    /\ MaxAttempts \in Nat \ {0}
    /\ MaxEdits \in Nat
    /\ Malformed \subseteq Requests
    /\ \A r \in Requests :
          /\ Len(TargetsOf[r]) \in Nat \ {0}
          /\ \A i \in 1..Len(TargetsOf[r]) : TargetsOf[r][i].model \in Models

VARIABLES
    phase,      \* where each request is
    target,     \* index of the target it is on
    conn,       \* the account selected, {} when there is none
    excluded,   \* accounts already tried for this target
    attempts,   \* iterations of the account loop that failed
    failed,     \* last_error is Some
    answer,     \* what the client got
    edits,      \* dashboard edits so far
    \* history, for the properties
    called,     \* accounts whose provider was called for this target
    outcome,    \* how the target before this one failed
    cooling     \* (account, model) failures reported, not yet expired or cleared

locals == <<target, conn, excluded, attempts, failed, called, outcome>>
vars == <<poolVars, phase, locals, answer, edits, cooling>>

Phases == {"idle", "select", "refresh", "call", "report", "clear"}
Errors == {"notFound", "rateLimited", "unavailable", "upstream", "noAccounts"}

TypeOK ==
    /\ PoolTypeOK
    /\ phase \in [Requests -> Phases]
    /\ \A r \in Requests : target[r] \in 1..Len(TargetsOf[r])
    /\ conn \in [Requests -> SUBSET Conns]
    /\ excluded \in [Requests -> SUBSET Conns]
    /\ attempts \in [Requests -> 0..(MaxAttempts - 1)]
    /\ failed \in [Requests -> BOOLEAN]
    /\ answer \in [Requests -> Errors \cup {"none", "ok", "cancelled"}]
    /\ edits \in 0..MaxEdits
    /\ called \in [Requests -> SUBSET Conns]
    /\ outcome \in [Requests -> Errors \cup {"none"}]
    /\ cooling \subseteq Conns \X Models

Init ==
    /\ PoolInit
    /\ phase = [r \in Requests |-> "idle"]
    /\ target = [r \in Requests |-> 1]
    /\ conn = [r \in Requests |-> {}]
    /\ excluded = [r \in Requests |-> {}]
    /\ attempts = [r \in Requests |-> 0]
    /\ failed = [r \in Requests |-> FALSE]
    /\ answer = [r \in Requests |-> "none"]
    /\ edits = 0
    /\ called = [r \in Requests |-> {}]
    /\ outcome = [r \in Requests |-> "none"]
    /\ cooling = {}

Provider(r) == TargetsOf[r][target[r]].provider
Model(r) == TargetsOf[r][target[r]].model
Goto(r, label) == phase' = [phase EXCEPT ![r] = label]

-----------------------------------------------------------------------------
Arrive(r) ==
    /\ phase[r] = "idle"
    /\ Goto(r, "select")
    /\ answer' = [answer EXCEPT ![r] = "none"]
    /\ UNCHANGED <<poolVars, locals, edits, cooling>>

\* Mutant: the excluded list is shared by all targets.
StartTargetKeepsExcluded(r, i, last) ==
    /\ target' = [target EXCEPT ![r] = i]
    /\ conn' = [conn EXCEPT ![r] = {}]
    /\ attempts' = [attempts EXCEPT ![r] = 0]
    /\ failed' = [failed EXCEPT ![r] = FALSE]
    /\ called' = [called EXCEPT ![r] = {}]
    /\ outcome' = [outcome EXCEPT ![r] = last]
    /\ UNCHANGED excluded

\* A fresh account loop, with what execute_for_target starts from.
StartTarget(r, i, last) ==
    /\ target' = [target EXCEPT ![r] = i]
    /\ conn' = [conn EXCEPT ![r] = {}]
    /\ excluded' = [excluded EXCEPT ![r] = {}]
    /\ attempts' = [attempts EXCEPT ![r] = 0]
    /\ failed' = [failed EXCEPT ![r] = FALSE]
    /\ called' = [called EXCEPT ![r] = {}]
    /\ outcome' = [outcome EXCEPT ![r] = last]

\* The handler returns, and its locals with it.
Respond(r, what) ==
    /\ Goto(r, "idle")
    /\ answer' = [answer EXCEPT ![r] = what]
    /\ StartTarget(r, 1, "none")

\* Mutant: the first failed target is the answer.
TargetFailsAtOnce(r, why) == Respond(r, why)

\* TargetOutcome::Failed: on to the next target; the last one's own error is
\* the answer.
TargetFails(r, why) ==
    IF target[r] < Len(TargetsOf[r])
    THEN /\ Goto(r, "select")
         /\ StartTarget(r, target[r] + 1, why)
         /\ UNCHANGED answer
    ELSE Respond(r, why)

\* select_credentials hands out an account that is neither locked nor excluded.
Select(r) ==
    /\ phase[r] = "select"
    /\ \E c \in Available(Provider(r), Model(r), excluded[r]) :
          conn' = [conn EXCEPT ![r] = {c}]
    /\ Goto(r, "refresh")
    /\ UNCHANGED <<poolVars, target, excluded, attempts, failed, answer,
                   called, outcome, edits, cooling>>

\* No account: the loop ends.  last_error answers for an exhausted pool.
SelectNone(r) ==
    /\ phase[r] = "select"
    /\ Available(Provider(r), Model(r), excluded[r]) = {}
    /\ LET refusal == Refusal(Provider(r), Model(r))
           why == IF refusal # "exhausted" THEN refusal
                  ELSE IF failed[r] THEN "upstream" ELSE "noAccounts"
       IN TargetFails(r, why)
    /\ UNCHANGED <<poolVars, edits, cooling>>

\* The state service cannot be reached, or its answer cannot be read.
SelectUnavailable(r) ==
    /\ phase[r] = "select"
    /\ TargetFails(r, "unavailable")
    /\ UNCHANGED <<poolVars, edits, cooling>>

-----------------------------------------------------------------------------
(* attempt                                                                  *)

GoCall(r) ==
    /\ phase[r] = "refresh"
    /\ Goto(r, "call")
    /\ UNCHANGED <<locals, answer, edits, cooling>>

\* Not due, exchanged, or failed in passing: the call goes ahead.
Refresh(r) ==
    /\ GoCall(r)
    /\ UNCHANGED poolVars

\* The refresh token was rejected: the whole account is locked, if the post
\* lands, and the call goes ahead with the token there is.
RefreshRejected(r) ==
    /\ GoCall(r)
    /\ \E c \in conn[r] : MarkUnavailable(c, AllModels)

Call(r, next) ==
    /\ phase[r] = "call"
    /\ Goto(r, next)
    /\ called' = [called EXCEPT ![r] = @ \cup conn[r]]
    /\ UNCHANGED <<poolVars, target, conn, excluded, attempts, failed,
                   answer, outcome, edits, cooling>>

CallSucceeds(r) ==
    /\ r \notin Malformed
    /\ Call(r, "clear")

\* check_fallback_error says should_fallback for every status there is.
CallFails(r) == Call(r, "report")

\* Mutant: a failed attempt is not counted.
NextAttemptUncounted(r) ==
    /\ phase[r] = "report"
    /\ IF attempts[r] + 1 < MaxAttempts
       THEN /\ Goto(r, "select")
            /\ conn' = [conn EXCEPT ![r] = {}]
            /\ excluded' = [excluded EXCEPT ![r] = @ \cup conn[r]]
            /\ failed' = [failed EXCEPT ![r] = TRUE]
            /\ UNCHANGED <<target, attempts, answer, called, outcome>>
       ELSE TargetFails(r, "upstream")

\* Mutant: the cooldown alone is trusted to keep the account away.
NextAttemptNoExclude(r) ==
    /\ phase[r] = "report"
    /\ IF attempts[r] + 1 < MaxAttempts
       THEN /\ Goto(r, "select")
            /\ conn' = [conn EXCEPT ![r] = {}]
            /\ attempts' = [attempts EXCEPT ![r] = @ + 1]
            /\ failed' = [failed EXCEPT ![r] = TRUE]
            /\ UNCHANGED <<target, excluded, answer, called, outcome>>
       ELSE TargetFails(r, "upstream")

\* The report lands at the state service, or is lost; either way the account
\* is excluded for the rest of this target.
NextAttempt(r) ==
    /\ phase[r] = "report"
    /\ IF attempts[r] + 1 < MaxAttempts
       THEN /\ Goto(r, "select")
            /\ conn' = [conn EXCEPT ![r] = {}]
            /\ excluded' = [excluded EXCEPT ![r] = @ \cup conn[r]]
            /\ attempts' = [attempts EXCEPT ![r] = @ + 1]
            /\ failed' = [failed EXCEPT ![r] = TRUE]
            /\ UNCHANGED <<target, answer, called, outcome>>
       ELSE TargetFails(r, "upstream")

ReportLands(r) ==
    /\ NextAttempt(r)
    /\ \E c \in conn[r] :
          /\ MarkUnavailable(c, Model(r))
          /\ cooling' = IF c \in exists THEN cooling \cup {<<c, Model(r)>>} ELSE cooling
    /\ UNCHANGED edits

ReportLost(r) ==
    /\ NextAttempt(r)
    /\ UNCHANGED <<poolVars, edits, cooling>>

ClearLands(r) ==
    /\ phase[r] = "clear"
    /\ \E c \in conn[r] :
          /\ ClearError(c, Model(r))
          /\ cooling' = cooling \ {<<c, Model(r)>>}
    /\ Respond(r, "ok")
    /\ UNCHANGED edits

ClearLost(r) ==
    /\ phase[r] = "clear"
    /\ Respond(r, "ok")
    /\ UNCHANGED <<poolVars, edits, cooling>>

\* The client goes away and the handler is dropped at its current await.
Cancel(r) ==
    /\ phase[r] # "idle"
    /\ Respond(r, "cancelled")
    /\ UNCHANGED <<poolVars, edits, cooling>>

-----------------------------------------------------------------------------
EditAccounts ==
    /\ edits < MaxEdits
    /\ edits' = edits + 1
    /\ \E c \in Conns :
          \/ SetActive(c) /\ UNCHANGED cooling
          \/ DeleteConnection(c) /\ cooling' = cooling \ ({c} \X Models)
    /\ UNCHANGED <<phase, locals, answer>>

TimePasses ==
    /\ \E c \in Conns, k \in Keys :
          LockExpires(c, k) /\ cooling' = cooling \ {<<c, k>>}
    /\ UNCHANGED <<phase, locals, answer, edits>>

WalkStep(r) ==
    \/ Select(r)
    \/ SelectNone(r)
    \/ Refresh(r)
    \/ CallSucceeds(r)
    \/ CallFails(r)
    \/ ReportLands(r)
    \/ ClearLands(r)

\* What no request can count on.
WalkFault(r) ==
    \/ SelectUnavailable(r)
    \/ RefreshRejected(r)
    \/ ReportLost(r)
    \/ ClearLost(r)
    \/ Cancel(r)

Next ==
    \/ \E r \in Requests : Arrive(r)
    \/ \E r \in Requests : WalkStep(r) \/ WalkFault(r)
    \/ EditAccounts
    \/ TimePasses

Spec == Init /\ [][Next]_vars

\* Every await of the walk (loopback posts, the provider's answer) ends; no
\* fault is owed.
FairSpec == Spec /\ \A r \in Requests : WF_vars(WalkStep(r))

-----------------------------------------------------------------------------
(* Safety *)

Selects(r) == phase[r] = "select" /\ phase'[r] = "refresh"

\* A step in which a request gives its target up with outcome why.
GivesUp(r, why) ==
    /\ phase[r] # "idle"
    /\ \/ target'[r] # target[r] /\ outcome'[r] = why
       \/ phase'[r] = "idle" /\ answer'[r] = why

\* A target never calls one account twice, not even when the report of its
\* first failure was lost and the pool still offers it.
NoAccountTwice ==
    [][\A r \in Requests :
          phase[r] = "call" /\ phase'[r] \in {"clear", "report"}
             => conn[r] \cap called[r] = {}]_vars

\* A failure reported for an account and a model keeps every request for that
\* model off the account until it expires or a request for that model
\* succeeds there: a success for another model does not lift it.
CooldownHonoured ==
    [][\A r \in Requests : Selects(r) =>
          \A c \in conn'[r] : <<c, Model(r)>> \notin cooling]_vars

\* A request gives a target up for want of an account only when each account
\* of the provider was called for this very target or is cooling down.
GivesUpOnlyWhenNothingIsLeft ==
    [][\A r \in Requests :
          /\ phase[r] = "select"
          /\ \E why \in Errors \ {"unavailable"} : GivesUp(r, why)
          => Matching(Provider(r)) \subseteq
               called[r] \cup {c \in Conns : IsLocked(c, Model(r))}]_vars

\* "The last model owns the client-visible outcome": an upstream error is one
\* that an account of the last target gave, and there always is one where the
\* code could otherwise only make one up.
LastModelOwnsTheOutcome ==
    [][\A r \in Requests : phase[r] # "idle" /\ phase'[r] = "idle" =>
          /\ answer'[r] \in Errors => target[r] = Len(TargetsOf[r])
          /\ answer'[r] = "upstream" => called[r] # {}
          /\ answer'[r] # "noAccounts"]_vars

\* How many steps a request can still take: targets, attempts, and the way
\* from selecting an account to reporting on it.
StepsLeft(r) ==
    4 * ((Len(TargetsOf[r]) - target[r]) * MaxAttempts + (MaxAttempts - 1 - attempts[r]))
      + (CASE phase[r] = "select" -> 3
           [] phase[r] = "refresh" -> 2
           [] phase[r] = "call" -> 1
           [] OTHER -> 0)

\* Every step a request takes brings it nearer its answer, whatever the
\* accounts, the reports and the other requests do meanwhile: no walk is longer
\* than its targets times MAX_ACCOUNT_ATTEMPTS.
EveryWalkIsBounded ==
    [][\A r \in Requests :
          phase[r] # "idle" /\ phase'[r] # "idle" /\ <<phase[r], target[r], attempts[r]>>'
                                                      # <<phase[r], target[r], attempts[r]>>
             => StepsLeft(r)' < StepsLeft(r)]_vars

\* "The account-level lock applies to every model."
AccountLockHonoured ==
    [][\A r \in Requests : Selects(r) =>
          \A c \in conn'[r] : locks[c][AllModels] # "live"]_vars

\* "Clears the succeeding model's lock plus any expired locks": an account-wide
\* lock ends by its expiry or with its account.
AccountLockOutlivesSuccess ==
    [][\A c \in exists' :
          locks[c][AllModels] = "live" => locks'[c][AllModels] # "none"]_vars

\* "A malformed request, say, is returned immediately rather than replayed
\* against the whole combo."
MalformedNotReplayed ==
    [][\A r \in Requests :
          r \in Malformed /\ phase[r] = "call" /\ phase'[r] = "report"
             => outcome[r] # "upstream"]_vars

-----------------------------------------------------------------------------
(* Liveness *)

\* Every request is answered, whatever the providers and the pool do.
EveryRequestAnswered == \A r \in Requests : phase[r] # "idle" ~> phase[r] = "idle"
=============================================================================
