---------------------------- MODULE TokenRefresh ----------------------------
(***************************************************************************)
(* Renewing one connection's OAuth tokens: refresh_if_due in services/     *)
(* runtime-actix/src/pipeline.rs, refresh_credentials and RefreshCache in  *)
(* crates/execute, and update_connection_credentials in the state service. *)
(*                                                                         *)
(* A refresh token is a number: the provider rotates to the next one when  *)
(* it is spent, and refuses one that was spent before.  The provider and   *)
(* the network are external.  Access tokens outlive the requests in        *)
(* flight, so one becomes due only between requests.                       *)
(***************************************************************************)
EXTENDS Naturals

CONSTANTS Requests,   \* concurrent requests on the connection
          MaxTokens,  \* bound on rotations
          MaxFaults   \* bound on replies and posts that are lost

ASSUME RefreshAssumption == MaxTokens \in Nat /\ MaxFaults \in Nat

Tokens == 0..MaxTokens

VARIABLES
    valid,    \* the refresh token the provider accepts
    stored,   \* the one in the state service
    due,      \* the stored access token is near its expiry
    locked,   \* the account-wide lock of a rejected refresh
    cache,    \* RefreshCache: the outcome kept for a spent token, by token
    phase,    \* where each request is
    token,    \* the refresh token in its credentials
    result,   \* the outcome of its refresh
    \* history, for the properties
    spends,   \* times each token was sent to the provider, up to twice
    faults    \* lost replies and posts, and clients gone

refreshVars == <<valid, stored, due, locked, cache, phase, token, result, spends, faults>>

\* Ok carries the new token; Rejected is permanent; Transient is neither.
None == [kind |-> "none"]
Rejected == [kind |-> "rejected"]
Transient == [kind |-> "transient"]
Ok(t) == [kind |-> "ok", token |-> t]
Outcomes == {Ok(t) : t \in Tokens} \cup {Rejected, Transient}

RefreshTypeOK ==
    /\ valid \in Tokens
    /\ stored \in Tokens
    /\ due \in BOOLEAN
    /\ locked \in BOOLEAN
    /\ cache \in [Tokens -> Outcomes \cup {None}]
    /\ phase \in [Requests -> {"idle", "lookup", "exchange", "put", "settle", "call"}]
    /\ token \in [Requests -> Tokens]
    /\ result \in [Requests -> Outcomes \cup {None}]
    /\ \A r \in Requests : phase[r] \in {"put", "settle"} => result[r] # None
    /\ spends \in [Tokens -> 0..2]
    /\ faults \in 0..MaxFaults

RefreshInit ==
    /\ valid = 0
    /\ stored = 0
    /\ due = FALSE
    /\ locked = FALSE
    /\ cache = [t \in Tokens |-> None]
    /\ phase = [r \in Requests |-> "idle"]
    /\ token = [r \in Requests |-> 0]
    /\ result = [r \in Requests |-> None]
    /\ spends = [t \in Tokens |-> 0]
    /\ faults = 0

Goto(r, label) == phase' = [phase EXCEPT ![r] = label]
Quiet == \A r \in Requests : phase[r] = "idle"

-----------------------------------------------------------------------------
BecomesDue ==
    /\ Quiet
    /\ ~due
    /\ valid < MaxTokens
    /\ due' = TRUE
    /\ UNCHANGED <<valid, stored, locked, cache, phase, token, result, spends, faults>>

\* The credentials are a copy; should_refresh looks at that copy.
Select(r) ==
    /\ phase[r] = "idle"
    /\ ~locked
    /\ Goto(r, IF due THEN "lookup" ELSE "call")
    /\ token' = [token EXCEPT ![r] = stored]
    /\ result' = [result EXCEPT ![r] = None]
    /\ UNCHANGED <<valid, stored, due, locked, cache, spends, faults>>

\* Only a finished refresh is in the cache.
Lookup(r) ==
    /\ phase[r] = "lookup"
    /\ IF cache[token[r]] # None
       THEN Goto(r, "settle") /\ result' = [result EXCEPT ![r] = cache[token[r]]]
       ELSE Goto(r, "exchange") /\ UNCHANGED result
    /\ UNCHANGED <<valid, stored, due, locked, cache, token, spends, faults>>

Spend(t) == [spends EXCEPT ![t] = IF @ = 0 THEN 1 ELSE 2]

Receive(r, outcome) ==
    /\ Goto(r, "put")
    /\ result' = [result EXCEPT ![r] = outcome]

Exchange(r) ==
    /\ phase[r] = "exchange"
    /\ spends' = Spend(token[r])
    /\ IF token[r] = valid /\ valid < MaxTokens
       THEN valid' = valid + 1 /\ Receive(r, Ok(valid + 1))
       ELSE Receive(r, Rejected) /\ UNCHANGED valid
    /\ UNCHANGED <<stored, due, locked, cache, token, faults>>

\* The provider may have rotated, but its answer does not arrive.
ExchangeLost(r) ==
    /\ phase[r] = "exchange"
    /\ faults < MaxFaults
    /\ faults' = faults + 1
    /\ \/ UNCHANGED <<valid, spends>>
       \/ /\ token[r] = valid /\ valid < MaxTokens
          /\ valid' = valid + 1
          /\ spends' = Spend(token[r])
    /\ Receive(r, Transient)
    /\ UNCHANGED <<stored, due, locked, cache, token>>

\* Every outcome is kept for RESULT_TTL, a later one in place of an earlier.
Put(r) ==
    /\ phase[r] = "put"
    /\ Goto(r, "settle")
    /\ cache' = [cache EXCEPT ![token[r]] = result[r]]
    /\ UNCHANGED <<valid, stored, due, locked, token, result, spends, faults>>

CacheExpires(t) ==
    /\ cache[t] # None
    /\ cache' = [cache EXCEPT ![t] = None]
    /\ UNCHANGED <<valid, stored, due, locked, phase, token, result, spends, faults>>

\* Mutant: the new access token is stored, the rotated refresh token is not.
SettleKeepsOldToken(r) ==
    /\ phase[r] = "settle"
    /\ Goto(r, "call")
    /\ CASE result[r].kind = "ok" -> due' = FALSE /\ UNCHANGED <<stored, locked>>
         [] result[r].kind = "rejected" -> locked' = TRUE /\ UNCHANGED <<stored, due>>
         [] OTHER -> UNCHANGED <<stored, due, locked>>
    /\ UNCHANGED <<valid, cache, token, result, spends, faults>>

\* Mutant: a failed refresh writes the credentials it had back.
SettleWritesBack(r) ==
    /\ phase[r] = "settle"
    /\ Goto(r, "call")
    /\ stored' = IF result[r].kind = "ok" THEN result[r].token ELSE token[r]
    /\ due' = (due /\ result[r].kind # "ok")
    /\ locked' = (locked \/ result[r].kind = "rejected")
    /\ UNCHANGED <<valid, cache, token, result, spends, faults>>

\* update_connection_credentials: the tokens and the expiry, in one write.
StoreTokens(t) ==
    /\ stored' = t
    /\ due' = FALSE

\* store_refreshed, or mark_unavailable of the whole account, then the call.
Settle(r) ==
    /\ phase[r] = "settle"
    /\ Goto(r, "call")
    /\ CASE result[r].kind = "ok" ->
              StoreTokens(result[r].token) /\ UNCHANGED locked
         [] result[r].kind = "rejected" -> locked' = TRUE /\ UNCHANGED <<stored, due>>
         [] OTHER -> UNCHANGED <<stored, due, locked>>
    /\ UNCHANGED <<valid, cache, token, result, spends, faults>>

\* The post is lost: the new token serves this request only.
SettleLost(r) ==
    /\ phase[r] = "settle"
    /\ faults < MaxFaults
    /\ faults' = faults + 1
    /\ Goto(r, "call")
    /\ UNCHANGED <<valid, stored, due, locked, cache, token, result, spends>>

Call(r) ==
    /\ phase[r] = "call"
    /\ Goto(r, "idle")
    /\ UNCHANGED <<valid, stored, due, locked, cache, token, result, spends, faults>>

\* The client goes away: the handler is dropped, and what it had not stored.
Cancel(r) ==
    /\ phase[r] # "idle"
    /\ faults < MaxFaults
    /\ faults' = faults + 1
    /\ Goto(r, "idle")
    /\ UNCHANGED <<valid, stored, due, locked, cache, token, result, spends>>

\* REAUTH_COOLDOWN_MS has passed.
LockExpires ==
    /\ Quiet
    /\ locked
    /\ locked' = FALSE
    /\ UNCHANGED <<valid, stored, due, cache, phase, token, result, spends, faults>>

RefreshStep(r) ==
    \/ Select(r)
    \/ Lookup(r)
    \/ Exchange(r)
    \/ Put(r)
    \/ Settle(r)
    \/ Call(r)
    \/ ExchangeLost(r)
    \/ SettleLost(r)
    \/ Cancel(r)

RefreshNext ==
    \/ BecomesDue
    \/ LockExpires
    \/ \E r \in Requests : RefreshStep(r)
    \/ \E t \in Tokens : CacheExpires(t)

RefreshSpec == RefreshInit /\ [][RefreshNext]_refreshVars

-----------------------------------------------------------------------------
\* "Persisted before use so a restart does not lose the rotation": as long as
\* nothing is lost on the way, the state service never stays behind the
\* provider once the requests are done, whichever of them got the rotation.
RotationNotLost == Quiet /\ faults = 0 => stored = valid

\* The state service follows the provider: up to its newest token once nothing is
\* in flight that was not lost, and never back, whichever cached outcome a
\* request settles and however late.
RotationKept == [][RotationNotLost' /\ stored <= stored']_refreshVars

\* "So two concurrent requests on one expiring connection do not both spend
\* its refresh token."
NoTokenSpentTwice == \A t \in Tokens : spends[t] <= 1
=============================================================================
