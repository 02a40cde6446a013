------------------------------ MODULE ApiKeys ------------------------------
(***************************************************************************)
(* How a call with a managed key reaches a provider: the gateway asks auth *)
(* (authorize_inner of services/auth-actix/src/routes.rs), auth asks state *)
(* and keeps the verdict for a while (state_client.rs), and the runtime    *)
(* asks state again, uncached, with the setting that says whether a key is *)
(* required at all (enforce_api_key in services/runtime-actix/src/         *)
(* pipeline.rs).                                                           *)
(*                                                                         *)
(* Meanwhile the key is switched off and on and deleted, and the setting   *)
(* changed.  A question to state is read there at one moment and heard at  *)
(* another, AskTimeout after it was asked at the latest.  There is one     *)
(* key; a caller without it presents nothing.  Time is kept as ages, up to *)
(* the age from which they make no difference.                             *)
(***************************************************************************)
EXTENDS Integers

CONSTANTS
    KeyCallers,
    VerdictTTL,    \* VALIDATION_TTL
    AskTimeout     \* of auth's and the runtime's questions to state

ASSUME ApiKeysAssumption ==
    /\ VerdictTTL \in Nat \ {0} /\ AskTimeout \in Nat

VARIABLES
    keyIs,         \* the record in state: "active", "inactive" or "deleted"
    keyRequired,   \* the setting requireApiKey
    verdict,       \* auth's cache for this key
    keyCalls,
    goodAge,       \* how long ago the key was last active,
    badAge         \* and how long ago it was last not

keyVars == <<keyIs, keyRequired, verdict, keyCalls, goodAge, badAge>>

LongAgo == VerdictTTL + 3 * AskTimeout + 1
Older(age, limit) == IF age < limit THEN age + 1 ELSE limit

NoVerdict == [good |-> FALSE, age |-> VerdictTTL]
NoCall == [at |-> "none", with |-> FALSE, gated |-> FALSE, age |-> 0, waited |-> 0,
           heard |-> FALSE, strict |-> TRUE]

KeysInit ==
    /\ keyIs = "active" /\ keyRequired = TRUE
    /\ verdict = NoVerdict
    /\ keyCalls = [c \in KeyCallers |-> NoCall]
    /\ goodAge = 0 /\ badAge = LongAgo
-----------------------------------------------------------------------------
Becomes(c, at) ==
    keyCalls' = [keyCalls EXCEPT ![c].at = at, ![c].waited = 0, ![c].heard = FALSE]

World == <<keyIs, keyRequired, goodAge, badAge>>

\* request_filter: a gateway with enforce_managed_api_keys set asks auth first.
Present(c, with, gated) ==
    /\ keyCalls[c].at = "none"
    /\ keyCalls' = [keyCalls EXCEPT ![c] =
           [NoCall EXCEPT !.at = IF gated THEN "auth" ELSE "runtime asks",
                          !.with = with, !.gated = gated]]
    /\ UNCHANGED <<World, verdict>>

\* cached: an entry is used while it is younger than the TTL.
\* Mutant: it is used at the TTL as well.
UsableAtTTL(v) == v.age <= VerdictTTL
VerdictUsable(v) == v.age < VerdictTTL

AuthLooks(c) ==
    /\ keyCalls[c].at = "auth"
    /\ Becomes(c, IF ~keyCalls[c].with THEN "refused"
                  ELSE IF ~VerdictUsable(verdict) THEN "auth asks"
                  ELSE IF verdict.good THEN "runtime asks" ELSE "refused")
    /\ UNCHANGED <<World, verdict>>

\* State reads the key for one of the two that ask.  For the runtime it reads
\* the setting in the same critical section.
StateReads(c) ==
    LET call == keyCalls[c] IN
    /\ call.at \in {"auth asks", "runtime asks"}
    /\ keyCalls' = [keyCalls EXCEPT
           ![c].at = IF call.at = "auth asks" THEN "auth is told" ELSE "runtime is told",
           ![c].heard = call.with /\ keyIs = "active",
           ![c].strict = call.at = "auth asks" \/ keyRequired]
    /\ UNCHANGED <<World, verdict>>

\* remember: a verdict is stamped when it is heard, whatever it is.
AuthHears(c) ==
    /\ keyCalls[c].at = "auth is told"
    /\ verdict' = [good |-> keyCalls[c].heard, age |-> 0]
    /\ Becomes(c, IF keyCalls[c].heard THEN "runtime asks" ELSE "refused")
    /\ UNCHANGED World

\* A question that failed leaves no verdict, and the gateway lets nobody in.
\* Mutant: it counts as a verdict.
FailureRemembered == [good |-> FALSE, age |-> 0]
AfterFailure == verdict

AuthFails(c) ==
    /\ keyCalls[c].at \in {"auth asks", "auth is told"}
    /\ verdict' = AfterFailure
    /\ Becomes(c, "unavailable")
    /\ UNCHANGED World

\* What the runtime makes of the answer.
\* Mutant: behind a gateway that asks for keys the setting is enough.
AdmitsTheChecked(call) == call.heard \/ ~call.strict \/ call.gated
Admits(call) == call.heard \/ ~call.strict

RuntimeHears(c) ==
    /\ keyCalls[c].at = "runtime is told"
    /\ Becomes(c, IF Admits(keyCalls[c]) THEN "provider" ELSE "refused")
    /\ UNCHANGED <<World, verdict>>

RuntimeFails(c) ==
    /\ keyCalls[c].at \in {"runtime asks", "runtime is told"}
    /\ Becomes(c, "unavailable")
    /\ UNCHANGED <<World, verdict>>

KeyCallEnds(c) ==
    /\ keyCalls[c].at \in {"provider", "refused", "unavailable"}
    /\ keyCalls' = [keyCalls EXCEPT ![c] = NoCall]
    /\ UNCHANGED <<World, verdict>>
\* A verdict on another key finds the cache full, and clears it; a restart of
\* auth does the same.
CacheIsCleared ==
    /\ verdict' = NoVerdict
    /\ UNCHANGED <<World, keyCalls>>
-----------------------------------------------------------------------------
\* update_key and delete_key; a deleted key does not come back.
EditKey ==
    /\ keyIs # "deleted" /\ keyIs' \in {"active", "inactive", "deleted"} \ {keyIs}
    /\ goodAge' = IF keyIs' = "active" THEN 0 ELSE goodAge
    /\ badAge' = IF keyIs' = "active" THEN badAge ELSE 0
    /\ UNCHANGED <<keyRequired, verdict, keyCalls>>

EditRequired ==
    /\ keyRequired' = ~keyRequired
    /\ UNCHANGED <<keyIs, verdict, keyCalls, goodAge, badAge>>

Questions == {"auth asks", "auth is told", "runtime asks", "runtime is told"}

\* Time passes for calls that wait for state, never beyond their timeout; the
\* hops between the services take none.
KeyTick ==
    /\ \A c \in KeyCallers :
          \/ keyCalls[c].at = "none"
          \/ keyCalls[c].at \in Questions /\ keyCalls[c].waited < AskTimeout
    /\ keyCalls' = [c \in KeyCallers |->
           IF keyCalls[c].at = "none" THEN NoCall
           ELSE [keyCalls[c] EXCEPT !.age = @ + 1, !.waited = @ + 1]]
    /\ verdict' = [verdict EXCEPT !.age = Older(@, VerdictTTL)]
    /\ goodAge' = IF keyIs = "active" THEN 0 ELSE Older(goodAge, LongAgo)
    /\ badAge' = IF keyIs = "active" THEN Older(badAge, LongAgo) ELSE 0
    /\ UNCHANGED <<keyIs, keyRequired>>

KeysNext ==
    \/ \E c \in KeyCallers :
          \/ \E with, gated \in BOOLEAN : Present(c, with, gated)
          \/ AuthLooks(c) \/ StateReads(c) \/ AuthHears(c) \/ AuthFails(c)
          \/ RuntimeHears(c) \/ RuntimeFails(c) \/ KeyCallEnds(c)
    \/ CacheIsCleared \/ EditKey \/ EditRequired \/ KeyTick

KeysSpec == KeysInit /\ [][KeysNext]_keyVars
-----------------------------------------------------------------------------
\* The variables of the keys have their types.
KeysTypeOK ==
    /\ keyIs \in {"active", "inactive", "deleted"} /\ keyRequired \in BOOLEAN
    /\ verdict \in [good : BOOLEAN, age : 0..VerdictTTL]
    /\ \A c \in KeyCallers :
          /\ keyCalls[c].age \in 0..(2 * AskTimeout)
          /\ keyCalls[c].waited \in 0..AskTimeout
    /\ {goodAge, badAge} \subseteq 0..LongAgo

\* How old the news may be that decides on a call of this age.
NewsOf(call) == call.age + VerdictTTL + AskTimeout

\* A call that reaches a provider has a key that was active while the call was
\* under way, however late anybody heard of it; or the setting asked for none,
\* and behind the gateway's flag the key was active a verdict's life before.
ProviderIsReachedWithAKey ==
    \A c \in KeyCallers : LET call == keyCalls[c] IN
        call.at = "provider" =>
            \/ call.with /\ goodAge <= call.age
            \/ ~call.strict /\ (call.gated => call.with /\ goodAge <= NewsOf(call))

\* A call with the key is turned away only if the key was not active while it
\* was under way, or a verdict's life before it.
RefusedForAReason ==
    \A c \in KeyCallers : LET call == keyCalls[c] IN
        call.at = "refused" /\ call.with => badAge <= NewsOf(call)

\* The managed keys keep both.
KeysHold == ProviderIsReachedWithAKey /\ RefusedForAReason
=============================================================================
