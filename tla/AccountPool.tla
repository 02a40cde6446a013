---------------------------- MODULE AccountPool ----------------------------
(***************************************************************************)
(* The provider accounts of nullrouter-state and their cooldowns: the      *)
(* model_locks of a ProviderConnection in services/state-actix/src/        *)
(* store.rs.  A lock is kept per model, or for the whole account under     *)
(* the key MODEL_LOCK_ALL, and stays in the map after its expiry until a   *)
(* success sweeps it.                                                      *)
(*                                                                         *)
(* Each operation runs in one write_snapshot_deferred, so it is atomic     *)
(* here; what a crash does to it is StateStore's subject.  An expiry time  *)
(* is abstracted to whether it has passed.                                 *)
(***************************************************************************)
EXTENDS Naturals

CONSTANTS Conns,       \* provider connections (accounts)
          Models,      \* upstream models
          ProviderOf,  \* the provider each connection belongs to
          AllModels    \* MODEL_LOCK_ALL

ASSUME PoolAssumption == AllModels \notin Models

VARIABLES
    exists,  \* the connections in the snapshot
    active,  \* those with is_active
    locks    \* model_locks: for each connection, key by key

poolVars == <<exists, active, locks>>

Keys == Models \cup {AllModels}

PoolTypeOK ==
    /\ exists \in SUBSET Conns
    /\ active \in SUBSET Conns
    /\ locks \in [Conns -> [Keys -> {"none", "live", "expired"}]]

PoolInit ==
    /\ exists = Conns
    /\ active = Conns
    /\ locks = [c \in Conns |-> [k \in Keys |-> "none"]]

-----------------------------------------------------------------------------
\* The model's own entry decides when there is one, whatever it says.
IsLocked(c, m) ==
    IF locks[c][m] # "none" THEN locks[c][m] = "live"
                            ELSE locks[c][AllModels] = "live"

Matching(p) == {c \in exists \cap active : ProviderOf[c] = p}

Available(p, m, excluded) ==
    {c \in Matching(p) \ excluded : ~IsLocked(c, m)}

\* The verdict of select_connection when no account is available.
Refusal(p, m) ==
    IF Matching(p) = {} THEN "notFound"
    ELSE IF \E c \in Matching(p) : IsLocked(c, m) THEN "rateLimited"
    ELSE "exhausted"

\* mark_connection_unavailable: a deleted connection is left alone.
MarkUnavailable(c, k) ==
    /\ locks' = IF c \in exists THEN [locks EXCEPT ![c][k] = "live"] ELSE locks
    /\ UNCHANGED <<exists, active>>

\* Mutant: every lock of the account is dropped.
ClearErrorDropsAll(c, m) ==
    /\ locks' = [locks EXCEPT ![c] = [k \in Keys |-> "none"]]
    /\ UNCHANGED <<exists, active>>

\* clear_connection_error: the model's lock, the account's, and expired ones.
ClearError(c, m) ==
    /\ locks' = IF c \notin exists THEN locks
                ELSE [locks EXCEPT ![c] = [k \in Keys |->
                        IF k \notin {m, AllModels} /\ @[k] = "live" THEN "live" ELSE "none"]]
    /\ UNCHANGED <<exists, active>>

-----------------------------------------------------------------------------
(* What happens to accounts besides requests: the dashboard, and time.      *)

SetActive(c) ==
    /\ c \in exists
    /\ active' = IF c \in active THEN active \ {c} ELSE active \cup {c}
    /\ UNCHANGED <<exists, locks>>

DeleteConnection(c) ==
    /\ c \in exists
    /\ exists' = exists \ {c}
    /\ active' = active \ {c}
    /\ locks' = [locks EXCEPT ![c] = [k \in Keys |-> "none"]]

LockExpires(c, k) ==
    /\ locks[c][k] = "live"
    /\ locks' = [locks EXCEPT ![c][k] = "expired"]
    /\ UNCHANGED <<exists, active>>
=============================================================================
