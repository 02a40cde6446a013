------------------------------ MODULE Accounts ------------------------------
(***************************************************************************)
(* The managed accounts of state-actix and the sign-in of auth-actix.      *)
(*                                                                         *)
(* An administrator creates, changes and deletes users; each of these is   *)
(* one critical section of the snapshot lock (the password is hashed       *)
(* before it, from the request alone).  A sign-in crosses two services:    *)
(* the lockout is checked, state is asked -- first whether any account     *)
(* exists, then for the one of that name -- and only with its answer does  *)
(* the auth service record the failure or clear the peer.  Everything      *)
(* interleaves between those steps.  The stamp of the last sign-in, the    *)
(* display name and the address are left out: nothing reads them back.     *)
(***************************************************************************)
EXTENDS Naturals, FiniteSets

CONSTANTS
    Usernames,       \* normalised user names
    Passwords,       \* passwords
    SharedPassword,  \* the password of an install without accounts
    Peers,           \* addresses that sign in
    Logins,          \* sign-ins that may be in flight at once
    Threshold, Window, LockDuration, Capacity,  \* the lockout's configuration
    SameMillis,      \* whether two users may be created in one millisecond
    MaxRequests,     \* bound: administrative requests and sign-ins together
    MaxTime          \* bound: seconds

ASSUME LockoutAssumption ==
    /\ {Threshold, Window, LockDuration, Capacity} \subseteq Nat \ {0}
    /\ SharedPassword \in Passwords
    /\ SameMillis \in BOOLEAN
    /\ IsFiniteSet(Logins)

Roles == {"admin", "operator"}  \* a viewer differs from an operator only in what it may see
Unchanged == "unchanged"        \* a field the request leaves out

VARIABLES
    users,     \* the user records of the snapshot
    clock,     \* the millisecond of the last user created
    now,       \* the auth service's clock, in seconds
    entries,   \* the lockout table: what is remembered of some peers
    logins,    \* the sign-ins, with the step each is at
    entitled,  \* history: the sessions each sign-in was entitled to at some time of it
    requests

accountsVars == <<users, clock, now, entries, logins, entitled, requests>>
-----------------------------------------------------------------------------
Ids == Nat \X Nat
UserRecords == [id : Ids, name : Usernames, pw : Passwords, role : Roles, active : BOOLEAN]
Shared == [id |-> <<0, 0>>, role |-> "shared"]  \* the session of the shared password
Sessions == [id : Ids, role : Roles] \cup {Shared}
Entries == [failures : Nat, first : Nat, seen : Nat, until : Nat]  \* until 0: not locked
LoginSteps == {"idle", "checked", "asked", "verified",
               "signed in", "rejected", "locked", "unavailable"}
LoginRecords == [step : LoginSteps, peer : Peers, at : Nat, name : Usernames,
                 pw : Passwords, empty : BOOLEAN, session : SUBSET Sessions]

\* A sign-in that is over: only its outcome is of interest.
Over(step, peer, session) ==
    [step |-> step, peer |-> peer, at |-> 0,
     name |-> CHOOSE n \in Usernames : TRUE, pw |-> SharedPassword, empty |-> FALSE,
     session |-> session]

\* The variables have their types, and the lockout table its capacity.
AccountsTypeOK ==
    /\ users \subseteq UserRecords
    /\ clock \in Nat /\ now \in Nat /\ requests \in Nat
    /\ DOMAIN entries \subseteq Peers /\ Cardinality(DOMAIN entries) <= Capacity
    /\ \A p \in DOMAIN entries : entries[p] \in Entries
    /\ logins \in [Logins -> LoginRecords]
    /\ entitled \in [Logins -> SUBSET Sessions]

AccountsInit ==
    /\ users = {} /\ clock = 0 /\ now = 1 /\ requests = 0
    /\ entries = [p \in {} |-> <<>>]
    /\ \E p \in Peers : logins = [l \in Logins |-> Over("idle", p, {})]
    /\ entitled = [l \in Logins |-> {}]
-----------------------------------------------------------------------------
(* The administration of users. *)

\* What a sign-in with this name and password is entitled to, were it decided now.
Entitlement(name, pw, us) ==
    {[id |-> u.id, role |-> u.role] : u \in {v \in us : v.name = name /\ v.pw = pw /\ v.active}}
      \cup (IF us = {} /\ pw = SharedPassword THEN {Shared} ELSE {})

InFlight(l) == logins[l].step \in {"checked", "asked", "verified"}

Edited ==
    /\ requests < MaxRequests /\ requests' = requests + 1
    /\ entitled' = [l \in Logins |->
          IF InFlight(l) THEN entitled[l] \cup Entitlement(logins[l].name, logins[l].pw, users')
          ELSE entitled[l]]
    /\ UNCHANGED <<now, entries, logins>>

ActiveAdmin(u) == u.role = "admin" /\ u.active
\* Mutant: the user that is changed counts as another.
AnotherAdminOrItself(id) == \E u \in users : ActiveAdmin(u)
AnotherAdmin(id) == \E u \in users : u.id # id /\ ActiveAdmin(u)

\* Mutant: the name of a disabled user is free.
NameFreeAmongActive(name) == \A u \in users : u.active => u.name # name
NameFree(name) == \A u \in users : u.name # name

CreateUser(name, pw, role) ==
    /\ NameFree(name)
    /\ \E tick \in (IF SameMillis THEN {0, 1} ELSE {1}) : clock' = clock + tick
    /\ users' = users \cup {[id |-> <<clock', Cardinality(users) + 1>>, name |-> name,
                             pw |-> pw, role |-> role, active |-> TRUE]}
    /\ Edited

\* The record a change leaves, and whether it takes the standing of an administrator.
Changed(u, role, active, pw) ==
    [id |-> u.id, name |-> u.name,
     pw |-> IF pw = Unchanged THEN u.pw ELSE pw,
     role |-> IF role = Unchanged THEN u.role ELSE role,
     active |-> IF active = Unchanged THEN u.active ELSE active = "on"]
LosesAdmin(u, v) == ActiveAdmin(u) /\ ~ActiveAdmin(v)

UpdateUser(u, role, active, pw) ==
    LET v == Changed(u, role, active, pw) IN
    /\ u \in users
    /\ LosesAdmin(u, v) => AnotherAdmin(u.id)
    /\ users' = (users \ {u}) \cup {v}
    /\ Edited /\ UNCHANGED clock

DeleteUser(u) ==
    /\ u \in users
    /\ ActiveAdmin(u) => AnotherAdmin(u.id)
    /\ users' = {v \in users : v.id # u.id}
    /\ Edited /\ UNCHANGED clock

Administer ==
    \/ \E name \in Usernames, pw \in Passwords, role \in Roles : CreateUser(name, pw, role)
    \/ \E u \in users, role \in Roles \cup {Unchanged}, active \in {"on", "off", Unchanged},
          pw \in Passwords \cup {Unchanged} : UpdateUser(u, role, active, pw)
    \/ \E u \in users : DeleteUser(u)
-----------------------------------------------------------------------------
(* The lockout table. *)

Fresh(t) == [failures |-> 0, first |-> t, seen |-> t, until |-> 0]
Since(t, first) == IF t >= first THEN t - first ELSE 0  \* saturating_sub

Kept(es, t) == {p \in DOMAIN es :
    IF es[p].until > 0 THEN es[p].until > t ELSE Since(t, es[p].first) < Window}
Prune(es, t) == [p \in Kept(es, t) |-> es[p]]

\* One of those seen longest ago; the code breaks the tie by the address.
Oldest(es) == {p \in DOMAIN es : \A q \in DOMAIN es : es[p].seen <= es[q].seen}
Without(es, gone) == [p \in DOMAIN es \ gone |-> es[p]]

Locked(es, p, t) == p \in DOMAIN es /\ es[p].until > t

\* Mutant: a wrong password is counted by the check and again by the route.
FailedTwice(e, t) == [failures |-> e.failures + 2, first |-> e.first, seen |-> t,
                      until |-> IF e.failures + 2 >= Threshold THEN t + LockDuration ELSE e.until]

Failed(e, t) ==
    LET base == IF Since(t, e.first) >= Window THEN Fresh(t) ELSE e
        failures == base.failures + 1
    IN  [failures |-> failures, first |-> base.first, seen |-> t,
         until |-> IF failures >= Threshold THEN t + LockDuration ELSE base.until]

\* The tables record_failure may leave.
Recorded(es, p, t) ==
    LET pruned == Prune(es, t)
        full == p \notin DOMAIN pruned /\ Cardinality(DOMAIN pruned) >= Capacity
        room == IF full THEN {Without(pruned, {q}) : q \in Oldest(pruned)} ELSE {pruned}
    IN  {[q \in DOMAIN table \cup {p} |->
            IF q # p THEN table[q]
            ELSE Failed(IF p \in DOMAIN table THEN table[p] ELSE Fresh(t), t)] : table \in room}
-----------------------------------------------------------------------------
(* A sign-in, step by step. *)

End(l, step, session) == logins' = [logins EXCEPT ![l] = Over(step, @.peer, session)]

BeginLogin(l, p, name, pw) ==
    /\ ~InFlight(l) /\ requests < MaxRequests /\ requests' = requests + 1
    /\ entries' = Prune(entries, now)
    /\ IF Locked(entries', p, now)
       THEN End(l, "locked", {}) /\ entitled' = [entitled EXCEPT ![l] = {}]
       ELSE /\ logins' = [logins EXCEPT ![l] =
                  [step |-> "checked", peer |-> p, at |-> now, name |-> name, pw |-> pw,
                   empty |-> FALSE, session |-> {}]]
            /\ entitled' = [entitled EXCEPT ![l] = Entitlement(name, pw, users)]
    /\ UNCHANGED <<users, clock, now>>

\* verify_credentials asks first whether any account exists ...
HasUsers(l) ==
    /\ logins[l].step = "checked"
    /\ logins' = [logins EXCEPT ![l].step = "asked", ![l].empty = (users = {})]
    /\ UNCHANGED <<users, clock, now, entries, entitled, requests>>

\* Mutant: no account of that name is taken for no account at all.
NoSuchAccount(l) == \A u \in users : u.name # logins[l].name
NoAccounts(l) == logins[l].empty

\* ... and then, under another lock, for the account.  Without one, the shared
\* password decides when the first answer was that there are none.
VerifyUser(l) ==
    LET candidates == {u \in users : u.name = logins[l].name}
        good == {u \in candidates : u.active /\ u.pw = logins[l].pw}
        fallback == IF NoAccounts(l) /\ logins[l].pw = SharedPassword THEN {Shared} ELSE {}
    IN
    /\ logins[l].step = "asked"
    /\ logins' = [logins EXCEPT ![l].step = "verified",
          ![l].session = IF good = {} THEN fallback
                         ELSE {[id |-> u.id, role |-> u.role] : u \in good}]
    /\ UNCHANGED <<users, clock, now, entries, entitled, requests>>

\* State does not answer, or not in time: neither a failure nor a success.
StateSilent(l) ==
    /\ InFlight(l)
    /\ End(l, "unavailable", {})
    /\ entitled' = [entitled EXCEPT ![l] = {}]
    /\ UNCHANGED <<users, clock, now, entries, requests>>

Succeed(l) ==
    /\ logins[l].step = "verified" /\ logins[l].session # {}
    /\ entries' = Without(entries, {logins[l].peer})
    /\ End(l, "signed in", logins[l].session)
    /\ UNCHANGED <<users, clock, now, entitled, requests>>

\* The failure is recorded at the second the sign-in began, not at this one.
Fail(l) ==
    /\ logins[l].step = "verified" /\ logins[l].session = {}
    /\ entries' \in Recorded(entries, logins[l].peer, logins[l].at)
    /\ End(l, "rejected", {})
    /\ entitled' = [entitled EXCEPT ![l] = {}]
    /\ UNCHANGED <<users, clock, now, requests>>

TimePasses ==
    /\ now < MaxTime /\ now' = now + 1
    /\ UNCHANGED <<users, clock, entries, logins, entitled, requests>>

SignIn ==
    \E l \in Logins :
      \/ \E p \in Peers, name \in Usernames, pw \in Passwords : BeginLogin(l, p, name, pw)
      \/ HasUsers(l) \/ VerifyUser(l) \/ StateSilent(l) \/ Succeed(l) \/ Fail(l)

AccountsNext == Administer \/ SignIn \/ TimePasses
AccountsSpec == AccountsInit /\ [][AccountsNext]_accountsVars
-----------------------------------------------------------------------------
\* Once an administrator can sign in, no sequence of changes and deletions
\* leaves an install that nobody administers.
AdminKept ==
    [][(\E u \in users : ActiveAdmin(u)) => (\E u \in users' : ActiveAdmin(u))]_accountsVars

\* No two users have a name, and no two an id: a sign-in means one account,
\* and a deletion takes one.
UsersDistinct ==
    \A u, v \in users : (u.name = v.name \/ u.id = v.id) => u = v

\* A session names an account, with the role it had, that this name and password
\* opened at some time of the sign-in, or is the shared password's of an install
\* that had no accounts at some time of it.
SessionsEarned ==
    \A l \in Logins : logins[l].step = "signed in" =>
        logins[l].session # {} /\ logins[l].session \subseteq entitled[l]

\* However sign-ins overlap the lock and one another, no more wrong passwords of
\* an address are counted, from its first failure to the end of its lock, than
\* the threshold and the sign-ins that were in flight when the lock fell.  What
\* an evicted entry had counted is forgotten.
GuessesBounded ==
    \A p \in DOMAIN entries : entries[p].failures < Threshold + Cardinality(Logins)
=============================================================================
