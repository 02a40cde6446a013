------------------------- MODULE StateServiceProofs -------------------------
(***************************************************************************)
(* What the parts of state-actix and of auth-actix promise, for any number *)
(* of users, sign-ins, accounts and requests: first an inductive invariant *)
(* for each part by itself, then, at the end, the theorems, for the        *)
(* service in which each part runs among the others.                       *)
(***************************************************************************)
EXTENDS StateService, TLAPS, FiniteSetTheorems

-----------------------------------------------------------------------------
(* The users.  Ids and names stay distinct, and an install that once had an   *)
(* administrator keeps one.  Both rest on a clock that does not give the same *)
(* millisecond to two users (~SameMillis).                                    *)

\* The id of a user was drawn at or before the clock's millisecond, so the next
\* one is new.
UsersInv ==
    /\ clock \in Nat
    /\ IsFiniteSet(users) /\ users \subseteq UserRecords
    /\ UsersDistinct
    /\ \A u \in users : u.id[1] <= clock

\* Both hold of the empty install.
LEMMA UsersInitially == AccountsInit => UsersInv
  BY FS_EmptySet DEF AccountsInit, UsersInv, UsersDistinct

\* A change keeps the id and the name of a record, and its type.
LEMMA ChangedKeeps ==
    ASSUME NEW u \in UserRecords, NEW role \in Roles \cup {Unchanged},
           NEW active \in {"on", "off", Unchanged}, NEW pw \in Passwords \cup {Unchanged}
    PROVE  LET v == Changed(u, role, active, pw)
           IN  v \in UserRecords /\ v.id = u.id /\ v.name = u.name
  <1> DEFINE r == IF role = Unchanged THEN u.role ELSE role
             a == IF active = Unchanged THEN u.active ELSE active = "on"
             p == IF pw = Unchanged THEN u.pw ELSE pw
  <1>1. u.role \in Roles /\ u.active \in BOOLEAN /\ u.pw \in Passwords
        /\ u.id \in Ids /\ u.name \in Usernames
    BY DEF UserRecords
  <1>2. r \in Roles /\ p \in Passwords
    BY <1>1
  <1>3. a \in BOOLEAN
    BY <1>1, Zenon
  <1>4. Changed(u, role, active, pw) =
          [id |-> u.id, name |-> u.name, pw |-> p, role |-> r, active |-> a]
    BY DEF Changed
  <1> HIDE DEF r, a, p
  <1> QED BY <1>1, <1>2, <1>3, <1>4 DEF UserRecords

\* No administrative step and no step of a sign-in lets two users share a name
\* or an id.
LEMMA UsersStep ==
    ASSUME ~SameMillis, UsersInv, [AccountsNext]_accountsVars
    PROVE  UsersInv'
  <1> USE DEF UsersInv
  <1>1. ASSUME NEW name \in Usernames, NEW pw \in Passwords, NEW role \in Roles,
               CreateUser(name, pw, role)
        PROVE  UsersInv'
    <2> DEFINE new == [id |-> <<clock', Cardinality(users) + 1>>, name |-> name,
                       pw |-> pw, role |-> role, active |-> TRUE]
    <2>1. clock' = clock + 1
      BY <1>1 DEF CreateUser
    <2>2. users' = users \cup {new}
      BY <1>1 DEF CreateUser
    <2>3. new \in UserRecords
      BY <2>1, FS_CardinalityType DEF UserRecords, Ids
    <2>4. IsFiniteSet(users')
      BY <2>2, FS_AddElement
    <2>5. \A u \in users : u.name # name
      BY <1>1 DEF CreateUser, NameFree
    <2>6. \A u \in users : u.id[1] \in Nat /\ u.id[1] < clock'
      BY <2>1 DEF UserRecords, Ids
    <2>7. new.id[1] = clock' /\ new.name = name
      OBVIOUS
    <2> HIDE DEF new
    <2>8. \A u \in users : u.name # new.name /\ u.id # new.id
      BY <2>1, <2>5, <2>6, <2>7
    <2>9. UsersDistinct'
      BY <2>2, <2>8 DEF UsersDistinct
    <2>10. \A u \in users' : u.id[1] <= clock'
      BY <2>1, <2>2, <2>6, <2>7
    <2> QED BY <2>1, <2>2, <2>3, <2>4, <2>9, <2>10
  <1>2. ASSUME NEW u \in users, NEW role \in Roles \cup {Unchanged},
               NEW active \in {"on", "off", Unchanged}, NEW pw \in Passwords \cup {Unchanged},
               UpdateUser(u, role, active, pw)
        PROVE  UsersInv'
    <2> DEFINE v == Changed(u, role, active, pw)
    <2>1. v \in UserRecords /\ v.id = u.id /\ v.name = u.name
      BY ChangedKeeps
    <2> HIDE DEF v
    <2>2. users' = (users \ {u}) \cup {v} /\ clock' = clock
      BY <1>2 DEF UpdateUser, v
    <2>3. IsFiniteSet(users')
      BY <2>2, FS_AddElement, FS_RemoveElement
    <2>4. UsersDistinct'
      BY <2>1, <2>2 DEF UsersDistinct
    <2> QED BY <2>1, <2>2, <2>3, <2>4
  <1>3. ASSUME NEW u \in users, DeleteUser(u)
        PROVE  UsersInv'
    <2>1. users' \subseteq users /\ clock' = clock
      BY <1>3 DEF DeleteUser
    <2> QED BY <2>1, FS_Subset DEF UsersDistinct
  <1>4. CASE UNCHANGED <<users, clock>>
    BY <1>4 DEF UsersDistinct
  <1>5. SignIn => UNCHANGED <<users, clock>>
    BY DEF SignIn, BeginLogin, HasUsers, VerifyUser, StateSilent, Succeed, Fail
  <1> QED BY <1>1, <1>2, <1>3, <1>4, <1>5 DEF AccountsNext, Administer, TimePasses, accountsVars
-----------------------------------------------------------------------------
\* A step that leaves no administrator is none of the code's: a change or a
\* deletion of the last one is refused, and nothing else takes the standing.
LEMMA AdminStep ==
    ASSUME UsersInv, [AccountsNext]_accountsVars,
           NEW a \in users, ActiveAdmin(a)
    PROVE  \E u \in users' : ActiveAdmin(u)
  <1>1. ASSUME NEW name \in Usernames, NEW pw \in Passwords, NEW role \in Roles,
               CreateUser(name, pw, role)
        PROVE  a \in users'
    BY <1>1 DEF CreateUser
  <1>2. ASSUME NEW u \in users, NEW role \in Roles \cup {Unchanged},
               NEW active \in {"on", "off", Unchanged}, NEW pw \in Passwords \cup {Unchanged},
               UpdateUser(u, role, active, pw)
        PROVE  \E v \in users' : ActiveAdmin(v)
    <2> DEFINE v == Changed(u, role, active, pw)
    <2>1. /\ LosesAdmin(u, v) => AnotherAdmin(u.id)
          /\ users' = (users \ {u}) \cup {v}
      BY <1>2 DEF UpdateUser
    <2> HIDE DEF v
    <2>2. CASE u # a
      BY <2>1, <2>2
    <2>3. CASE u = a /\ ActiveAdmin(v)
      BY <2>1, <2>3
    <2>4. CASE u = a /\ ~ActiveAdmin(v)
      <3>1. PICK b \in users : b.id # u.id /\ ActiveAdmin(b)
        BY <2>1, <2>4 DEF LosesAdmin, AnotherAdmin
      <3> QED BY <2>1, <3>1
    <2> QED BY <2>2, <2>3, <2>4
  <1>3. ASSUME NEW u \in users, DeleteUser(u)
        PROVE  \E v \in users' : ActiveAdmin(v)
    <2>1. /\ ActiveAdmin(u) => AnotherAdmin(u.id)
          /\ users' = {v \in users : v.id # u.id}
      BY <1>3 DEF DeleteUser
    <2>2. CASE ActiveAdmin(u)
      BY <2>1, <2>2 DEF AnotherAdmin
    <2>3. CASE ~ActiveAdmin(u)
      BY <2>1, <2>3 DEF UsersInv, UsersDistinct
    <2> QED BY <2>2, <2>3
  <1>4. CASE UNCHANGED users
    BY <1>4
  <1>5. SignIn => UNCHANGED users
    BY DEF SignIn, BeginLogin, HasUsers, VerifyUser, StateSilent, Succeed, Fail
  <1> QED BY <1>1, <1>2, <1>3, <1>4, <1>5 DEF AccountsNext, Administer, TimePasses, accountsVars
-----------------------------------------------------------------------------
(* The lockout.  An address that is not locked has failed less often than the *)
(* threshold.  While it is locked no sign-in of it begins, so the failures    *)
(* still to come are those in flight, and their number shrinks as they come.  *)

InFlightOf(p) == {l \in Logins : InFlight(l) /\ logins[l].peer = p}

EntryInv(p) ==
    /\ entries[p] \in Entries
    /\ entries[p].until = 0 => entries[p].failures < Threshold
    /\ entries[p].until # 0 =>
          entries[p].failures + Cardinality(InFlightOf(p)) < Threshold + Cardinality(Logins)

Shaped(l) ==
    "at" \in DOMAIN logins[l] /\ "peer" \in DOMAIN logins[l] /\ logins[l].at \in Nat

LockoutInv ==
    /\ now \in Nat
    /\ \A l \in Logins : Shaped(l)
    /\ \A p \in DOMAIN entries : EntryInv(p)
    /\ DOMAIN logins = Logins

\* The sets of sign-ins are finite, so they can be counted.
LEMMA InFlightCounted ==
    \A p : IsFiniteSet(InFlightOf(p)) /\ Cardinality(InFlightOf(p)) \in Nat /\ Cardinality(Logins) \in Nat
  BY FS_Subset, FS_CardinalityType, LockoutAssumption DEF InFlightOf

\* An entry that stays as it is keeps its invariant when no sign-in of its
\* address begins.
LEMMA EntryStays ==
    ASSUME NEW p \in DOMAIN entries, EntryInv(p), p \in DOMAIN entries',
           entries'[p] = entries[p], InFlightOf(p)' \subseteq InFlightOf(p)
    PROVE  EntryInv(p)'
  <1>1. Cardinality(InFlightOf(p)') <= Cardinality(InFlightOf(p)) /\ Cardinality(InFlightOf(p)') \in Nat
    BY InFlightCounted, FS_Subset, FS_CardinalityType
  <1>2. /\ Cardinality(InFlightOf(p)) \in Nat /\ Cardinality(Logins) \in Nat
        /\ Threshold \in Nat /\ entries[p].failures \in Nat
    BY InFlightCounted, LockoutAssumption DEF EntryInv, Entries
  <1>3. entries'[p].until # 0 =>
          entries'[p].failures + Cardinality(InFlightOf(p)') < Threshold + Cardinality(Logins)
    BY <1>1, <1>2 DEF EntryInv
  <1> QED BY <1>3 DEF EntryInv

\* What one more failure makes of an entry, or of a fresh one.
LEMMA FailedBound ==
    ASSUME NEW e \in Entries, NEW t \in Nat, NEW n \in Nat, NEW m \in Nat, n < m,
           e.until = 0 => e.failures < Threshold,
           e.until # 0 => e.failures + n + 1 < Threshold + m
    PROVE  LET f == Failed(e, t)
           IN  /\ f \in Entries
               /\ f.until = 0 => f.failures < Threshold
               /\ f.until # 0 => f.failures + n < Threshold + m
  <1> DEFINE base == IF Since(t, e.first) >= Window THEN Fresh(t) ELSE e
             failures == base.failures + 1
  <1>1. Threshold \in Nat /\ Threshold > 0 /\ LockDuration \in Nat /\ LockDuration > 0
    BY LockoutAssumption
  <1>2. /\ base.failures \in Nat /\ base.first \in Nat /\ base.until \in Nat
        /\ base.until = 0 => base.failures < Threshold
        /\ base.until # 0 => base.failures + n + 1 < Threshold + m
    BY <1>1 DEF Fresh, Entries
  <1>3. Failed(e, t) =
          [failures |-> failures, first |-> base.first, seen |-> t,
           until |-> IF failures >= Threshold THEN t + LockDuration ELSE base.until]
    BY DEF Failed
  <1> HIDE DEF base
  <1> QED BY <1>1, <1>2, <1>3 DEF Entries

\* It holds of an empty table.
LEMMA LockoutInitially == AccountsInit => LockoutInv
  BY DEF AccountsInit, LockoutInv, Shaped, Over

\* Pruning forgets entries and changes none, and keeps no lock that is over.
LEMMA Pruned ==
    ASSUME NEW t
    PROVE  /\ DOMAIN Prune(entries, t) \subseteq DOMAIN entries
           /\ \A p \in DOMAIN Prune(entries, t) :
                /\ Prune(entries, t)[p] = entries[p]
                /\ entries[p].until > 0 => entries[p].until > t
  BY DEF Prune, Kept

\* The sign-in was in flight before the step, for the same address.
StillAt(l) == InFlight(l) /\ logins'[l].peer = logins[l].peer

\* A step that changes no entry, and begins no sign-in, keeps the invariant.
LEMMA LockoutStays ==
    ASSUME LockoutInv, now' \in Nat, DOMAIN logins' = Logins,
           DOMAIN entries' \subseteq DOMAIN entries,
           \A p \in DOMAIN entries' : entries'[p] = entries[p],
           \A l \in Logins : Shaped(l)' /\ (InFlight(l)' => StillAt(l))
    PROVE  LockoutInv'
  <1>1. ASSUME NEW p \in DOMAIN entries'
        PROVE  EntryInv(p)'
    <2>1. p \in DOMAIN entries /\ entries'[p] = entries[p] /\ EntryInv(p)
      BY <1>1 DEF LockoutInv
    <2>2. InFlightOf(p)' \subseteq InFlightOf(p)
      BY DEF InFlightOf, StillAt
    <2> QED BY <1>1, <2>1, <2>2, EntryStays
  <1> QED BY <1>1 DEF LockoutInv

\* A sign-in that ends is no longer in flight, and no other changes.
LEMMA SignInEnds ==
    ASSUME NEW l \in Logins, NEW step \in {"locked", "unavailable", "signed in", "rejected"},
           NEW session, LockoutInv, End(l, step, session)
    PROVE  /\ DOMAIN logins' = Logins
           /\ \A k \in Logins : Shaped(k)' /\ (InFlight(k)' => k # l /\ StillAt(k))
  <1>1. /\ DOMAIN logins' = Logins /\ logins'[l] = Over(step, logins[l].peer, session)
        /\ \A k \in Logins \ {l} : logins'[k] = logins[k]
    BY DEF End, LockoutInv
  <1>2. ~InFlight(l)' /\ Shaped(l)'
    <2>1. PICK r : r = Over(step, logins[l].peer, session)
      OBVIOUS
    <2>2. r.step = step /\ r.at \in Nat /\ "at" \in DOMAIN r /\ "peer" \in DOMAIN r
      BY <2>1 DEF Over
    <2>3. logins'[l] = r
      BY <1>1, <2>1
    <2>4. r.step \notin {"checked", "asked", "verified"}
      BY <2>2
    <2>5. ~InFlight(l)'
      BY <2>3, <2>4 DEF InFlight
    <2>6. Shaped(l)'
      BY <2>2, <2>3 DEF Shaped
    <2> QED BY <2>5, <2>6
  <1>3. \A k \in Logins \ {l} : Shaped(k)' /\ (InFlight(k)' => StillAt(k))
    BY <1>1 DEF LockoutInv, Shaped, InFlight, StillAt
  <1> QED BY <1>1, <1>2, <1>3

\* Every step of the auth service and of time keeps the invariant.
LEMMA LockoutStep ==
    ASSUME LockoutInv, [AccountsNext]_accountsVars
    PROVE  LockoutInv'
  <1> USE DEF LockoutInv
  <1>1. ASSUME NEW l \in Logins, NEW p \in Peers, NEW name \in Usernames, NEW pw \in Passwords,
               BeginLogin(l, p, name, pw)
        PROVE  LockoutInv'
    <2>1. ~InFlight(l) /\ entries' = Prune(entries, now) /\ now' = now
      BY <1>1 DEF BeginLogin
    <2>2. CASE Locked(entries', p, now)
      <3>1. End(l, "locked", {})
        BY <1>1, <2>2 DEF BeginLogin
      <3>2. /\ DOMAIN logins' = Logins
            /\ \A k \in Logins : Shaped(k)' /\ (InFlight(k)' => StillAt(k))
        BY <3>1, SignInEnds
      <3> QED BY <2>1, <3>2, Pruned, LockoutStays
    <2>3. CASE ~Locked(entries', p, now)
      <3>1. /\ DOMAIN logins' = Logins /\ \A k \in Logins : Shaped(k)'
            /\ logins'[l].peer = p
            /\ \A k \in Logins \ {l} : logins'[k] = logins[k]
        BY <1>1, <2>3 DEF BeginLogin, Shaped
      <3>2. ASSUME NEW q \in DOMAIN entries'
            PROVE  EntryInv(q)'
        <4>1. /\ q \in DOMAIN entries /\ entries'[q] = entries[q] /\ EntryInv(q)
              /\ entries[q].until > 0 => entries[q].until > now
          BY <2>1, <3>2, Pruned
        <4>2. CASE q = p
          <5>1. entries'[q].until = 0
            BY <2>3, <3>2, <4>1, <4>2 DEF Locked, EntryInv, Entries
          <5> QED BY <4>1, <5>1 DEF EntryInv
        <4>3. CASE q # p
          <5>1. InFlightOf(q)' \subseteq InFlightOf(q)
            BY <3>1, <4>3 DEF InFlightOf, InFlight
          <5> QED BY <3>2, <4>1, <5>1, EntryStays
        <4> QED BY <4>2, <4>3
      <3> QED BY <2>1, <3>1, <3>2
    <2> QED BY <2>2, <2>3
  <1>2. ASSUME NEW l \in Logins, HasUsers(l) \/ VerifyUser(l)
        PROVE  LockoutInv'
    <2>1. /\ InFlight(l) /\ now' = now /\ entries' = entries /\ DOMAIN logins' = Logins
          /\ \A k \in Logins \ {l} : logins'[k] = logins[k]
      BY <1>2 DEF HasUsers, VerifyUser, InFlight
    <2>2. Shaped(l)' /\ StillAt(l)
      <3>1. CASE HasUsers(l)
        BY <2>1, <3>1 DEF HasUsers, Shaped, StillAt
      <3>2. CASE VerifyUser(l)
        BY <2>1, <3>2 DEF VerifyUser, Shaped, StillAt
      <3> QED BY <1>2, <3>1, <3>2
    <2>3. \A k \in Logins : Shaped(k)' /\ (InFlight(k)' => StillAt(k))
      BY <2>1, <2>2 DEF InFlight, Shaped, StillAt
    <2> QED BY <2>1, <2>3, LockoutStays
  <1>3. ASSUME NEW l \in Logins, StateSilent(l)
        PROVE  LockoutInv'
    <2>1. End(l, "unavailable", {}) /\ entries' = entries /\ now' = now
      BY <1>3 DEF StateSilent
    <2>2. /\ DOMAIN logins' = Logins
          /\ \A k \in Logins : Shaped(k)' /\ (InFlight(k)' => StillAt(k))
      BY <2>1, SignInEnds
    <2> QED BY <2>1, <2>2, LockoutStays
  <1>4. ASSUME NEW l \in Logins, Succeed(l)
        PROVE  LockoutInv'
    <2>1. /\ End(l, "signed in", logins[l].session) /\ now' = now
          /\ DOMAIN entries' \subseteq DOMAIN entries
          /\ \A q \in DOMAIN entries' : entries'[q] = entries[q]
      BY <1>4 DEF Succeed, Without
    <2>2. /\ DOMAIN logins' = Logins
          /\ \A k \in Logins : Shaped(k)' /\ (InFlight(k)' => StillAt(k))
      BY <2>1, SignInEnds
    <2> QED BY <2>1, <2>2, LockoutStays
  <1>5. ASSUME NEW l \in Logins, Fail(l)
        PROVE  LockoutInv'
    <2>0. PICK p, t : p = logins[l].peer /\ t = logins[l].at
      OBVIOUS
    <2>1. /\ InFlight(l) /\ End(l, "rejected", {}) /\ now' = now
          /\ entries' \in Recorded(entries, p, t)
      BY <1>5, <2>0 DEF Fail, InFlight
    <2>2. /\ DOMAIN logins' = Logins
          /\ \A k \in Logins : Shaped(k)' /\ (InFlight(k)' => k # l /\ StillAt(k))
      BY <2>1, SignInEnds
    <2>3. PICK table :
            /\ DOMAIN table \subseteq DOMAIN entries
            /\ \A q \in DOMAIN table : table[q] = entries[q]
            /\ entries' = [q \in DOMAIN table \cup {p} |->
                  IF q # p THEN table[q]
                  ELSE Failed(IF p \in DOMAIN table THEN table[p] ELSE Fresh(t), t)]
      <3>1. DOMAIN Prune(entries, t) \subseteq DOMAIN entries
            /\ \A q \in DOMAIN Prune(entries, t) : Prune(entries, t)[q] = entries[q]
        BY Pruned
      <3>2. PICK table \in {Without(Prune(entries, t), {q}) : q \in Oldest(Prune(entries, t))}
                           \cup {Prune(entries, t)} :
              entries' = [q \in DOMAIN table \cup {p} |->
                IF q # p THEN table[q]
                ELSE Failed(IF p \in DOMAIN table THEN table[p] ELSE Fresh(t), t)]
        BY <2>1 DEF Recorded
      <3>3. /\ DOMAIN table \subseteq DOMAIN Prune(entries, t)
            /\ \A q \in DOMAIN table : table[q] = Prune(entries, t)[q]
        BY DEF Without
      <3> QED BY <3>1, <3>2, <3>3
    <2>4. ASSUME NEW q \in DOMAIN entries', q # p
          PROVE  EntryInv(q)'
      <3>1. q \in DOMAIN entries /\ entries'[q] = entries[q] /\ EntryInv(q)
        BY <2>3, <2>4
      <3>2. InFlightOf(q)' \subseteq InFlightOf(q)
        BY <2>2 DEF InFlightOf, StillAt
      <3> QED BY <2>4, <3>1, <3>2, EntryStays
    <2>5. EntryInv(p)'
      <3> DEFINE e == IF p \in DOMAIN table THEN table[p] ELSE Fresh(t)
                 n == Cardinality(InFlightOf(p)')
                 m == Cardinality(Logins)
      <3>1. entries'[p] = Failed(e, t)
        BY <2>3
      <3>2. InFlightOf(p)' \subseteq InFlightOf(p) \ {l} /\ l \in InFlightOf(p)
        BY <2>0, <2>1, <2>2 DEF InFlightOf, StillAt
      <3>3. n \in Nat /\ m \in Nat /\ n < m /\ n + 1 <= Cardinality(InFlightOf(p))
            /\ Cardinality(InFlightOf(p)) \in Nat
        <4>1. IsFiniteSet(InFlightOf(p)) /\ IsFiniteSet(Logins) /\ InFlightOf(p) \subseteq Logins
          BY InFlightCounted, LockoutAssumption DEF InFlightOf
        <4>2. Cardinality(InFlightOf(p) \ {l}) = Cardinality(InFlightOf(p)) - 1 /\ IsFiniteSet(InFlightOf(p) \ {l})
          BY <3>2, <4>1, FS_RemoveElement
        <4>3. n <= Cardinality(InFlightOf(p) \ {l}) /\ n \in Nat
          BY <3>2, <4>2, FS_Subset, FS_CardinalityType
        <4>4. Cardinality(InFlightOf(p)) <= m
          BY <4>1, FS_Subset
        <4> QED BY <4>2, <4>3, <4>4, InFlightCounted
      <3>4. /\ e \in Entries
            /\ e.until = 0 => e.failures < Threshold
            /\ e.until # 0 => e.failures + n + 1 < Threshold + m
        <4>1. CASE p \in DOMAIN table
          <5>1. EntryInv(p) /\ e = entries[p]
            BY <2>3, <4>1
          <5>2. Threshold \in Nat /\ e.failures \in Nat
            BY <5>1, LockoutAssumption DEF EntryInv, Entries
          <5> HIDE DEF e, n, m
          <5> QED BY <3>3, <5>1, <5>2 DEF EntryInv, m
        <4>2. CASE p \notin DOMAIN table
          <5>1. e = [failures |-> 0, first |-> t, seen |-> t, until |-> 0]
            BY <4>2 DEF Fresh
          <5>2. t \in Nat /\ Threshold \in Nat /\ Threshold > 0
            BY <2>0, LockoutAssumption DEF Shaped
          <5> HIDE DEF e
          <5> QED BY <5>1, <5>2 DEF Entries
        <4> QED BY <4>1, <4>2
      <3> HIDE DEF e, n, m
      <3>5. t \in Nat
        BY <2>0 DEF Shaped
      <3>6. LET f == Failed(e, t)
            IN  /\ f \in Entries
                /\ f.until = 0 => f.failures < Threshold
                /\ f.until # 0 => f.failures + n < Threshold + m
        BY <3>3, <3>4, <3>5, FailedBound
      <3> QED BY <3>1, <3>6 DEF EntryInv, n, m
    <2> QED BY <2>1, <2>2, <2>4, <2>5
  <1>6. CASE UNCHANGED <<entries, logins>> /\ now' \in Nat
    BY <1>6, LockoutStays DEF InFlight, Shaped, StillAt
  <1>7. Administer \/ TimePasses \/ UNCHANGED accountsVars
          => UNCHANGED <<entries, logins>> /\ now' \in Nat
    BY DEF Administer, CreateUser, UpdateUser, DeleteUser, Edited, TimePasses, accountsVars
  <1> QED BY <1>1, <1>2, <1>3, <1>4, <1>5, <1>6, <1>7 DEF AccountsNext, SignIn

\* The failures remembered are bounded by it.
LEMMA LockoutBounds == LockoutInv => GuessesBounded
  <1> SUFFICES ASSUME LockoutInv, NEW p \in DOMAIN entries
               PROVE  entries[p].failures < Threshold + Cardinality(Logins)
    BY DEF GuessesBounded
  <1>1. /\ EntryInv(p) /\ entries[p].failures \in Nat /\ Threshold \in Nat
        /\ Cardinality(InFlightOf(p)) \in Nat /\ Cardinality(Logins) \in Nat
    BY InFlightCounted, LockoutAssumption DEF LockoutInv, EntryInv, Entries
  <1> QED BY <1>1 DEF EntryInv

-----------------------------------------------------------------------------
(* The session a sign-in ends with.  It is decided between two locks of the   *)
(* state service, while users change; what it was entitled to at some time    *)
(* only grows until then.                                                     *)

LoginFields == {"step", "peer", "at", "name", "pw", "empty", "session"}

\* What a sign-in that has got so far may be given.
SessionInv(l) ==
    /\ LoginFields \subseteq DOMAIN logins[l]
    /\ InFlight(l) =>
          Entitlement(logins[l].name, logins[l].pw, users) \subseteq entitled[l]
    /\ logins[l].step = "asked" /\ logins[l].empty /\ logins[l].pw = SharedPassword =>
          Shared \in entitled[l]
    /\ logins[l].step \in {"verified", "signed in"} => logins[l].session \subseteq entitled[l]
    /\ logins[l].step = "signed in" => logins[l].session # {}

SessionsInv ==
    DOMAIN logins = Logins /\ DOMAIN entitled = Logins /\ \A l \in Logins : SessionInv(l)

\* Nobody signs in at the start.
LEMMA SessionsInitially == AccountsInit => SessionsInv
  <1> SUFFICES ASSUME AccountsInit PROVE SessionsInv
    OBVIOUS
  <1>1. PICK p \in Peers : logins = [l \in Logins |-> Over("idle", p, {})]
    BY DEF AccountsInit
  <1>2. PICK r : r = Over("idle", p, {})
    OBVIOUS
  <1>3. LoginFields \subseteq DOMAIN r /\ r.step = "idle"
    BY <1>2 DEF Over, LoginFields
  <1>4. \A l \in Logins : logins[l] = r
    BY <1>1, <1>2
  <1>5. \A l \in Logins : SessionInv(l)
    BY <1>3, <1>4 DEF SessionInv, InFlight
  <1> QED BY <1>1, <1>5 DEF AccountsInit, SessionsInv

\* A sign-in that ends keeps what it was given, which is what it was entitled to.
LEMMA SessionEnds ==
    ASSUME SessionsInv, NEW l \in Logins, NEW session,
           NEW step \in {"locked", "unavailable", "signed in", "rejected"},
           End(l, step, session), DOMAIN entitled' = Logins, users' = users,
           \A k \in Logins \ {l} : entitled'[k] = entitled[k],
           step = "signed in" => session # {} /\ session \subseteq entitled'[l]
    PROVE  SessionsInv'
  <1>1. PICK r : r = Over(step, logins[l].peer, session)
    OBVIOUS
  <1>2. LoginFields \subseteq DOMAIN r /\ r.step = step /\ r.session = session
    BY <1>1 DEF Over, LoginFields
  <1>3. /\ DOMAIN logins' = Logins /\ logins'[l] = r
        /\ \A k \in Logins \ {l} : logins'[k] = logins[k]
    BY <1>1 DEF End, SessionsInv
  <1>4. SessionInv(l)'
    BY <1>2, <1>3 DEF SessionInv, InFlight
  <1>5. ASSUME NEW k \in Logins, k # l PROVE SessionInv(k)'
    <2>1. SessionInv(k) /\ logins'[k] = logins[k] /\ entitled'[k] = entitled[k]
      BY <1>3, <1>5 DEF SessionsInv
    <2> QED BY <2>1 DEF SessionInv, InFlight
  <1> QED BY <1>3, <1>4, <1>5 DEF SessionsInv

\* A change of the users adds what it entitles the sign-ins in flight to.
LEMMA SessionsEdited ==
    ASSUME SessionsInv, Edited
    PROVE  SessionsInv'
  <1>1. /\ logins' = logins /\ DOMAIN entitled' = Logins
        /\ \A l \in Logins : entitled[l] \subseteq entitled'[l]
        /\ \A l \in Logins : InFlight(l) =>
              Entitlement(logins[l].name, logins[l].pw, users') \subseteq entitled'[l]
    BY DEF Edited
  <1>2. ASSUME NEW l \in Logins PROVE SessionInv(l)'
    <2>1. SessionInv(l)
      BY DEF SessionsInv
    <2>2. InFlight(l)' <=> InFlight(l)
      BY <1>1 DEF InFlight
    <2> QED BY <1>1, <2>1, <2>2 DEF SessionInv
  <1> QED BY <1>1, <1>2 DEF SessionsInv

\* A sign-in that goes on, with the others as they are.
LEMMA SessionGoesOn ==
    ASSUME SessionsInv, NEW l \in Logins, users' = users, DOMAIN logins' = Logins,
           \A k \in Logins \ {l} : logins'[k] = logins[k], entitled' = entitled,
           SessionInv(l)'
    PROVE  SessionsInv'
  <1>1. ASSUME NEW k \in Logins, k # l PROVE SessionInv(k)'
    <2>1. SessionInv(k) /\ logins'[k] = logins[k]
      BY <1>1 DEF SessionsInv
    <2> QED BY <2>1 DEF SessionInv, InFlight
  <1> QED BY <1>1 DEF SessionsInv

\* Whether there are accounts is the first thing asked.
LEMMA HasUsersKeeps ==
    ASSUME SessionsInv, NEW l \in Logins, HasUsers(l)
    PROVE  SessionsInv'
  <1>1. SessionInv(l) /\ DOMAIN logins = Logins /\ LoginFields \subseteq DOMAIN logins[l]
    BY DEF SessionsInv, SessionInv
  <1>2. /\ logins[l].step = "checked" /\ users' = users /\ entitled' = entitled
        /\ logins' = [logins EXCEPT ![l].step = "asked", ![l].empty = (users = {})]
    BY DEF HasUsers
  <1>3. /\ DOMAIN logins' = Logins
        /\ \A k \in Logins \ {l} : logins'[k] = logins[k]
        /\ logins'[l] = [logins[l] EXCEPT !.step = "asked", !.empty = (users = {})]
    BY <1>1, <1>2
  <1>4. /\ DOMAIN logins'[l] = DOMAIN logins[l]
        /\ logins'[l].step = "asked" /\ logins'[l].empty <=> users = {}
        /\ logins'[l].name = logins[l].name /\ logins'[l].pw = logins[l].pw
    BY <1>1, <1>3 DEF LoginFields
  <1>5. Entitlement(logins[l].name, logins[l].pw, users) \subseteq entitled[l]
    BY <1>1, <1>2 DEF SessionInv, InFlight
  <1>6. users = {} /\ logins[l].pw = SharedPassword => Shared \in entitled[l]
    BY <1>5 DEF Entitlement
  <1>7. SessionInv(l)'
    BY <1>1, <1>2, <1>4, <1>5, <1>6 DEF SessionInv, InFlight
  <1> QED BY <1>2, <1>3, <1>7, SessionGoesOn

\* The account is the second.
LEMMA VerifyUserKeeps ==
    ASSUME SessionsInv, NEW l \in Logins, VerifyUser(l)
    PROVE  SessionsInv'
  <1> DEFINE good == {u \in {v \in users : v.name = logins[l].name} :
                         u.active /\ u.pw = logins[l].pw}
             fallback == IF NoAccounts(l) /\ logins[l].pw = SharedPassword THEN {Shared} ELSE {}
             session == IF good = {} THEN fallback
                        ELSE {[id |-> u.id, role |-> u.role] : u \in good}
  <1>1. SessionInv(l) /\ DOMAIN logins = Logins /\ LoginFields \subseteq DOMAIN logins[l]
    BY DEF SessionsInv, SessionInv
  <1>2. /\ logins[l].step = "asked" /\ users' = users /\ entitled' = entitled
        /\ logins' = [logins EXCEPT ![l].step = "verified", ![l].session = session]
    BY DEF VerifyUser
  <1>3. Entitlement(logins[l].name, logins[l].pw, users) \subseteq entitled[l]
    BY <1>1, <1>2 DEF SessionInv, InFlight
  <1>4. session \subseteq entitled[l]
    <2>1. CASE good = {}
      BY <1>1, <1>2, <2>1 DEF SessionInv, NoAccounts
    <2>2. CASE good # {}
      <3>1. {[id |-> u.id, role |-> u.role] : u \in good}
              \subseteq Entitlement(logins[l].name, logins[l].pw, users)
        BY DEF Entitlement
      <3> QED BY <1>3, <2>2, <3>1
    <2> QED BY <2>1, <2>2
  <1> HIDE DEF session
  <1>5. /\ DOMAIN logins' = Logins
        /\ \A k \in Logins \ {l} : logins'[k] = logins[k]
        /\ logins'[l] = [logins[l] EXCEPT !.step = "verified", !.session = session]
    BY <1>1, <1>2
  <1>6. /\ DOMAIN logins'[l] = DOMAIN logins[l]
        /\ logins'[l].step = "verified" /\ logins'[l].session = session
        /\ logins'[l].name = logins[l].name /\ logins'[l].pw = logins[l].pw
    BY <1>1, <1>5 DEF LoginFields
  <1>7. SessionInv(l)'
    BY <1>1, <1>2, <1>3, <1>4, <1>6 DEF SessionInv, InFlight
  <1> QED BY <1>2, <1>5, <1>7, SessionGoesOn

\* A sign-in begins with what it is entitled to now, or is refused.
LEMMA BeginLoginKeeps ==
    ASSUME SessionsInv, NEW l \in Logins, NEW p \in Peers, NEW name \in Usernames,
           NEW pw \in Passwords, BeginLogin(l, p, name, pw)
    PROVE  SessionsInv'
  <1>1. DOMAIN logins = Logins /\ DOMAIN entitled = Logins /\ users' = users
    BY DEF SessionsInv, BeginLogin
  <1>2. CASE Locked(entries', p, now)
    <2>1. End(l, "locked", {}) /\ entitled' = [entitled EXCEPT ![l] = {}]
      BY <1>2 DEF BeginLogin
    <2> QED BY <1>1, <2>1, SessionEnds
  <1>3. CASE ~Locked(entries', p, now)
    <2>1. PICK r : r = [step |-> "checked", peer |-> p, at |-> now, name |-> name, pw |-> pw,
                        empty |-> FALSE, session |-> {}]
      OBVIOUS
    <2>2. LoginFields \subseteq DOMAIN r /\ r.step = "checked" /\ r.name = name /\ r.pw = pw
      BY <2>1 DEF LoginFields
    <2>3. /\ logins' = [logins EXCEPT ![l] = r]
          /\ entitled' = [entitled EXCEPT ![l] = Entitlement(name, pw, users)]
      BY <1>3, <2>1 DEF BeginLogin
    <2>4. /\ DOMAIN logins' = Logins /\ DOMAIN entitled' = Logins /\ logins'[l] = r
          /\ entitled'[l] = Entitlement(name, pw, users)
          /\ \A k \in Logins \ {l} : logins'[k] = logins[k] /\ entitled'[k] = entitled[k]
      BY <1>1, <2>3
    <2>5. SessionInv(l)'
      BY <1>1, <2>2, <2>4 DEF SessionInv, InFlight
    <2>6. ASSUME NEW k \in Logins, k # l PROVE SessionInv(k)'
      <3>1. SessionInv(k) /\ logins'[k] = logins[k] /\ entitled'[k] = entitled[k]
        BY <2>4, <2>6 DEF SessionsInv
      <3> QED BY <1>1, <3>1 DEF SessionInv, InFlight
    <2> QED BY <2>4, <2>5, <2>6 DEF SessionsInv
  <1> QED BY <1>2, <1>3

\* Every step keeps it.
LEMMA SessionsStep ==
    ASSUME SessionsInv, [AccountsNext]_accountsVars
    PROVE  SessionsInv'
  <1>1. CASE Administer
    <2>1. Edited
      BY <1>1 DEF Administer, CreateUser, UpdateUser, DeleteUser
    <2> QED BY <2>1, SessionsEdited
  <1>2. ASSUME NEW l \in Logins, StateSilent(l) \/ Fail(l)
        PROVE  SessionsInv'
    <2>1. PICK step \in {"unavailable", "rejected"} :
              /\ End(l, step, {}) /\ users' = users
              /\ entitled' = [entitled EXCEPT ![l] = {}]
      BY <1>2 DEF StateSilent, Fail
    <2>2. DOMAIN entitled' = Logins /\ \A k \in Logins \ {l} : entitled'[k] = entitled[k]
      BY <2>1 DEF SessionsInv
    <2> QED BY <2>1, <2>2, SessionEnds
  <1>3. ASSUME NEW l \in Logins, Succeed(l)
        PROVE  SessionsInv'
    <2>1. /\ logins[l].step = "verified" /\ logins[l].session # {}
          /\ End(l, "signed in", logins[l].session) /\ users' = users /\ entitled' = entitled
      BY <1>3 DEF Succeed
    <2>2. logins[l].session \subseteq entitled[l] /\ DOMAIN entitled = Logins
      BY <2>1 DEF SessionsInv, SessionInv
    <2> QED BY <2>1, <2>2, SessionEnds
  <1>4. CASE TimePasses \/ UNCHANGED accountsVars
    BY <1>4 DEF TimePasses, accountsVars, SessionsInv, SessionInv, InFlight
  <1> QED
    BY <1>1, <1>2, <1>3, <1>4, HasUsersKeeps, VerifyUserKeeps, BeginLoginKeeps
    DEF AccountsNext, SignIn

-----------------------------------------------------------------------------
(* The rotation.  A pick that passes an account over adds to the turns the    *)
(* others have had since its own last one, and those are at most one full     *)
(* turn of each.  It needs a clock on which no two picks share a millisecond. *)

\* The turns the others have had since account i had its last: one for each use they
\* count.
TurnsSince(i) ==
    {t \in Pool \X (1..StickyLimit) :
        t[1] # i /\ lastUsed[t[1]] > lastUsed[i] /\ t[2] <= uses[t[1]]}

RotationShape ==
    /\ lastUsed \in [Pool -> Nat] /\ uses \in [Pool -> 0..StickyLimit]
    /\ millis \in Nat \ {0} /\ last \in 0..N /\ streak \in Nat /\ waited \in [Pool -> Nat]

\* No two accounts were used at one time, and the last one chosen is the latest.
LatestInv ==
    /\ \A i \in Pool : lastUsed[i] <= millis
    /\ \A i, j \in Pool : i # j /\ lastUsed[i] = lastUsed[j] => lastUsed[i] = 0
    /\ last # 0 => lastUsed[last] # 0 /\ \A i \in Pool : lastUsed[i] <= lastUsed[last]

\* A streak is counted in the uses, and a wait in the turns of the others.
StreakInv == IF last = 0 THEN streak = 0 ELSE streak <= uses[last]
WaitInv == \A i \in Pool : waited[i] <= Cardinality(TurnsSince(i))

RotationInv == RotationShape /\ LatestInv /\ StreakInv /\ WaitInv

\* There are finitely many turns: those of one account less than there are.
LEMMA TurnsCounted ==
    ASSUME NEW i \in Pool, NEW turns \in SUBSET ((Pool \ {i}) \X (1..StickyLimit))
    PROVE  /\ IsFiniteSet(turns) /\ Cardinality(turns) \in Nat
           /\ Cardinality(turns) <= (N - 1) * StickyLimit
  <1>1. N \in Nat /\ StickyLimit \in Nat /\ 1 <= N /\ 1 <= StickyLimit
    BY RotationAssumption
  <1>2. IsFiniteSet(Pool) /\ Cardinality(Pool) = N
    BY <1>1, FS_Interval DEF Pool
  <1>3. IsFiniteSet(Pool \ {i}) /\ Cardinality(Pool \ {i}) = N - 1
    BY <1>2, FS_RemoveElement
  <1>4. IsFiniteSet(1..StickyLimit) /\ Cardinality(1..StickyLimit) = StickyLimit
    BY <1>1, FS_Interval
  <1>5. /\ IsFiniteSet((Pool \ {i}) \X (1..StickyLimit))
        /\ Cardinality((Pool \ {i}) \X (1..StickyLimit)) = (N - 1) * StickyLimit
    <2>1. PICK others, counts : others = Pool \ {i} /\ counts = 1..StickyLimit
      OBVIOUS
    <2>2. /\ IsFiniteSet(others \X counts)
          /\ Cardinality(others \X counts) = Cardinality(others) * Cardinality(counts)
      BY <1>3, <1>4, <2>1, FS_Product, ZenonT(30)
    <2>3. Cardinality(others) = N - 1 /\ Cardinality(counts) = StickyLimit
      BY <1>3, <1>4, <2>1
    <2> QED BY <2>1, <2>2, <2>3, ZenonT(30)
  <1> DEFINE all == (Pool \ {i}) \X (1..StickyLimit)
  <1>6. IsFiniteSet(turns) /\ Cardinality(turns) <= Cardinality(all)
    <2>1. IsFiniteSet(all) /\ turns \subseteq all
      BY <1>5
    <2> HIDE DEF all
    <2> QED BY <2>1, FS_Subset
  <1> QED BY <1>5, <1>6, FS_CardinalityType

\* Such are the turns since an account's last one.
LEMMA TurnsSinceCounted ==
    ASSUME NEW i \in Pool
    PROVE  /\ IsFiniteSet(TurnsSince(i)) /\ Cardinality(TurnsSince(i)) \in Nat
           /\ Cardinality(TurnsSince(i)) <= (N - 1) * StickyLimit
  <1>1. TurnsSince(i) \subseteq (Pool \ {i}) \X (1..StickyLimit)
    BY DEF TurnsSince
  <1> QED BY <1>1, TurnsCounted

\* No account was ever used at the start.
LEMMA RotationInitially == RotationInit => RotationInv
  <1> SUFFICES ASSUME RotationInit PROVE RotationInv
    OBVIOUS
  <1>1. RotationShape /\ LatestInv /\ StreakInv
    BY RotationAssumption DEF RotationInit, RotationShape, LatestInv, StreakInv
  <1>2. WaitInv
    BY TurnsSinceCounted DEF RotationInit, WaitInv
  <1> QED BY <1>1, <1>2 DEF RotationInv

\* A pick gives the turn to an account whose uses go on, or begin anew with one.
LEMMA PickChooses ==
    ASSUME RotationInv, NEW available \in SUBSET Pool, NEW tick \in Ticks,
           Pick(available, tick), 0 \notin Ticks
    PROVE  \E i \in available :
             /\ millis' = millis + 1 /\ Record(available, i)
             /\ lastUsed' = [lastUsed EXCEPT ![i] = millis + 1]
             /\ \/ /\ lastUsed[i] # 0 /\ uses[i] < StickyLimit
                   /\ uses' = [uses EXCEPT ![i] = uses[i] + 1]
                \/ /\ \A j \in available \ {i} : lastUsed[i] <= lastUsed[j]
                   /\ uses' = [uses EXCEPT ![i] = 1]
  <1>1. tick = 1
    BY RotationAssumption
  <1>2. PICK i \in Chosen(available) :
          /\ uses' = [uses EXCEPT ![i] = IF Stay(available) # {} THEN @ + 1 ELSE 1]
          /\ lastUsed' = [lastUsed EXCEPT ![i] = millis']
          /\ Record(available, i)
    BY DEF Pick
  <1>3. millis' = millis + 1
    BY <1>1 DEF Pick
  <1>4. CASE Stay(available) # {}
    <2>1. i \in Stay(available) /\ uses' = [uses EXCEPT ![i] = uses[i] + 1]
      BY <1>2, <1>4 DEF Chosen
    <2>2. i \in available /\ lastUsed[i] # 0 /\ uses[i] < StickyLimit
      BY <2>1 DEF Stay, MostRecent
    <2> QED BY <1>2, <1>3, <2>1, <2>2
  <1>5. CASE Stay(available) = {}
    <2>1. i \in LeastRecent(available) /\ uses' = [uses EXCEPT ![i] = 1]
      BY <1>2, <1>5 DEF Chosen
    <2>2. \A j \in Pool : lastUsed[j] \in Nat
      BY DEF RotationInv, RotationShape
    <2>3. i \in available /\ \A j \in available \ {i} : lastUsed[i] <= lastUsed[j]
      BY <2>1, <2>2 DEF LeastRecent
    <2> QED BY <1>2, <1>3, <2>1, <2>3
  <1> QED BY <1>4, <1>5

\* Every pick keeps the streak within the uses and the waits within the turns.
LEMMA PickKeeps ==
    ASSUME RotationInv, NEW available \in SUBSET Pool, NEW tick \in Ticks,
           Pick(available, tick), 0 \notin Ticks
    PROVE  RotationInv'
  <1>1. PICK i \in available :
             /\ millis' = millis + 1 /\ Record(available, i)
             /\ lastUsed' = [lastUsed EXCEPT ![i] = millis + 1]
             /\ \/ /\ lastUsed[i] # 0 /\ uses[i] < StickyLimit
                   /\ uses' = [uses EXCEPT ![i] = uses[i] + 1]
                \/ /\ \A j \in available \ {i} : lastUsed[i] <= lastUsed[j]
                   /\ uses' = [uses EXCEPT ![i] = 1]
    BY PickChooses
  <1>2. /\ RotationShape /\ LatestInv /\ StreakInv /\ WaitInv
        /\ StickyLimit \in Nat /\ 1 <= StickyLimit /\ N \in Nat /\ i \in Pool
        /\ \A k \in Pool : lastUsed[k] \in Nat /\ uses[k] \in 0..StickyLimit /\ waited[k] \in Nat
        /\ millis \in Nat
    BY RotationAssumption DEF RotationInv, RotationShape
  <1>3. /\ lastUsed'[i] = millis + 1
        /\ \A k \in Pool \ {i} : lastUsed'[k] = lastUsed[k] /\ uses'[k] = uses[k]
        /\ uses'[i] \in 1..StickyLimit
    <2>1. lastUsed'[i] = millis + 1 /\ \A k \in Pool \ {i} : lastUsed'[k] = lastUsed[k]
      BY <1>1, <1>2 DEF RotationShape
    <2>2. \A k \in Pool \ {i} : uses'[k] = uses[k]
      BY <1>1, <1>2 DEF RotationShape
    <2>3. (uses'[i] = uses[i] + 1 /\ uses[i] < StickyLimit) \/ uses'[i] = 1
      BY <1>1, <1>2 DEF RotationShape
    <2> QED BY <1>2, <2>1, <2>2, <2>3
  <1>4. /\ last' = i
        /\ streak' = IF available = {i} THEN 0 ELSE IF i = last THEN streak + 1 ELSE 1
        /\ waited' = [j \in Pool |-> IF j \in available \ {i} THEN waited[j] + 1 ELSE 0]
    BY <1>1 DEF Record
  <1>5. RotationShape'
    <2>1. lastUsed' \in [Pool -> Nat] /\ uses' \in [Pool -> 0..StickyLimit]
      BY <1>1, <1>2 DEF RotationShape
    <2>2. waited' \in [Pool -> Nat]
      BY <1>2, <1>4
    <2>3. millis' \in Nat \ {0} /\ last' \in 0..N /\ streak' \in Nat
      BY <1>1, <1>2, <1>4 DEF RotationShape, Pool
    <2> QED BY <2>1, <2>2, <2>3 DEF RotationShape
  <1>6. LatestInv'
    <2>1. \A k \in Pool : lastUsed'[k] <= millis + 1
      BY <1>2, <1>3 DEF LatestInv
    <2>2. \A k \in Pool \ {i} : lastUsed'[k] < millis + 1
      BY <1>2, <1>3 DEF LatestInv
    <2>3. \A k, j \in Pool : k # j /\ lastUsed'[k] = lastUsed'[j] => lastUsed'[k] = 0
      BY <1>2, <1>3, <2>2 DEF LatestInv
    <2> QED BY <1>1, <1>2, <1>3, <1>4, <2>1, <2>3 DEF LatestInv
  <1>7. StreakInv'
    <2>1. last' # 0 /\ last' = i
      BY <1>2, <1>4 DEF Pool
    <2>2. CASE available = {i} \/ i # last
      <3>1. streak' \in {0, 1}
        BY <1>4, <2>2
      <3> QED BY <1>3, <2>1, <3>1 DEF StreakInv
    <2>3. CASE available # {i} /\ i = last
      <3>1. streak' = streak + 1
        BY <1>4, <2>3
      <3>2. streak <= uses[i] /\ lastUsed[i] # 0
        BY <1>2, <2>1, <2>3 DEF StreakInv, LatestInv
      <3>3. PICK j \in available \ {i} : TRUE
        BY <2>3
      <3>4. lastUsed[j] < lastUsed[i]
        BY <1>2, <2>1, <2>3, <3>2, <3>3 DEF LatestInv
      <3>5. uses'[i] = uses[i] + 1
        BY <1>1, <1>2, <3>3, <3>4 DEF RotationShape
      <3>6. streak \in Nat /\ uses[i] \in Nat
        BY <1>2 DEF RotationShape
      <3> QED BY <2>1, <3>1, <3>2, <3>5, <3>6 DEF StreakInv
    <2> QED BY <2>2, <2>3
  <1>8. WaitInv'
    <2> SUFFICES ASSUME NEW j \in Pool
                 PROVE  waited'[j] <= Cardinality(TurnsSince(j)')
      BY DEF WaitInv
    <2>0. IsFiniteSet(TurnsSince(j)') /\ Cardinality(TurnsSince(j)') \in Nat
      <3>1. TurnsSince(j)' \subseteq (Pool \ {j}) \X (1..StickyLimit)
        BY DEF TurnsSince
      <3> QED BY <3>1, TurnsCounted
    <2>1. CASE j \notin available \ {i}
      BY <1>4, <2>0, <2>1
    <2>2. CASE j \in available \ {i}
      <3>1. waited'[j] = waited[j] + 1 /\ lastUsed'[j] = lastUsed[j] /\ lastUsed[j] <= millis
        BY <1>2, <1>3, <1>4, <2>2 DEF LatestInv
      <3>2. PICK n \in 1..StickyLimit :
              <<i, n>> \in TurnsSince(j)' /\ <<i, n>> \notin TurnsSince(j)
        <4>0. lastUsed'[i] > lastUsed'[j] /\ i # j
          BY <1>2, <1>3, <2>2, <3>1
        <4>1. CASE uses[i] < StickyLimit /\ uses' = [uses EXCEPT ![i] = uses[i] + 1]
          <5>1. uses'[i] = uses[i] + 1 /\ uses[i] + 1 \in 1..StickyLimit
            BY <1>2, <4>1 DEF RotationShape
          <5>2. <<i, uses[i] + 1>> \in TurnsSince(j)'
            BY <1>2, <4>0, <5>1 DEF TurnsSince
          <5>3. <<i, uses[i] + 1>> \notin TurnsSince(j)
            BY <1>2 DEF TurnsSince
          <5> QED BY <5>1, <5>2, <5>3
        <4>2. CASE /\ \A k \in available \ {i} : lastUsed[i] <= lastUsed[k]
                   /\ uses' = [uses EXCEPT ![i] = 1]
          <5>1. uses'[i] = 1 /\ lastUsed[i] <= lastUsed[j]
            BY <1>2, <2>2, <4>2 DEF RotationShape
          <5>2. <<i, 1>> \in TurnsSince(j)'
            BY <1>2, <4>0, <5>1 DEF TurnsSince
          <5>3. <<i, 1>> \notin TurnsSince(j)
            BY <1>2, <5>1 DEF TurnsSince
          <5> QED BY <1>2, <5>2, <5>3
        <4> QED BY <1>1, <4>1, <4>2
      <3>3. ASSUME NEW t \in TurnsSince(j) PROVE t \in TurnsSince(j)'
        <4>1. PICK k \in Pool, m \in 1..StickyLimit :
                t = <<k, m>> /\ k # j /\ lastUsed[k] > lastUsed[j] /\ m <= uses[k]
          BY DEF TurnsSince
        <4>2. lastUsed'[k] > lastUsed'[j]
          BY <1>2, <1>3, <3>1, <4>1
        <4>3. m <= uses'[k]
          <5>1. CASE k # i
            BY <1>3, <4>1, <5>1
          <5>2. CASE k = i
            <6>1. uses' = [uses EXCEPT ![i] = uses[i] + 1]
              BY <1>1, <1>2, <2>2, <4>1, <5>2
            <6>2. uses'[i] = uses[i] + 1
              BY <1>2, <6>1 DEF RotationShape
            <6> QED BY <1>2, <4>1, <5>2, <6>2
          <5> QED BY <5>1, <5>2
        <4> QED BY <4>1, <4>2, <4>3 DEF TurnsSince
      <3>4. TurnsSince(j) \cup {<<i, n>>} \subseteq TurnsSince(j)'
        BY <3>2, <3>3
      <3>5. IsFiniteSet(TurnsSince(j)) /\ Cardinality(TurnsSince(j)) \in Nat
        BY TurnsSinceCounted
      <3>6. /\ Cardinality(TurnsSince(j) \cup {<<i, n>>}) = Cardinality(TurnsSince(j)) + 1
        BY <3>2, <3>5, FS_AddElement
      <3>7. Cardinality(TurnsSince(j) \cup {<<i, n>>}) <= Cardinality(TurnsSince(j)')
        BY <2>0, <3>4, FS_Subset
      <3>8. waited[j] <= Cardinality(TurnsSince(j)) /\ waited[j] \in Nat
        BY <1>2 DEF WaitInv
      <3> QED BY <2>0, <3>1, <3>5, <3>6, <3>7, <3>8
    <2> QED BY <2>1, <2>2
  <1> QED BY <1>5, <1>6, <1>7, <1>8 DEF RotationInv

\* So does every step.
LEMMA RotationStep ==
    ASSUME 0 \notin Ticks, RotationInv, [RotationNext]_rotationVars
    PROVE  RotationInv'
  <1>1. CASE RotationNext
    BY <1>1, PickKeeps DEF RotationNext
  <1>2. CASE UNCHANGED rotationVars
    BY <1>2 DEF rotationVars, RotationInv, RotationShape, LatestInv, StreakInv, WaitInv, TurnsSince
  <1> QED BY <1>1, <1>2

\* The turns are shared out wherever the bookkeeping is right.
LEMMA RotationIsFair == RotationInv => TurnsAreFair
  <1> SUFFICES ASSUME RotationInv PROVE TurnsAreFair
    OBVIOUS
  <1>1. streak <= StickyLimit
    <2>1. last = 0 => streak = 0
      BY DEF RotationInv, StreakInv
    <2>2. last # 0 => last \in Pool /\ streak <= uses[last]
      BY DEF RotationInv, RotationShape, StreakInv, Pool
    <2>3. \A i \in Pool : uses[i] \in 0..StickyLimit
      BY DEF RotationInv, RotationShape
    <2> QED BY <2>1, <2>2, <2>3, RotationAssumption DEF RotationInv, RotationShape
  <1>2. ASSUME NEW i \in Pool PROVE waited[i] <= (N - 1) * StickyLimit
    <2>1. waited[i] \in Nat /\ waited[i] <= Cardinality(TurnsSince(i))
      BY DEF RotationInv, RotationShape, WaitInv
    <2>2. (N - 1) * StickyLimit \in Int
      BY RotationAssumption
    <2> HIDE DEF Pool
    <2> QED BY <2>1, <2>2, TurnsSinceCounted
  <1> QED BY <1>1, <1>2 DEF TurnsAreFair, StickyLimitHonoured, BoundedWait

-----------------------------------------------------------------------------
(* The imports.  Where a request can be depends on what it imports; what it   *)
(* counts and what it spent depends on where it is.                           *)

RequestFields == {"step", "by", "key", "left", "won", "lost", "landed", "moved", "pool", "target"}
RequestShape(w) ==
    /\ RequestFields \subseteq DOMAIN req[w] /\ req[w].by \in Importers \cup {Dashboard}
    /\ req[w].key \in Nat /\ req[w].left \in Nat /\ req[w].won \in Nat
    /\ req[w].lost \in Nat /\ req[w].landed \in Nat /\ req[w].moved \in BOOLEAN

CourseInv(w) == LET r == req[w] IN
    /\ r.step \in {"verify", "refresh"} => r.by.first = r.step
    /\ r.step \in {"read", "rotate"} => r.by.first = "read"
    /\ r.step = "item" => r.by.first = "item"
    /\ r.step = "bind" => r.by = Dashboard
    /\ r.step \in {"post", "landed", "declined"} => r.by # Dashboard
    /\ r.by = IflowCookie /\ r.step \in {"post", "landed", "declined"} => r.moved

\* The accounts of a bulk import, dealt with or left.
CountInv(w) == LET r == req[w] IN
    /\ r.by.first # "item" => r.won = 0 /\ r.lost = 0
    /\ r.by.first = "item" /\ r.step \in {"item", "post", "landed", "declined"} =>
          r.won + r.lost + r.left = r.by.accounts /\ (r.step # "item" => r.left > 0)
    /\ r.by.first = "item" /\ r.step = "success" => r.won + r.lost = r.by.accounts

\* What state applied of it, and what the provider has seen of it.
LandedInv(w) == LET r == req[w] IN
    /\ r.won <= r.landed /\ (r.step = "landed" => r.won < r.landed)
    /\ r.by.first # "item"
          /\ r.step \in {"verify", "refresh", "read", "rotate", "post", "declined"} => r.landed = 0
    /\ r.by.first # "item" /\ r.by # Dashboard /\ r.step \in {"landed", "success"} => r.landed = 1
    /\ r.step \in {"verify", "refresh", "read", "rotate"} => ~r.moved
    /\ r.by # Dashboard /\ r.step = "invalid" => r.landed = 0 /\ ~r.moved
    /\ r.by.first = "verify"
          /\ (r.landed > 0 \/ r.step \in {"post", "landed", "declined", "unrecorded"}) => r.key = Good

RequestInv(w) == RequestShape(w) /\ CourseInv(w) /\ CountInv(w) /\ LandedInv(w)

RequestsInv ==
    /\ DOMAIN req = Clients /\ \A w \in Clients : RequestInv(w)
    /\ kiro \in Nat /\ kiro >= 10

\* What the proofs need to know of the importers.
LEMMA ImporterFacts ==
    /\ \A i \in Importers :
          /\ i.accounts \in {1, 2} /\ (i.accounts > 1 <=> i.first = "item")
          /\ i.first \in {"verify", "refresh", "read", "post", "item"} /\ i # Dashboard
          /\ i.first = "read" <=> i = IflowCookie
          /\ i.provider = "iflow" <=> i = IflowCookie
    /\ Dashboard.first = "bind" /\ Dashboard # IflowCookie /\ Dashboard.provider = "openai"
    /\ Dashboard.accounts = 1 /\ IflowCookie \in Importers /\ KiroImport \in Importers
  BY DEF Importers, Dashboard, Importer, GitlabPat, KiroApiKey, CodexImportToken, CursorImport,
         KiroImport, IflowCookie, CodexBulkImport, KiroImportCliProxy, GrokCliBulkImport,
         XiaomiMimoApiKey

\* The other requests are as they were.
Others(w) == DOMAIN req' = Clients /\ \A v \in Clients \ {w} : req'[v] = req[v]

\* The request is where it was with all but its step.
AsItWas(w) == LET r == req[w] IN
    /\ RequestFields \subseteq DOMAIN req'[w]
    /\ req'[w].by = r.by /\ req'[w].key = r.key /\ req'[w].left = r.left /\ req'[w].won = r.won
    /\ req'[w].lost = r.lost /\ req'[w].landed = r.landed /\ req'[w].moved = r.moved

\* One request changes.
LEMMA OneRequest ==
    ASSUME RequestsInv, NEW w \in Clients, Others(w), RequestInv(w)',
           kiro' \in Nat, kiro' >= 10
    PROVE  RequestsInv'
  <1>1. ASSUME NEW v \in Clients, v # w PROVE RequestInv(v)'
    <2>1. req'[v] = req[v] /\ RequestInv(v)
      BY <1>1 DEF Others, RequestsInv
    <2> QED BY <2>1 DEF RequestInv, RequestShape, CourseInv, CountInv, LandedInv
  <1> QED BY <1>1 DEF RequestsInv, Others

\* A step is all that changes of it.
LEMMA StepOnly ==
    ASSUME RequestsInv, NEW w \in Clients, NEW step, To(w, step)
    PROVE  Others(w) /\ AsItWas(w) /\ req'[w].step = step
  <1>1. RequestFields \subseteq DOMAIN req[w] /\ DOMAIN req = Clients
    BY DEF RequestsInv, RequestInv, RequestShape
  <1>2. req' = [req EXCEPT ![w].step = step]
    BY DEF To
  <1>3. /\ DOMAIN req' = Clients /\ \A v \in Clients \ {w} : req'[v] = req[v]
        /\ req'[w] = [req[w] EXCEPT !.step = step]
    BY <1>1, <1>2
  <1> QED BY <1>1, <1>3 DEF Others, AsItWas, RequestFields

\* An account of a bulk import is counted.
LEMMA ItemCounts ==
    ASSUME RequestsInv, NEW w \in Clients, NEW won \in BOOLEAN, ItemDone(w, won),
           req[w].by.first = "item",
           req[w].step \in {"item", "post", "landed", "declined"}, req[w].left # 0,
           won => req[w].step = "landed"
    PROVE  Others(w) /\ RequestInv(w)' /\ req'[w].by = req[w].by
  <1>1. RequestInv(w) /\ RequestFields \subseteq DOMAIN req[w] /\ DOMAIN req = Clients
    BY DEF RequestsInv, RequestInv, RequestShape
  <1>2. /\ DOMAIN req' = Clients /\ \A v \in Clients \ {w} : req'[v] = req[v]
        /\ req'[w] = [req[w] EXCEPT !.step = "item", !.left = @ - 1,
                          !.won = IF won THEN @ + 1 ELSE @, !.lost = IF won THEN @ ELSE @ + 1]
    BY <1>1 DEF ItemDone
  <1>3. /\ RequestFields \subseteq DOMAIN req'[w] /\ req'[w].step = "item"
        /\ req'[w].by = req[w].by /\ req'[w].key = req[w].key
        /\ req'[w].landed = req[w].landed /\ req'[w].moved = req[w].moved
        /\ req'[w].left = req[w].left - 1
        /\ req'[w].won = IF won THEN req[w].won + 1 ELSE req[w].won
        /\ req'[w].lost = IF won THEN req[w].lost ELSE req[w].lost + 1
    BY <1>1, <1>2 DEF RequestFields
  <1>4. req[w].by \in Importers /\ req[w].by.accounts \in Nat
    BY <1>1, ImporterFacts DEF RequestInv, RequestShape
  <1>5. RequestShape(w)'
    BY <1>1, <1>3 DEF RequestInv, RequestShape
  <1>6. CourseInv(w)'
    BY <1>1, <1>3 DEF RequestInv, CourseInv
  <1>7. CountInv(w)'
    BY <1>1, <1>3, <1>4 DEF RequestInv, CountInv, RequestShape
  <1>8. LandedInv(w)'
    BY <1>1, <1>3 DEF RequestInv, LandedInv, RequestShape
  <1> QED BY <1>2, <1>3, <1>5, <1>6, <1>7, <1>8 DEF RequestInv, Others

\* A request that arrives is fresh.
LEMMA Arrives ==
    ASSUME RequestsInv, NEW w \in Clients, NEW i \in Offered, NEW key \in {Good, Bad},
           Arrive(w, i, key)
    PROVE  Others(w) /\ RequestInv(w)' /\ req'[w].moved = FALSE
  <1>1. DOMAIN req = Clients /\ i \in Importers /\ kiro \in Nat /\ kiro >= 10
    BY ImportAssumption DEF RequestsInv
  <1>2. PICK step \in {i.first, "invalid"} :
          req' = [req EXCEPT ![w] = [Blank EXCEPT
              !.step = step, !.by = i, !.left = IF step = "item" THEN i.accounts ELSE 0,
              !.key = IF i = KiroImport THEN kiro + 1 - key ELSE key]]
    BY DEF Arrive
  <1>3. PICK r : r = [Blank EXCEPT
              !.step = step, !.by = i, !.left = IF step = "item" THEN i.accounts ELSE 0,
              !.key = IF i = KiroImport THEN kiro + 1 - key ELSE key]
    OBVIOUS
  <1>4. DOMAIN req' = Clients /\ req'[w] = r /\ \A v \in Clients \ {w} : req'[v] = req[v]
    BY <1>1, <1>2, <1>3
  <1>5. /\ RequestFields \subseteq DOMAIN r /\ r.step = step /\ r.by = i
        /\ r.left = (IF step = "item" THEN i.accounts ELSE 0)
        /\ r.key = (IF i = KiroImport THEN kiro + 1 - key ELSE key)
        /\ r.won = 0 /\ r.lost = 0 /\ r.landed = 0 /\ r.moved = FALSE
        /\ r.moved \in BOOLEAN
    BY <1>3 DEF Blank, RequestFields
  <1>6. r.key \in Nat
    BY <1>1, <1>5 DEF Good, Bad
  <1>7. /\ i.accounts \in {1, 2} /\ i # Dashboard
        /\ i.first \in {"verify", "refresh", "read", "post", "item"}
        /\ i = IflowCookie => i.first = "read"
    BY <1>1, ImporterFacts
  <1>8. RequestShape(w)'
    BY <1>1, <1>4, <1>5, <1>6, <1>7 DEF RequestShape
  <1>9. CourseInv(w)'
    BY <1>4, <1>5, <1>7 DEF CourseInv
  <1>10. CountInv(w)'
    BY <1>4, <1>5, <1>7 DEF CountInv
  <1>11. LandedInv(w)'
    BY <1>4, <1>5, <1>7 DEF LandedInv
  <1> QED BY <1>4, <1>5, <1>8, <1>9, <1>10, <1>11 DEF RequestInv, Others

\* So is a bind.
LEMMA BindArrives ==
    ASSUME RequestsInv, NEW w \in Clients, NEW pool, NEW target, Bind(w, pool, target)
    PROVE  Others(w) /\ RequestInv(w)' /\ req'[w].moved = FALSE /\ req'[w].by = Dashboard
  <1>1. DOMAIN req = Clients
    BY DEF RequestsInv
  <1>2. PICK r : r = [Blank EXCEPT !.step = "bind", !.pool = pool, !.target = target, !.key = Good]
    OBVIOUS
  <1>3. DOMAIN req' = Clients /\ req'[w] = r /\ \A v \in Clients \ {w} : req'[v] = req[v]
    BY <1>1, <1>2 DEF Bind
  <1>4. /\ RequestFields \subseteq DOMAIN r /\ r.step = "bind" /\ r.by = Dashboard
        /\ r.left = 0 /\ r.key = Good /\ r.won = 0 /\ r.lost = 0 /\ r.landed = 0 /\ r.moved = FALSE
        /\ r.moved \in BOOLEAN
    BY <1>2 DEF Blank, RequestFields
  <1>5. Dashboard.first = "bind" /\ Dashboard # IflowCookie
    BY ImporterFacts
  <1>6. RequestShape(w)'
    BY <1>3, <1>4 DEF RequestShape, Good
  <1>7. CourseInv(w)' /\ CountInv(w)' /\ LandedInv(w)'
    BY <1>3, <1>4, <1>5 DEF CourseInv, CountInv, LandedInv
  <1> QED BY <1>3, <1>4, <1>6, <1>7 DEF RequestInv, Others

\* Nothing is asked for at the start.
LEMMA RequestsInitially == ImportInit => RequestsInv
  <1> SUFFICES ASSUME ImportInit PROVE RequestsInv
    OBVIOUS
  <1>1. PICK r : r = Blank
    OBVIOUS
  <1>2. DOMAIN req = Clients /\ \A w \in Clients : req[w] = r
    BY <1>1 DEF ImportInit
  <1>3. /\ RequestFields \subseteq DOMAIN r /\ r.step = "idle" /\ r.by = Dashboard
        /\ r.left = 0 /\ r.key = 0 /\ r.won = 0 /\ r.lost = 0 /\ r.landed = 0 /\ r.moved = FALSE
        /\ r.moved \in BOOLEAN
    BY <1>1 DEF Blank, RequestFields
  <1>4. Dashboard.first = "bind" /\ Dashboard # IflowCookie
    BY ImporterFacts
  <1>5. ASSUME NEW w \in Clients PROVE RequestInv(w)
    <2>1. req[w] = r
      BY <1>2
    <2>2. RequestShape(w)
      BY <1>3, <2>1 DEF RequestShape
    <2>3. CourseInv(w) /\ CountInv(w) /\ LandedInv(w)
      BY <1>3, <1>4, <2>1 DEF CourseInv, CountInv, LandedInv
    <2> QED BY <2>2, <2>3 DEF RequestInv
  <1> QED BY <1>2, <1>5 DEF RequestsInv, ImportInit

\* An answer of a party, or the end of a request, moves it on along its course.
LEMMA MovesOn ==
    ASSUME RequestsInv, NEW w \in Clients, NEW step, To(w, step),
           LET r == req[w] IN
           \/ r.step = "verify" /\ (step = "failed" \/ IF r.key = Good THEN step = "post"
                                                       ELSE step = "invalid")
           \/ r.step = "refresh" /\ step = "failed"
           \/ r.step = "read" /\ step \in {"rotate", "invalid", "failed"}
           \/ r.step = "rotate" /\ step = "failed"
           \/ r.step = "item" /\ step = (IF r.left = 0 THEN "success" ELSE "post")
           \/ r.step = "post" /\ step = "declined"
           \/ r.step = "landed" /\ r.by.first # "item" /\ step = "success"
           \/ r.step \in {"post", "landed", "declined"} /\ r.by.first # "item"
                 /\ step = "unrecorded"
           \/ r.step = "bind" /\ step \in {"success", "invalid"}
           \/ step = "gone"
    PROVE  Others(w) /\ AsItWas(w) /\ req'[w].step = step /\ RequestInv(w)'
  <1>1. Others(w) /\ AsItWas(w) /\ req'[w].step = step /\ RequestInv(w)
    BY StepOnly DEF RequestsInv
  <1>2. RequestShape(w)'
    BY <1>1 DEF AsItWas, RequestInv, RequestShape
  <1>3. Dashboard.first = "bind" /\ Dashboard # IflowCookie /\ IflowCookie.first = "read"
    BY ImporterFacts
  <1>4. CourseInv(w)'
    BY <1>1, <1>3 DEF AsItWas, RequestInv, CourseInv
  <1>5. CountInv(w)'
    BY <1>1, <1>3 DEF AsItWas, RequestInv, RequestShape, CourseInv, CountInv
  <1>6. LandedInv(w)'
    <2>1. /\ req'[w].won <= req'[w].landed /\ step # "landed"
          /\ step \notin {"verify", "refresh", "read"}
          /\ step = "rotate" => ~req'[w].moved
      <3>1. step \notin {"verify", "refresh", "read", "landed"}
            /\ (step = "rotate" => req[w].step = "read")
        OBVIOUS
      <3>2. req'[w].won <= req'[w].landed
        BY <1>1 DEF AsItWas, RequestInv, LandedInv
      <3>3. req[w].step = "read" => ~req'[w].moved
        BY <1>1 DEF AsItWas, RequestInv, LandedInv
      <3> QED BY <3>1, <3>2, <3>3
    <2>2. req'[w].by.first # "item" /\ step \in {"rotate", "post", "declined"} =>
              req'[w].landed = 0
      BY <1>1 DEF AsItWas, RequestInv, CourseInv, LandedInv
    <2>3. req'[w].by.first # "item" /\ req'[w].by # Dashboard /\ step = "success" =>
              req'[w].landed = 1
      BY <1>1 DEF AsItWas, RequestInv, CourseInv, LandedInv
    <2>4. req'[w].by # Dashboard /\ step = "invalid" => req'[w].landed = 0 /\ ~req'[w].moved
      <3>1. req'[w].by # Dashboard /\ step = "invalid" => req[w].step \in {"verify", "read"}
        BY <1>1 DEF AsItWas, RequestInv, CourseInv
      <3>2. req[w].step \in {"verify", "read"} => req[w].landed = 0 /\ ~req[w].moved
        BY <1>1 DEF RequestInv, CourseInv, LandedInv
      <3> QED BY <1>1, <3>1, <3>2 DEF AsItWas
    <2>5. req'[w].by.first = "verify"
            /\ (req'[w].landed > 0 \/ step \in {"post", "declined", "unrecorded"}) =>
              req'[w].key = Good
      BY <1>1 DEF AsItWas, RequestInv, RequestShape, CourseInv, LandedInv
    <2> QED BY <1>1, <2>1, <2>2, <2>3, <2>4, <2>5 DEF LandedInv
  <1> QED BY <1>1, <1>2, <1>4, <1>5, <1>6 DEF RequestInv

\* The request has this key instead of its own.
Renews(w, key, step) ==
    /\ RequestFields \subseteq DOMAIN req'[w] /\ req'[w].by = req[w].by
    /\ req'[w].step = step /\ req'[w].key = key /\ req'[w].left = req[w].left
    /\ req'[w].won = req[w].won /\ req'[w].lost = req[w].lost
    /\ req'[w].landed = req[w].landed /\ req'[w].moved \in BOOLEAN /\ req'[w].moved

\* A request that its provider gave a newer key goes on with it, or fails.
LEMMA Renewed ==
    ASSUME RequestsInv, NEW w \in Clients, NEW key \in Nat, NEW step \in {"post", "failed"},
           req[w].step \in {"refresh", "rotate"}, Renews(w, key, step)
    PROVE  RequestInv(w)'
  <1>1. RequestInv(w)
    BY DEF RequestsInv
  <1>2. req[w].by.first \in {"refresh", "read"} /\ req[w].by # Dashboard
    BY <1>1, ImporterFacts DEF RequestInv, CourseInv
  <1>3. RequestShape(w)'
    BY <1>1 DEF Renews, RequestInv, RequestShape
  <1>4. CourseInv(w)' /\ CountInv(w)'
    BY <1>1, <1>2 DEF Renews, RequestInv, RequestShape, CourseInv, CountInv
  <1>5. LandedInv(w)'
    BY <1>1, <1>2 DEF Renews, RequestInv, RequestShape, LandedInv
  <1> QED BY <1>3, <1>4, <1>5 DEF RequestInv

\* State has applied a post.
LEMMA Landed ==
    ASSUME RequestsInv, NEW w \in Clients, At(w, "post"), req[w].by.apiKey,
           req' = [req EXCEPT ![w].step = "landed", ![w].landed = @ + 1]
    PROVE  /\ Others(w) /\ RequestInv(w)' /\ req'[w].step = "landed"
           /\ req'[w].by = req[w].by /\ req'[w].key = req[w].key /\ req'[w].moved = req[w].moved
  <1>1. RequestInv(w) /\ RequestFields \subseteq DOMAIN req[w] /\ DOMAIN req = Clients
    BY DEF RequestsInv, RequestInv, RequestShape
  <1>2. /\ DOMAIN req' = Clients /\ \A v \in Clients \ {w} : req'[v] = req[v]
        /\ req'[w] = [req[w] EXCEPT !.step = "landed", !.landed = @ + 1]
    BY <1>1
  <1>3. /\ RequestFields \subseteq DOMAIN req'[w] /\ req'[w].step = "landed"
        /\ req'[w].by = req[w].by /\ req'[w].key = req[w].key /\ req'[w].left = req[w].left
        /\ req'[w].won = req[w].won /\ req'[w].lost = req[w].lost
        /\ req'[w].moved = req[w].moved /\ req'[w].landed = req[w].landed + 1
    BY <1>1, <1>2 DEF RequestFields
  <1>4. req[w].step = "post" /\ req[w].by # Dashboard
    BY <1>1 DEF At, RequestInv, CourseInv
  <1>5. RequestShape(w)'
    BY <1>1, <1>3 DEF RequestInv, RequestShape
  <1>6. CourseInv(w)' /\ CountInv(w)'
    BY <1>1, <1>3, <1>4 DEF RequestInv, CourseInv, CountInv
  <1>7. LandedInv(w)'
    <2>1. /\ req[w].won \in Nat /\ req[w].landed \in Nat /\ req[w].won <= req[w].landed
          /\ req[w].by.first # "item" => req[w].landed = 0
          /\ req[w].by.first = "verify" => req[w].key = Good
      BY <1>1, <1>4 DEF RequestInv, RequestShape, LandedInv
    <2> QED BY <1>3, <2>1 DEF LandedInv
  <1> QED BY <1>2, <1>3, <1>5, <1>6, <1>7 DEF RequestInv, Others

(* The keys of iFlow.  A key is known of when its importer, or the importer   *)
(* of a later one, was told of a failure, went away, overlapped with another, *)
(* or is still at work with it.                                               *)

Issued(w) == req[w].by = IflowCookie /\ req[w].moved /\ req[w].step \notin Ends
Known(k) ==
    \/ k \in accounted
    \/ \E key \in (k + 1)..iflow :
          \/ key \in accounted \cup overlapped
          \/ \E w \in Clients : Issued(w) /\ req[w].key = key

ConnectionFields == {"id", "provider", "name", "key", "pool"}
ConnectionsInv ==
    /\ \A c \in conns : ConnectionFields \subseteq DOMAIN c /\ c.key \in Nat
    /\ \A p \in pending : p.key \in Nat /\ (p.provider = "iflow" => p.key \in accounted /\ p.key <= iflow)

\* A connection that the next import of iFlow finds has a key that is alive or known of.
OfIflow(c) == c.provider = "iflow" /\ c.name = "own"
KeysKnown ==
    \A c \in conns : OfIflow(c) =>
        c.key <= iflow /\ (c.key = iflow \/ Known(c.key))

\* When a key at work is no longer the newest, the next one overlapped with it; of
\* two at work the later one did.
AtWorkInv ==
    \A w \in Clients : Issued(w) =>
        /\ req[w].key <= iflow
        /\ req[w].key < iflow => req[w].key + 1 \in overlapped
        /\ \A v \in Clients : Issued(v) /\ req[v].key < req[w].key => req[w].key \in overlapped

\* What is older than a key that has landed was written over it for a reason.
LandedOver ==
    \A w \in Clients : Issued(w) /\ req[w].step = "landed" =>
        \A c \in conns : OfIflow(c) /\ c.key < req[w].key =>
            c.key \in accounted \/ req[w].key \in overlapped

IflowInv == iflow \in Nat /\ ConnectionsInv /\ KeysKnown /\ AtWorkInv /\ LandedOver

\* A step that issues no key and lands none.
Fate(w) ==
    /\ Issued(w)' => /\ Issued(w) /\ req'[w].key = req[w].key
                     /\ req'[w].step = "landed" => req[w].step = "landed"
    /\ Issued(w) /\ ~Issued(w)' => req[w].key \in accounted' \/ req[w].step = "landed"
Kin(c) == \E d \in conns : OfIflow(d) /\ d.key = c.key

\* Such a step leaves every key known of.
LEMMA KeysStayKnown ==
    ASSUME RequestsInv, IflowInv, iflow' = iflow, overlapped' = overlapped,
           accounted \subseteq accounted', ConnectionsInv',
           \A w \in Clients : Fate(w),
           \A c \in conns' : OfIflow(c) => Kin(c)
    PROVE  IflowInv'
  <1>0. iflow \in Nat /\ KeysKnown /\ AtWorkInv /\ LandedOver /\ ConnectionsInv
        /\ \A w \in Clients : req[w].key \in Nat
    BY DEF IflowInv, RequestsInv, RequestInv, RequestShape
  <1>1. ASSUME NEW c \in conns', OfIflow(c)
        PROVE  c.key <= iflow' /\ (c.key = iflow' \/ Known(c.key)')
    <2>1. PICK d \in conns : OfIflow(d) /\ d.key = c.key
      BY <1>1 DEF Kin
    <2>2. d.key <= iflow /\ (d.key = iflow \/ Known(d.key)) /\ d.key \in Nat
      BY <1>0, <2>1 DEF KeysKnown, ConnectionsInv
    <2>3. ASSUME Known(d.key) PROVE Known(d.key)'
      <3>1. CASE d.key \in accounted
        BY <3>1 DEF Known
      <3>2. ASSUME NEW key \in (d.key + 1)..iflow, key \in accounted \cup overlapped
            PROVE  Known(d.key)'
        <4>1. key \in (d.key + 1)..iflow' /\ key \in accounted' \cup overlapped'
          BY <3>2
        <4> QED BY <4>1 DEF Known
      <3>3. ASSUME NEW key \in (d.key + 1)..iflow, NEW w \in Clients,
                   Issued(w), req[w].key = key
            PROVE  Known(d.key)'
        <4>1. CASE Issued(w)' /\ req'[w].key = req[w].key
          BY <3>3, <4>1 DEF Known
        <4>2. CASE ~Issued(w)' /\ key \in accounted'
          BY <4>2 DEF Known
        <4>3. CASE ~Issued(w)' /\ req[w].step = "landed"
          <5>1. d.key \in accounted \/ key \in overlapped
            BY <1>0, <2>1, <2>2, <3>3, <4>3 DEF LandedOver
          <5> QED BY <5>1 DEF Known
        <4> QED BY <3>3, <4>1, <4>2, <4>3 DEF Fate
      <3> QED BY <2>3, <3>1, <3>2, <3>3 DEF Known
    <2> QED BY <2>1, <2>2, <2>3
  <1>2. KeysKnown'
    BY <1>1 DEF KeysKnown
  <1>3. AtWorkInv'
    BY <1>0 DEF AtWorkInv, Fate
  <1>4. LandedOver'
    <2> SUFFICES ASSUME NEW w \in Clients, Issued(w)', req'[w].step = "landed",
                        NEW c \in conns', OfIflow(c), c.key < req'[w].key
                 PROVE  c.key \in accounted' \/ req'[w].key \in overlapped'
      BY DEF LandedOver
    <2>1. PICK d \in conns : OfIflow(d) /\ d.key = c.key
      BY DEF Kin
    <2>2. Issued(w) /\ req'[w].key = req[w].key /\ req[w].step = "landed"
      BY DEF Fate
    <2> QED BY <1>0, <2>1, <2>2 DEF LandedOver
  <1> QED BY <1>0, <1>2, <1>3, <1>4 DEF IflowInv

\* The key of a request that moves on, or ends with its key accounted for.
LEMMA FateMovesOn ==
    ASSUME NEW w \in Clients, Others(w), AsItWas(w), req[w].step \notin Ends,
           req'[w].step # "landed",
           Issued(w) /\ req'[w].step \in Ends => req[w].key \in accounted' \/ req[w].step = "landed"
    PROVE  \A v \in Clients : Fate(v)
  <1>1. Fate(w)
    BY DEF Fate, Issued, AsItWas
  <1>2. ASSUME NEW v \in Clients, v # w PROVE Fate(v)
    BY <1>2 DEF Others, Fate, Issued
  <1> QED BY <1>1, <1>2

\* No key of iFlow is at work with a request that is of another importer after the
\* step, or not at work before it and has none after it.
LEMMA FateOfNone ==
    ASSUME NEW w \in Clients, Others(w), ~Issued(w), ~Issued(w)'
    PROVE  \A v \in Clients : Fate(v)
  BY DEF Others, Fate, Issued

\* The parties answer, or a request ends.
LEMMA AnswersKeep ==
    ASSUME RequestsInv, NEW w \in Clients,
           Verify(w) \/ Read(w) \/ Item(w) \/ Reply(w) \/ GiveUp(w) \/ Leave(w) \/ BindLands(w)
    PROVE  RequestsInv' /\ accounted \subseteq accounted' /\ \A v \in Clients : Fate(v)
  <1>1. /\ RequestInv(w) /\ kiro \in Nat /\ kiro >= 10 /\ Dashboard # IflowCookie
        /\ IflowCookie.first = "read" /\ Dashboard.first = "bind"
    BY ImporterFacts DEF RequestsInv
  <1>2. kiro' = kiro
    BY DEF Verify, Read, Item, Reply, GiveUp, Leave, BindLands
  <1>3. req[w].by.first = "item" <=> Many(w)
    BY <1>1, ImporterFacts DEF RequestInv, RequestShape, Many
  <1>4. accounted \subseteq accounted'
    BY DEF Verify, Read, Item, Reply, GiveUp, Leave, BindLands, Answer, ItemDone
  <1>5. CASE /\ Many(w)
             /\ \/ ItemDone(w, FALSE) /\ req[w].step \in {"post", "declined", "landed"}
                \/ ItemDone(w, FALSE) /\ req[w].step = "item" /\ req[w].left # 0
                \/ ItemDone(w, TRUE) /\ req[w].step = "landed"
    <2>1. req[w].by.first = "item" /\ req[w].left # 0
      <3>1. req[w].by.first = "item" /\ req[w].left \in Nat
        BY <1>1, <1>3, <1>5 DEF RequestInv, RequestShape
      <3>2. req[w].step \in {"post", "declined", "landed"} => req[w].left # 0
        BY <1>1, <3>1 DEF RequestInv, CountInv
      <3> QED BY <1>5, <3>1, <3>2, Zenon
    <2>2. Others(w) /\ RequestInv(w)' /\ req'[w].by = req[w].by
      BY <1>5, <2>1, ItemCounts
    <2>3. ~Issued(w) /\ ~Issued(w)'
      BY <1>1, <2>1, <2>2 DEF Issued
    <2> QED BY <1>1, <1>2, <1>4, <2>2, <2>3, OneRequest, FateOfNone
  <1>6. ASSUME NEW step, To(w, step), req[w].step \notin Ends,
               \/ req[w].step = "verify" /\ (step = "failed" \/ IF req[w].key = Good THEN step = "post"
                                                                ELSE step = "invalid")
               \/ req[w].step = "read" /\ step \in {"rotate", "invalid", "failed"}
               \/ req[w].step = "item" /\ step = (IF req[w].left = 0 THEN "success" ELSE "post")
               \/ req[w].step = "landed" /\ ~Many(w) /\ step = "success"
               \/ req[w].step \in {"post", "landed", "declined"} /\ ~Many(w) /\ step = "unrecorded"
               \/ req[w].step = "bind" /\ step \in {"success", "invalid"}
               \/ step = "gone",
               req[w].by = IflowCookie /\ step \in {"unrecorded", "gone"} =>
                   accounted' = accounted \cup {req'[w].key}
        PROVE  RequestsInv' /\ \A v \in Clients : Fate(v)
    <2>1. Others(w) /\ AsItWas(w) /\ req'[w].step = step /\ RequestInv(w)'
      BY <1>3, <1>6, MovesOn
    <2>2. RequestsInv'
      BY <1>1, <1>2, <2>1, OneRequest
    <2>3. step # "landed"
      BY <1>6
    <2>4. ASSUME Issued(w), step \in Ends
          PROVE  req[w].key \in accounted' \/ req[w].step = "landed"
      <3>1. req[w].step \notin {"verify", "read", "item", "bind"}
        BY <1>1, <2>4 DEF Issued, RequestInv, CourseInv, LandedInv
      <3>2. step \in {"unrecorded", "gone"} \/ req[w].step = "landed"
        BY <1>6, <3>1
      <3> QED BY <1>6, <2>1, <2>4, <3>2 DEF Issued, AsItWas
    <2> QED BY <1>6, <2>1, <2>2, <2>3, <2>4, FateMovesOn
  <1>7. CASE Verify(w)
    <2>1. req[w].step = "verify" /\ req[w].step \notin Ends
      BY <1>7 DEF Verify, At, Ends
    <2>2. \/ To(w, "post") /\ req[w].key = Good
          \/ To(w, "invalid") /\ req[w].key # Good
          \/ To(w, "failed")
      BY <1>7 DEF Verify, Accepts, Answer, To
    <2> QED BY <1>4, <1>6, <2>1, <2>2
  <1>8. CASE Read(w)
    <2>1. req[w].step = "read" /\ req[w].step \notin Ends
      BY <1>8 DEF Read, At, Ends
    <2>2. To(w, "rotate") \/ To(w, "invalid") \/ To(w, "failed")
      BY <1>8 DEF Read, Answer, To
    <2> QED BY <1>4, <1>6, <2>1, <2>2
  <1>9. CASE Item(w)
    <2>1. req[w].step = "item" /\ req[w].step \notin Ends /\ Many(w)
      BY <1>1, <1>3, <1>9 DEF Item, At, Ends, RequestInv, CourseInv
    <2>2. CASE ItemDone(w, FALSE) /\ req[w].left # 0
      BY <1>5, <2>1, <2>2
    <2>3. CASE req[w].left = 0 /\ To(w, "success")
      BY <1>4, <1>6, <2>1, <2>3
    <2>4. CASE req[w].left # 0 /\ To(w, "post")
      BY <1>4, <1>6, <2>1, <2>4
    <2>5. /\ req[w].left = 0 => Answer(w, "success")
          /\ req[w].left # 0 => To(w, "post") \/ ItemDone(w, FALSE)
      BY <1>9 DEF Item
    <2>6. Answer(w, "success") => To(w, "success")
      BY DEF Answer, To
    <2> QED BY <2>2, <2>3, <2>4, <2>5, <2>6
  <1>10. CASE Reply(w)
    <2>1. req[w].step \in {"landed", "declined"} /\ req[w].step \notin Ends
      BY <1>10 DEF Reply, At, Ends
    <2>2. CASE Many(w)
      BY <1>5, <1>10, <2>1, <2>2 DEF Reply, At
    <2>3. CASE ~Many(w)
      <3>1. \/ req[w].step = "landed" /\ To(w, "success")
            \/ /\ req[w].step = "declined" /\ To(w, "unrecorded")
               /\ req[w].by = IflowCookie => accounted' = accounted \cup {req'[w].key}
        BY <1>10, <2>3 DEF Reply, At, Answer, To
      <3> QED BY <1>4, <1>6, <2>1, <2>3, <3>1
    <2> QED BY <2>2, <2>3
  <1>11. CASE GiveUp(w)
    <2>1. req[w].step \in {"post", "landed", "declined"} /\ req[w].step \notin Ends
      BY <1>11 DEF GiveUp, Ends
    <2>2. CASE Many(w)
      BY <1>5, <1>11, <2>1, <2>2 DEF GiveUp
    <2>3. CASE ~Many(w)
      <3>1. /\ To(w, "unrecorded")
            /\ req[w].by = IflowCookie => accounted' = accounted \cup {req'[w].key}
        BY <1>11, <2>3 DEF GiveUp, Answer, To
      <3> QED BY <1>4, <1>6, <2>1, <2>3, <3>1
    <2> QED BY <2>2, <2>3
  <1>12. CASE Leave(w)
    <2>1. /\ To(w, "gone") /\ req[w].step \notin Ends
          /\ req[w].by = IflowCookie => accounted' = accounted \cup {req'[w].key}
      BY <1>12 DEF Leave, Answer, To
    <2> QED BY <1>4, <1>6, <2>1
  <1>13. CASE BindLands(w)
    <2>1. req[w].step = "bind" /\ req[w].step \notin Ends
      BY <1>13 DEF BindLands, At, Ends
    <2>2. To(w, "success") \/ To(w, "invalid")
      BY <1>13 DEF BindLands
    <2>3. req[w].by # IflowCookie
      BY <1>1, <2>1 DEF RequestInv, CourseInv
    <2> QED BY <1>4, <1>6, <2>1, <2>2, <2>3
  <1> QED BY <1>7, <1>8, <1>9, <1>10, <1>11, <1>12, <1>13

\* What a post leaves: connections that were there, and those of its provider that
\* have its key and its pool.
LEMMA CreatedIs ==
    ASSUME \A c \in conns : ConnectionFields \subseteq DOMAIN c,
           NEW provider, NEW key, NEW pool, NEW id,
           NEW c \in Created(conns, provider, key, pool, id)
    PROVE  /\ ConnectionFields \subseteq DOMAIN c
           /\ \/ c \in conns /\ ~(c.provider = provider /\ c.name = "own")
              \/ c.provider = provider /\ c.name = "own" /\ c.key = key /\ c.pool = pool
  <1>1. PICK new : new = [id |-> id, provider |-> provider, name |-> "own", key |-> key, pool |-> pool]
    OBVIOUS
  <1>2. /\ ConnectionFields \subseteq DOMAIN new /\ new.provider = provider
        /\ new.name = "own" /\ new.key = key /\ new.pool = pool
    BY <1>1 DEF ConnectionFields
  <1>3. \/ Same(conns, provider) = {} /\ c \in conns \cup {new}
        \/ \E d \in conns : c = IF d \in Same(conns, provider) THEN [new EXCEPT !.id = d.id] ELSE d
    BY <1>1 DEF Created
  <1>4. CASE c = new
    BY <1>2, <1>4
  <1>5. CASE c \in conns /\ c \notin Same(conns, provider)
    BY <1>5 DEF Same
  <1>6. ASSUME NEW d \in conns, c = [new EXCEPT !.id = d.id]
        PROVE  /\ ConnectionFields \subseteq DOMAIN c /\ c.provider = provider
               /\ c.name = "own" /\ c.key = key /\ c.pool = pool
    BY <1>2, <1>6 DEF ConnectionFields
  <1> QED BY <1>3, <1>4, <1>5, <1>6

\* A post of another provider keeps the connections of iFlow.
LEMMA OtherPost ==
    ASSUME ConnectionsInv, NEW provider, provider # "iflow", NEW key \in Nat, NEW pool,
           Create(provider, key, pool)
    PROVE  /\ \A c \in conns' : ConnectionFields \subseteq DOMAIN c /\ c.key \in Nat
           /\ \A c \in conns' : OfIflow(c) => Kin(c)
  <1>1. ASSUME NEW c \in conns'
        PROVE  /\ ConnectionFields \subseteq DOMAIN c
               /\ \/ c \in conns
                  \/ c.provider = provider /\ c.key = key
    BY CreatedIs DEF Create, ConnectionsInv
  <1> QED BY <1>1 DEF ConnectionsInv, Kin, OfIflow

\* A post of iFlow leaves connections of iFlow with its key alone.
LEMMA IflowPost ==
    ASSUME ConnectionsInv, KeysKnown, NEW key \in Nat, Create("iflow", key, NoPool)
    PROVE  /\ \A c \in conns' : ConnectionFields \subseteq DOMAIN c /\ c.key \in Nat
           /\ \A c \in conns' : OfIflow(c) => c.key = key
  <1>1. ASSUME NEW c \in conns'
        PROVE  /\ ConnectionFields \subseteq DOMAIN c
               /\ \/ c \in conns /\ ~OfIflow(c)
                  \/ OfIflow(c) /\ c.key = key
    BY CreatedIs DEF Create, ConnectionsInv, OfIflow
  <1> QED BY <1>1 DEF ConnectionsInv, KeysKnown

\* A step that leaves the connections alone, or those of iFlow with their keys.
LEMMA ConnectionsKept ==
    ASSUME IflowInv, accounted \subseteq accounted', iflow' = iflow, pending' \subseteq pending,
           \A c \in conns' : ConnectionFields \subseteq DOMAIN c /\ c.key \in Nat
    PROVE  ConnectionsInv'
  BY DEF IflowInv, ConnectionsInv

\* Connections that stay are their own kin.
LEMMA SameConnections ==
    ASSUME IflowInv, conns' \subseteq conns
    PROVE  /\ \A c \in conns' : ConnectionFields \subseteq DOMAIN c /\ c.key \in Nat
           /\ \A c \in conns' : OfIflow(c) => Kin(c)
  BY DEF IflowInv, ConnectionsInv, Kin

\* A post that is abandoned carries a key that is accounted for.
LEMMA AbandonedKnown ==
    ASSUME RequestsInv, IflowInv, NEW w \in Clients, iflow' = iflow, conns' = conns,
           accounted \subseteq accounted', pending' = pending \cup Abandoned(w),
           req[w].by = IflowCookie => req[w].key \in accounted'
    PROVE  ConnectionsInv'
  <1>1. /\ ConnectionsInv /\ AtWorkInv /\ RequestInv(w) /\ req[w].key \in Nat
        /\ req[w].by \in Importers \cup {Dashboard}
    BY DEF IflowInv, RequestsInv, RequestInv, RequestShape
  <1>2. ASSUME NEW p \in Abandoned(w)
        PROVE  p.key \in Nat /\ (p.provider = "iflow" => p.key \in accounted' /\ p.key <= iflow')
    <2>1. /\ req[w].step = "post" /\ p.provider = req[w].by.provider /\ p.key = req[w].key
      BY DEF Abandoned, At
    <2>2. CASE req[w].by = IflowCookie
      <3>1. Issued(w)
        BY <1>1, <2>1, <2>2 DEF Issued, RequestInv, CourseInv, Ends
      <3> QED BY <1>1, <2>1, <2>2, <3>1 DEF AtWorkInv
    <2>3. CASE req[w].by # IflowCookie
      BY <1>1, <2>1, <2>3, ImporterFacts
    <2> QED BY <2>2, <2>3
  <1> QED BY <1>1, <1>2 DEF ConnectionsInv

\* The invariants of the imports.
ImportInv == RequestsInv /\ IflowInv

\* Requests that arrive.
LEMMA ArrivalsHold ==
    ASSUME ImportInv, NEW w \in Clients,
           \/ \E i \in Offered, key \in {Good, Bad} : Arrive(w, i, key)
           \/ \E p \in pools, t \in {0} \cup {c.id : c \in conns} : Bind(w, p, t)
    PROVE  ImportInv'
  <1>1. Others(w) /\ RequestInv(w)' /\ ~req'[w].moved
    <2>1. ASSUME NEW i \in Offered, NEW key \in {Good, Bad}, Arrive(w, i, key)
          PROVE  Others(w) /\ RequestInv(w)' /\ ~req'[w].moved
      BY <2>1, Arrives DEF ImportInv
    <2>2. ASSUME NEW p, NEW t, Bind(w, p, t)
          PROVE  Others(w) /\ RequestInv(w)' /\ ~req'[w].moved
      BY <2>2, BindArrives DEF ImportInv
    <2> QED BY <2>1, <2>2
  <1>2. /\ req[w].step \in Ends
        /\ UNCHANGED <<conns, pending, iflow, kiro, accounted, overlapped>>
    BY DEF Arrive, Bind, Called, history
  <1>3. RequestsInv'
    BY <1>1, <1>2, OneRequest DEF ImportInv, RequestsInv
  <1>4. \A v \in Clients : Fate(v)
    BY <1>1, <1>2, FateOfNone DEF Issued
  <1>5. /\ ConnectionsInv' /\ \A c \in conns' : OfIflow(c) => Kin(c)
    BY <1>2, ConnectionsKept, SameConnections DEF ImportInv
  <1> QED BY <1>2, <1>3, <1>4, <1>5, KeysStayKnown DEF ImportInv

\* Answers, and requests that end.
LEMMA AnswersHold ==
    ASSUME ImportInv, NEW w \in Clients,
           Verify(w) \/ Read(w) \/ Item(w) \/ Reply(w) \/ GiveUp(w) \/ Leave(w) \/ BindLands(w)
    PROVE  ImportInv'
  <1>1. RequestsInv' /\ accounted \subseteq accounted' /\ \A v \in Clients : Fate(v)
    BY AnswersKeep DEF ImportInv
  <1>2. iflow' = iflow /\ overlapped' = overlapped
    BY DEF Verify, Read, Item, Reply, GiveUp, Leave, BindLands
  <1>3. CASE conns' = conns /\ pending' = pending
    BY <1>1, <1>2, <1>3, ConnectionsKept, SameConnections, KeysStayKnown DEF ImportInv
  <1>4. CASE GiveUp(w) \/ Leave(w)
    <2>1. conns' = conns /\ pending' = pending \cup Abandoned(w)
      BY <1>4 DEF GiveUp, Leave, stateVars
    <2>2. ASSUME req[w].by = IflowCookie PROVE req[w].key \in accounted'
      <3>1. ~Many(w)
        BY <2>2, ImporterFacts DEF Many
      <3>2. PICK step \in {"unrecorded", "gone"} : Answer(w, step)
        BY <1>4, <3>1 DEF GiveUp, Leave
      <3>3. AsItWas(w)
        BY <3>2, StepOnly DEF Answer, To, ImportInv
      <3> QED BY <2>2, <3>2, <3>3 DEF Answer, AsItWas
    <2>3. ConnectionsInv'
      BY <1>1, <1>2, <2>1, <2>2, AbandonedKnown DEF ImportInv
    <2> QED BY <1>1, <1>2, <2>1, <2>3, SameConnections, KeysStayKnown DEF ImportInv
  <1>5. CASE BindLands(w)
    <2>1. pending' = pending
      BY <1>5 DEF BindLands
    <2>2. /\ \A c \in conns' : ConnectionFields \subseteq DOMAIN c /\ c.key \in Nat
          /\ \A c \in conns' : OfIflow(c) => Kin(c)
      <3>1. CASE req[w].target = 0
        <4>1. req[w].by = Dashboard /\ req[w].key \in Nat
          BY <1>5 DEF BindLands, At, ImportInv, RequestsInv, RequestInv, RequestShape, CourseInv
        <4>2. Create(req[w].by.provider, req[w].key, req[w].pool)
          BY <1>5, <3>1 DEF BindLands
        <4>3. req[w].by.provider # "iflow"
          BY <4>1, ImporterFacts
        <4> QED BY <4>1, <4>2, <4>3, OtherPost DEF ImportInv, IflowInv
      <3>2. CASE req[w].target # 0
        <4>0. PICK found, pool : found = {c \in conns : c.id = req[w].target} /\ pool = req[w].pool
          OBVIOUS
        <4>1. /\ found \subseteq conns
              /\ conns' = (conns \ found) \cup {[c EXCEPT !.pool = pool] : c \in found}
          BY <1>5, <3>2, <4>0 DEF BindLands
        <4>2. \A c \in conns : ConnectionFields \subseteq DOMAIN c /\ c.key \in Nat
          BY DEF ImportInv, IflowInv, ConnectionsInv
        <4>3. ASSUME NEW c \in found, NEW d, d = [c EXCEPT !.pool = pool]
              PROVE  /\ ConnectionFields \subseteq DOMAIN d /\ d.key = c.key
                     /\ d.provider = c.provider /\ d.name = c.name
          BY <4>1, <4>2, <4>3 DEF ConnectionFields
        <4>4. ASSUME NEW d \in conns'
              PROVE  /\ ConnectionFields \subseteq DOMAIN d /\ d.key \in Nat
                     /\ OfIflow(d) => Kin(d)
          <5>1. CASE d \in conns
            BY <4>2, <5>1 DEF Kin
          <5>2. CASE d \notin conns
            <6>1. PICK c \in found : d = [c EXCEPT !.pool = pool]
              BY <4>1, <5>2
            <6> QED BY <4>1, <4>2, <4>3, <6>1 DEF Kin, OfIflow
          <5> QED BY <5>1, <5>2
        <4> QED BY <4>4
      <3> QED BY <3>1, <3>2
    <2>3. ConnectionsInv'
      BY <1>1, <1>2, <2>1, <2>2, ConnectionsKept DEF ImportInv
    <2> QED BY <1>1, <1>2, <2>2, <2>3, KeysStayKnown DEF ImportInv
  <1>6. Verify(w) \/ Read(w) \/ Item(w) \/ Reply(w) => conns' = conns /\ pending' = pending
    BY DEF Verify, Read, Item, Reply, stateVars
  <1> QED BY <1>3, <1>4, <1>5, <1>6

\* Kiro's refresh has nothing to do with the keys of iFlow.
LEMMA RefreshHolds ==
    ASSUME ImportInv, NEW w \in Clients, Refresh(w)
    PROVE  ImportInv'
  <1>1. /\ req[w].step = "refresh" /\ RequestInv(w) /\ kiro \in Nat /\ kiro >= 10
        /\ RequestFields \subseteq DOMAIN req[w] /\ DOMAIN req = Clients
    BY DEF Refresh, At, ImportInv, RequestsInv, RequestInv, RequestShape
  <1>2. req[w].by # IflowCookie
    BY <1>1, ImporterFacts DEF RequestInv, CourseInv
  <1>3. UNCHANGED <<conns, pending, iflow, overlapped>>
    BY DEF Refresh, stateVars
  <1>4. /\ Others(w) /\ RequestInv(w)' /\ req'[w].by = req[w].by
        /\ kiro' \in Nat /\ kiro' >= 10 /\ accounted \subseteq accounted'
    <2>1. CASE Answer(w, "failed") /\ UNCHANGED kiro
      <3>1. To(w, "failed")
        BY <2>1 DEF Answer, To
      <3>2. Others(w) /\ RequestInv(w)' /\ AsItWas(w)
        BY <1>1, <3>1, MovesOn DEF ImportInv
      <3> QED BY <1>1, <2>1, <3>2 DEF Answer, AsItWas
    <2>2. ASSUME NEW step \in {"post", "failed"}, NEW key \in Nat, kiro' \in {kiro, kiro + 1},
                 req'[w] = [req[w] EXCEPT !.step = step, !.key = key, !.moved = TRUE],
                 DOMAIN req' = Clients, \A v \in Clients \ {w} : req'[v] = req[v],
                 UNCHANGED accounted
          PROVE  /\ Others(w) /\ RequestInv(w)' /\ req'[w].by = req[w].by
                 /\ kiro' \in Nat /\ kiro' >= 10 /\ accounted \subseteq accounted'
      <3>1. Renews(w, key, step) /\ req'[w].by = req[w].by
        BY <1>1, <2>2 DEF Renews, RequestFields
      <3>2. RequestInv(w)' /\ Others(w)
        BY <1>1, <2>2, <3>1, Renewed DEF ImportInv, Others
      <3> QED BY <1>1, <2>2, <3>1, <3>2
    <2>3. CASE /\ kiro' \in {kiro, kiro + 1} /\ UNCHANGED accounted
               /\ req' = [req EXCEPT ![w].step = "post", ![w].key = kiro', ![w].moved = TRUE]
      <3>1. /\ req'[w] = [req[w] EXCEPT !.step = "post", !.key = kiro', !.moved = TRUE]
            /\ DOMAIN req' = Clients /\ \A v \in Clients \ {w} : req'[v] = req[v]
        BY <1>1, <2>3
      <3>2. kiro' \in Nat
        BY <1>1, <2>3
      <3> QED BY <2>2, <2>3, <3>1, <3>2
    <2>4. CASE /\ kiro' \in {kiro, kiro + 1} /\ UNCHANGED accounted
               /\ req' = [req EXCEPT ![w].step = "failed", ![w].moved = TRUE]
      <3>1. /\ req'[w] = [req[w] EXCEPT !.step = "failed", !.key = req[w].key, !.moved = TRUE]
            /\ DOMAIN req' = Clients /\ \A v \in Clients \ {w} : req'[v] = req[v]
        BY <1>1, <2>4 DEF RequestFields
      <3>2. req[w].key \in Nat
        BY <1>1 DEF RequestInv, RequestShape
      <3> QED BY <2>2, <2>4, <3>1, <3>2
    <2> QED BY <2>1, <2>3, <2>4 DEF Refresh
  <1>5. RequestsInv'
    BY <1>4, OneRequest DEF ImportInv
  <1>6. \A v \in Clients : Fate(v)
    BY <1>2, <1>4, FateOfNone DEF Issued
  <1>7. ConnectionsInv' /\ \A c \in conns' : OfIflow(c) => Kin(c)
    BY <1>3, <1>4, ConnectionsKept, SameConnections DEF ImportInv
  <1> QED BY <1>3, <1>4, <1>5, <1>6, <1>7, KeysStayKnown DEF ImportInv

\* A new key of iFlow: what was alive is now known of by it.
LEMMA RotateHolds ==
    ASSUME ImportInv, NEW w \in Clients, Rotate(w)
    PROVE  ImportInv'
  <1>1. /\ req[w].step = "rotate" /\ RequestInv(w) /\ kiro' = kiro /\ kiro \in Nat /\ kiro >= 10
        /\ RequestFields \subseteq DOMAIN req[w] /\ DOMAIN req = Clients
    BY DEF Rotate, At, ImportInv, RequestsInv, RequestInv, RequestShape
  <1>2. req[w].by = IflowCookie /\ ~req[w].moved
    BY <1>1, ImporterFacts DEF RequestInv, RequestShape, CourseInv, LandedInv
  <1>3. /\ conns' = conns /\ pending' = pending /\ iflow \in Nat /\ ConnectionsInv
        /\ KeysKnown /\ AtWorkInv /\ LandedOver
        /\ \A v \in Clients : req[v].key \in Nat
    BY DEF Rotate, stateVars, ImportInv, IflowInv, RequestsInv, RequestInv, RequestShape
  <1>4. CASE Answer(w, "failed") /\ UNCHANGED <<iflow, overlapped>>
    <2>1. To(w, "failed") /\ accounted \subseteq accounted'
      BY <1>4 DEF Answer, To
    <2>2. Others(w) /\ RequestInv(w)' /\ AsItWas(w)
      BY <1>1, <2>1, MovesOn DEF ImportInv
    <2>3. RequestsInv'
      BY <1>1, <2>2, OneRequest DEF ImportInv
    <2>4. \A v \in Clients : Fate(v)
      BY <1>2, <2>2, FateOfNone DEF Issued, AsItWas
    <2>5. ConnectionsInv' /\ \A c \in conns' : OfIflow(c) => Kin(c)
      BY <1>3, <1>4, <2>1, ConnectionsKept, SameConnections DEF ImportInv
    <2> QED BY <1>4, <2>1, <2>3, <2>4, <2>5, KeysStayKnown DEF ImportInv
  <1>5. ASSUME NEW step \in {"post", "failed"}, iflow' = iflow + 1,
               req' = [req EXCEPT ![w] =
                   [[req[w] EXCEPT !.key = iflow + 1, !.moved = TRUE] EXCEPT !.step = step]],
               overlapped \subseteq overlapped', accounted \subseteq accounted',
               step = "failed" => iflow + 1 \in accounted',
               \A v \in Clients \ {w} : Issued(v) => iflow + 1 \in overlapped'
        PROVE  ImportInv'
    <2>1. /\ req'[w] = [[req[w] EXCEPT !.key = iflow + 1, !.moved = TRUE] EXCEPT !.step = step]
          /\ DOMAIN req' = Clients /\ \A v \in Clients \ {w} : req'[v] = req[v]
      BY <1>1, <1>5
    <2>2. /\ Renews(w, iflow + 1, step)
          /\ req'[w].by = req[w].by /\ req'[w].step = step /\ req'[w].key = iflow + 1
          /\ req'[w].moved
      BY <1>1, <2>1 DEF RequestFields, Renews
    <2>3. Others(w) /\ RequestInv(w)'
      <3>1. iflow + 1 \in Nat
        BY <1>3
      <3> QED BY <1>1, <2>1, <2>2, <3>1, Renewed DEF ImportInv, Others
    <2>4. RequestsInv'
      BY <1>1, <2>3, OneRequest DEF ImportInv
    <2>5. /\ Issued(w)' <=> step = "post"
          /\ ~Issued(w)
          /\ \A v \in Clients \ {w} : Issued(v)' <=> Issued(v)
      BY <1>2, <2>1, <2>2 DEF Issued, Ends
    <2>6. iflow' \in Nat /\ ConnectionsInv'
      BY <1>3, <1>5 DEF ConnectionsInv
    <2>7. KeysKnown'
      <3> SUFFICES ASSUME NEW c \in conns, OfIflow(c)
                   PROVE  c.key <= iflow' /\ Known(c.key)'
        BY <1>3 DEF KeysKnown
      <3>1. c.key \in Nat /\ c.key <= iflow
        BY <1>3 DEF KeysKnown, ConnectionsInv
      <3>2. iflow + 1 \in (c.key + 1)..iflow'
        BY <1>3, <1>5, <3>1
      <3>0. PICK k, key : k = c.key /\ key = iflow + 1
        OBVIOUS
      <3>3. CASE step = "failed"
        BY <1>3, <1>5, <3>0, <3>1, <3>2, <3>3 DEF Known
      <3>4. CASE step = "post"
        <4>1. Issued(w)' /\ req'[w].key = key /\ key \in (k + 1)..iflow'
          BY <2>2, <2>5, <3>0, <3>2, <3>4
        <4>2. Known(k)'
          BY <4>1 DEF Known
        <4> QED BY <1>3, <1>5, <3>0, <3>1, <4>2
      <3> QED BY <3>3, <3>4
    <2>8. AtWorkInv'
      <3> SUFFICES ASSUME NEW v \in Clients, Issued(v)'
                   PROVE  /\ req'[v].key <= iflow'
                          /\ req'[v].key < iflow' => req'[v].key + 1 \in overlapped'
                          /\ \A u \in Clients : Issued(u)' /\ req'[u].key < req'[v].key
                                => req'[v].key \in overlapped'
        BY DEF AtWorkInv
      <3>1. CASE v = w
        <4>1. \A u \in Clients : Issued(u)' /\ req'[u].key < req'[v].key => u # w /\ Issued(u)
          BY <1>3, <2>2, <2>5, <3>1
        <4> QED BY <1>3, <1>5, <2>2, <3>1, <4>1
      <3>2. CASE v # w
        <4>1. Issued(v) /\ req'[v].key = req[v].key /\ req[v].key \in Nat /\ req[v].key <= iflow
          BY <1>3, <2>1, <2>5, <3>2 DEF AtWorkInv
        <4>2. req'[v].key < iflow' => req'[v].key + 1 \in overlapped'
          BY <1>3, <1>5, <3>2, <4>1 DEF AtWorkInv
        <4>3. ASSUME NEW u \in Clients, Issued(u)', req'[u].key < req'[v].key
              PROVE  req'[v].key \in overlapped'
          <5>1. u # w
            BY <1>3, <2>2, <4>1, <4>3
          <5>2. Issued(u) /\ req'[u].key = req[u].key
            BY <2>1, <2>5, <4>3, <5>1
          <5> QED BY <1>3, <1>5, <4>1, <4>3, <5>2 DEF AtWorkInv
        <4> QED BY <1>3, <1>5, <4>1, <4>2, <4>3
      <3> QED BY <3>1, <3>2
    <2>9. LandedOver'
      <3> SUFFICES ASSUME NEW v \in Clients, Issued(v)', req'[v].step = "landed",
                          NEW c \in conns, OfIflow(c), c.key < req'[v].key
                   PROVE  c.key \in accounted' \/ req'[v].key \in overlapped'
        BY <1>3 DEF LandedOver
      <3>1. v # w /\ Issued(v) /\ req'[v] = req[v]
        BY <2>1, <2>2, <2>5
      <3> QED BY <1>3, <1>5, <3>1 DEF LandedOver
    <2> QED BY <2>4, <2>6, <2>7, <2>8, <2>9 DEF ImportInv, IflowInv
  <1>6. CASE ~(Answer(w, "failed") /\ UNCHANGED <<iflow, overlapped>>)
    <2> DEFINE others == {v \in Clients \ {w} : req[v].by = IflowCookie /\ req[v].step \notin Ends}
               issued == [req[w] EXCEPT !.key = iflow + 1, !.moved = TRUE]
    <2>1. /\ iflow' = iflow + 1
          /\ overlapped' = IF others = {} THEN overlapped ELSE overlapped \cup {iflow'}
          /\ \/ /\ req' = [req EXCEPT ![w] = [issued EXCEPT !.step = "post"]]
                /\ UNCHANGED accounted
             \/ /\ req' = [req EXCEPT ![w] = [issued EXCEPT !.step = "failed"]]
                /\ accounted' = accounted \cup {iflow'}
      BY <1>6 DEF Rotate, KeyIssued
    <2>2. \A v \in Clients \ {w} : Issued(v) => v \in others
      BY DEF Issued
    <2>3. overlapped \subseteq overlapped' /\ \A v \in Clients \ {w} : Issued(v) => iflow + 1 \in overlapped'
      <3> HIDE DEF others
      <3> QED BY <2>1, <2>2
    <2>4. CASE req' = [req EXCEPT ![w] = [issued EXCEPT !.step = "post"]] /\ UNCHANGED accounted
      BY <1>5, <2>1, <2>3, <2>4
    <2>5. CASE /\ req' = [req EXCEPT ![w] = [issued EXCEPT !.step = "failed"]]
               /\ accounted' = accounted \cup {iflow'}
      BY <1>5, <2>1, <2>3, <2>5
    <2> QED BY <2>1, <2>4, <2>5
  <1> QED BY <1>4, <1>6

\* State serves a post: that of iFlow writes a key at work over whatever there was.
LEMMA LandHolds ==
    ASSUME ImportInv, NEW w \in Clients, Land(w)
    PROVE  ImportInv'
  <1>1. /\ req[w].step = "post" /\ RequestInv(w) /\ kiro' = kiro /\ kiro \in Nat /\ kiro >= 10
        /\ req[w].key \in Nat /\ req[w].by \in Importers \cup {Dashboard} /\ req[w].by # Dashboard
    BY DEF Land, At, ImportInv, RequestsInv, RequestInv, RequestShape, CourseInv
  <1>2. UNCHANGED <<pending, iflow, accounted, overlapped>>
    BY DEF Land, history
  <1>3. CASE ~req[w].by.apiKey
    <2>1. To(w, "declined") /\ conns' = conns
      BY <1>3 DEF Land
    <2>2. Others(w) /\ RequestInv(w)' /\ AsItWas(w)
      BY <1>1, <2>1, MovesOn DEF ImportInv
    <2>3. req[w].by # IflowCookie
      BY <1>3 DEF IflowCookie, Importer
    <2>4. \A v \in Clients : Fate(v)
      BY <2>2, <2>3, FateOfNone DEF Issued, AsItWas
    <2>5. RequestsInv'
      BY <1>1, <2>2, OneRequest DEF ImportInv
    <2>6. ConnectionsInv' /\ \A c \in conns' : OfIflow(c) => Kin(c)
      BY <1>2, <2>1, ConnectionsKept, SameConnections DEF ImportInv
    <2> QED BY <1>2, <2>4, <2>5, <2>6, KeysStayKnown DEF ImportInv
  <1>4. CASE req[w].by.apiKey
    <2>1. /\ Create(req[w].by.provider, req[w].key, NoPool)
          /\ req' = [req EXCEPT ![w].step = "landed", ![w].landed = @ + 1]
      BY <1>4 DEF Land
    <2>2. /\ Others(w) /\ RequestInv(w)' /\ req'[w].step = "landed"
          /\ req'[w].by = req[w].by /\ req'[w].key = req[w].key /\ req'[w].moved = req[w].moved
      BY <1>1, <1>4, <2>1, Landed DEF ImportInv, At
    <2>3. RequestsInv'
      BY <1>1, <2>2, OneRequest DEF ImportInv
    <2>4. CASE req[w].by # IflowCookie
      <3>1. req[w].by.provider # "iflow"
        BY <1>1, <2>4, ImporterFacts
      <3>2. /\ \A c \in conns' : ConnectionFields \subseteq DOMAIN c /\ c.key \in Nat
            /\ \A c \in conns' : OfIflow(c) => Kin(c)
        BY <1>1, <2>1, <3>1, OtherPost DEF ImportInv, IflowInv
      <3>3. \A v \in Clients : Fate(v)
        BY <2>2, <2>4, FateOfNone DEF Issued
      <3>4. ConnectionsInv'
        BY <1>2, <3>2, ConnectionsKept DEF ImportInv
      <3> QED BY <1>2, <2>3, <3>2, <3>3, <3>4, KeysStayKnown DEF ImportInv
    <2>5. CASE req[w].by = IflowCookie
      <3>0. PICK k : k = req[w].key
        OBVIOUS
      <3>1. /\ Issued(w) /\ k \in Nat /\ iflow \in Nat /\ k <= iflow
            /\ k < iflow => k + 1 \in overlapped
            /\ ConnectionsInv /\ KeysKnown /\ AtWorkInv
        BY <1>1, <2>5, <3>0 DEF Issued, Ends, RequestInv, CourseInv, ImportInv, IflowInv, AtWorkInv
      <3>2. /\ \A c \in conns' : ConnectionFields \subseteq DOMAIN c /\ c.key \in Nat
            /\ \A c \in conns' : OfIflow(c) => c.key = k
        <4>1. req[w].by.provider = "iflow"
          BY <1>1, <2>5, ImporterFacts
        <4> QED BY <2>1, <3>0, <3>1, <4>1, IflowPost
      <3>3. \A v \in Clients : (Issued(v)' <=> Issued(v)) /\ req'[v].key = req[v].key
        <4>1. Issued(w)' /\ req'[w].key = req[w].key
          BY <2>2, <3>1 DEF Issued, Ends
        <4>2. \A v \in Clients \ {w} : (Issued(v)' <=> Issued(v)) /\ req'[v].key = req[v].key
          BY <2>2 DEF Others, Issued
        <4> QED BY <3>1, <4>1, <4>2
      <3>4. ConnectionsInv'
        BY <1>2, <3>1, <3>2 DEF ConnectionsInv
      <3>5. KeysKnown'
        <4>1. k = iflow' \/ Known(k)'
          <5>1. CASE k = iflow
            BY <1>2, <5>1
          <5>2. CASE k < iflow
            <6>1. PICK n : n = k + 1
              OBVIOUS
            <6>2. n \in (k + 1)..iflow' /\ n \in overlapped'
              BY <1>2, <3>1, <5>2, <6>1
            <6> QED BY <6>2 DEF Known
          <5> QED BY <3>1, <5>1, <5>2
        <4> QED BY <1>2, <3>1, <3>2, <4>1 DEF KeysKnown
      <3>6. AtWorkInv'
        BY <1>2, <3>1, <3>3 DEF AtWorkInv
      <3>7. LandedOver'
        BY <1>2, <3>0, <3>1, <3>2, <3>3 DEF LandedOver, AtWorkInv
      <3> QED BY <1>2, <2>3, <3>1, <3>4, <3>5, <3>6, <3>7 DEF ImportInv, IflowInv
    <2> QED BY <2>4, <2>5
  <1> QED BY <1>3, <1>4

\* No request changes.
LEMMA NoRequest ==
    ASSUME RequestsInv, req' = req, kiro' = kiro
    PROVE  RequestsInv'
  BY DEF RequestsInv, RequestInv, RequestShape, CourseInv, CountInv, LandedInv

\* A post served late writes a key that is accounted for.
LEMMA LandLateHolds ==
    ASSUME ImportInv, NEW p \in pending, LandLate(p)
    PROVE  ImportInv'
  <1>1. /\ Create(p.provider, p.key, NoPool) /\ pending' \subseteq pending
        /\ UNCHANGED <<req, iflow, kiro, accounted, overlapped>>
    BY DEF LandLate, history
  <1>2. /\ RequestsInv /\ iflow \in Nat /\ ConnectionsInv /\ KeysKnown /\ AtWorkInv /\ LandedOver
        /\ p.key \in Nat /\ (p.provider = "iflow" => p.key \in accounted /\ p.key <= iflow)
    BY DEF ImportInv, IflowInv, ConnectionsInv
  <1>3. RequestsInv'
    BY <1>1, <1>2, NoRequest
  <1>4. CASE p.provider # "iflow"
    <2>1. /\ \A c \in conns' : ConnectionFields \subseteq DOMAIN c /\ c.key \in Nat
          /\ \A c \in conns' : OfIflow(c) => Kin(c)
      BY <1>1, <1>2, <1>4, OtherPost
    <2>2. ConnectionsInv'
      BY <1>1, <2>1, ConnectionsKept DEF ImportInv
    <2>3. \A v \in Clients : Fate(v)
      BY <1>1 DEF Fate, Issued
    <2> QED BY <1>1, <1>3, <2>1, <2>2, <2>3, KeysStayKnown DEF ImportInv
  <1>5. CASE p.provider = "iflow"
    <2>0. PICK k : k = p.key
      OBVIOUS
    <2>1. /\ \A c \in conns' : ConnectionFields \subseteq DOMAIN c /\ c.key \in Nat
          /\ \A c \in conns' : OfIflow(c) => c.key = k
      BY <1>1, <1>2, <1>5, <2>0, IflowPost
    <2>2. ConnectionsInv'
      BY <1>1, <2>1, ConnectionsKept DEF ImportInv
    <2>3. k \in accounted' /\ k <= iflow'
      BY <1>1, <1>2, <1>5, <2>0
    <2>4. KeysKnown'
      BY <2>1, <2>3 DEF KeysKnown, Known
    <2>5. AtWorkInv'
      BY <1>1, <1>2 DEF AtWorkInv, Issued
    <2>6. LandedOver'
      BY <2>1, <2>3 DEF LandedOver
    <2> QED BY <1>1, <1>2, <1>3, <2>2, <2>4, <2>5, <2>6 DEF ImportInv, IflowInv
  <1> QED BY <1>4, <1>5

\* The user edits connections and pools.
LEMMA EditsHold ==
    ASSUME ImportInv,
           \/ CreatePool \/ \E p \in pools : DeletePool(p)
           \/ \E c \in conns : DeleteConnection(c) \/ Rename(c)
           \/ UNCHANGED importVars
    PROVE  ImportInv'
  <1>1. UNCHANGED <<req, pending, iflow, kiro, accounted, overlapped>>
    BY DEF CreatePool, DeletePool, DeleteConnection, Rename, Edit, importVars, history
  <1>2. RequestsInv'
    BY <1>1, NoRequest DEF ImportInv
  <1>3. \A v \in Clients : Fate(v)
    BY <1>1 DEF Fate, Issued
  <1>4. /\ \A c \in conns' : ConnectionFields \subseteq DOMAIN c /\ c.key \in Nat
        /\ \A c \in conns' : OfIflow(c) => Kin(c)
    <2>1. CASE conns' \subseteq conns
      BY <2>1, SameConnections DEF ImportInv
    <2>2. ASSUME NEW c \in conns, Rename(c)
          PROVE  /\ \A d \in conns' : ConnectionFields \subseteq DOMAIN d /\ d.key \in Nat
                 /\ \A d \in conns' : OfIflow(d) => Kin(d)
      <3>1. PICK e : e = [c EXCEPT !.name = "renamed"]
        OBVIOUS
      <3>2. ConnectionFields \subseteq DOMAIN c /\ c.key \in Nat
        BY DEF ImportInv, IflowInv, ConnectionsInv
      <3>3. ConnectionFields \subseteq DOMAIN e /\ e.key \in Nat /\ ~OfIflow(e)
        BY <3>1, <3>2 DEF ConnectionFields, OfIflow
      <3>4. conns' = (conns \ {c}) \cup {e}
        BY <2>2, <3>1 DEF Rename
      <3> QED BY <3>3, <3>4 DEF Kin, ImportInv, IflowInv, ConnectionsInv
    <2>3. /\ CreatePool \/ UNCHANGED importVars \/ (\E p \in pools : DeletePool(p))
                => conns' \subseteq conns
          /\ \A c \in conns : DeleteConnection(c) => conns' \subseteq conns
      BY DEF CreatePool, DeletePool, DeleteConnection, Edit, importVars
    <2> QED BY <2>1, <2>2, <2>3
  <1>5. ConnectionsInv'
    BY <1>1, <1>4, ConnectionsKept DEF ImportInv
  <1> QED BY <1>1, <1>2, <1>3, <1>4, <1>5, KeysStayKnown DEF ImportInv

\* Every step keeps both.
LEMMA ImportStep ==
    ASSUME ImportInv, [ImportNext]_importVars
    PROVE  ImportInv'
  BY ArrivalsHold, AnswersHold, RefreshHolds, RotateHolds, LandHolds, LandLateHolds, EditsHold
  DEF ImportNext

\* There are neither keys nor connections at the start.
LEMMA ImportInitially == ImportInit => ImportInv /\ DanglingOnlyWhenOvertaken
  <1> SUFFICES ASSUME ImportInit PROVE ImportInv /\ DanglingOnlyWhenOvertaken
    OBVIOUS
  <1>1. PICK r : r = Blank
    OBVIOUS
  <1>2. r.step = "idle" /\ \A w \in Clients : req[w] = r
    BY <1>1 DEF ImportInit, Blank
  <1>3. \A w \in Clients : ~Issued(w)
    BY <1>2 DEF Issued, Ends
  <1>4. IflowInv
    BY <1>3 DEF ImportInit, IflowInv, ConnectionsInv, KeysKnown, AtWorkInv, LandedOver
  <1> QED BY <1>4, RequestsInitially DEF ImportInv, ImportInit, DanglingOnlyWhenOvertaken

\* A post leaves a binding of its own, or none but those there were.
LEMMA PostBinds ==
    ASSUME ImportInv, DanglingOnlyWhenOvertaken, NEW provider, NEW key, NEW pool,
           Create(provider, key, pool), pools' = pools, overtaken \subseteq overtaken',
           \A c \in conns' : c.pool = pool => pool \in pools \cup {NoPool} \/ c.id \in overtaken'
    PROVE  DanglingOnlyWhenOvertaken'
  <1>1. ASSUME NEW c \in conns' PROVE c \in conns \/ c.pool = pool
    BY CreatedIs DEF Create, ImportInv, IflowInv, ConnectionsInv
  <1> QED BY <1>1 DEF DanglingOnlyWhenOvertaken

\* A binding dangles only when its pool went while it was under way.
LEMMA DanglingStep ==
    ASSUME ImportInv, DanglingOnlyWhenOvertaken, [ImportNext]_importVars
    PROVE  DanglingOnlyWhenOvertaken'
  <1>1. \A c \in conns : ConnectionFields \subseteq DOMAIN c
    BY DEF ImportInv, IflowInv, ConnectionsInv
  <1>2. ASSUME NEW w \in Clients, Land(w)
        PROVE  DanglingOnlyWhenOvertaken'
    <2>1. pools' = pools /\ overtaken' = overtaken
      BY <1>2 DEF Land, history
    <2>2. CASE Create(req[w].by.provider, req[w].key, NoPool)
      BY <2>1, <2>2, PostBinds
    <2>3. CASE conns' = conns
      BY <2>1, <2>3 DEF DanglingOnlyWhenOvertaken
    <2> QED BY <1>2, <2>2, <2>3 DEF Land
  <1>3. ASSUME NEW p \in pending, LandLate(p)
        PROVE  DanglingOnlyWhenOvertaken'
    <2>1. pools' = pools /\ overtaken' = overtaken /\ Create(p.provider, p.key, NoPool)
      BY <1>3 DEF LandLate, history
    <2> QED BY <2>1, PostBinds
  <1>4. ASSUME NEW w \in Clients, BindLands(w)
        PROVE  DanglingOnlyWhenOvertaken'
    <2>0. PICK pool, found : pool = req[w].pool /\ found = {c \in conns : c.id = req[w].target}
      OBVIOUS
    <2>1. /\ pools' = pools
          /\ overtaken' = IF pool \in pools THEN overtaken
                          ELSE overtaken \cup ({c.id : c \in {d \in conns' : d.pool = pool}}
                                               \ {c.id : c \in Bound(pool)})
      BY <1>4, <2>0 DEF BindLands
    <2>2. overtaken \subseteq overtaken'
      BY <2>1
    <2>3. ASSUME NEW c \in conns', c.pool = pool
          PROVE  pool \in pools \cup {NoPool} \/ c.id \in overtaken'
      <3>1. CASE \E d \in Bound(pool) : d.id = c.id
        BY <2>2, <3>1 DEF Bound, DanglingOnlyWhenOvertaken
      <3>2. CASE ~\E d \in Bound(pool) : d.id = c.id
        BY <2>1, <2>3, <3>2
      <3> QED BY <3>1, <3>2
    <2>4. CASE req[w].target = 0
      <3>1. Create(req[w].by.provider, req[w].key, pool)
        BY <1>4, <2>0, <2>4 DEF BindLands
      <3> QED BY <2>1, <2>2, <2>3, <3>1, PostBinds
    <2>5. CASE req[w].target # 0
      <3>1. conns' = (conns \ found) \cup {[c EXCEPT !.pool = pool] : c \in found}
        BY <1>4, <2>0, <2>5 DEF BindLands
      <3>2. ASSUME NEW c \in found, NEW d, d = [c EXCEPT !.pool = pool]
            PROVE  d.pool = pool
        BY <1>1, <2>0, <3>2 DEF ConnectionFields
      <3>3. \A c \in conns' : c \in conns \/ c.pool = pool
        BY <3>1, <3>2
      <3> QED BY <2>1, <2>2, <2>3, <3>3 DEF DanglingOnlyWhenOvertaken
    <2> QED BY <2>4, <2>5
  <1>5. ASSUME NEW p \in pools, DeletePool(p)
        PROVE  DanglingOnlyWhenOvertaken'
    BY <1>5 DEF DeletePool, Bound, Edit, history, DanglingOnlyWhenOvertaken
  <1>6. ASSUME NEW c \in conns, Rename(c)
        PROVE  DanglingOnlyWhenOvertaken'
    <2>1. PICK e : e = [c EXCEPT !.name = "renamed"]
      OBVIOUS
    <2>2. e.pool = c.pool /\ e.id = c.id
      BY <1>1, <2>1 DEF ConnectionFields
    <2>3. conns' = (conns \ {c}) \cup {e} /\ pools' = pools /\ overtaken' = overtaken
      BY <1>6, <2>1 DEF Rename, Edit, history
    <2> QED BY <2>2, <2>3 DEF DanglingOnlyWhenOvertaken
  <1> DEFINE Unbound == conns' \subseteq conns /\ pools \subseteq pools' /\ overtaken' = overtaken
  <1>7. CASE Unbound
    BY <1>7 DEF DanglingOnlyWhenOvertaken
  <1>8. /\ \A w \in Clients : Verify(w) \/ Refresh(w) \/ Read(w) \/ Rotate(w) \/ Item(w) \/ Reply(w)
                              \/ GiveUp(w) \/ Leave(w) => Unbound
        /\ \A w \in Clients, i \in Offered, key \in {Good, Bad} : Arrive(w, i, key) => Unbound
        /\ \A w \in Clients : \A p, t : Bind(w, p, t) => Unbound
        /\ \A c \in conns : DeleteConnection(c) => Unbound
        /\ CreatePool \/ UNCHANGED importVars => Unbound
    BY DEF Verify, Refresh, Read, Rotate, Item, Reply, GiveUp, Leave, Arrive, Bind,
           DeleteConnection, CreatePool, Edit, stateVars, history, importVars
  <1> QED BY <1>2, <1>3, <1>4, <1>5, <1>6, <1>7, <1>8 DEF ImportNext

\* What the importers say is so wherever the invariants hold.
LEMMA ImportsAreTrue == ImportInv => ImportsAreAccounted
  <1> SUFFICES ASSUME ImportInv PROVE ImportsAreAccounted
    OBVIOUS
  <1>1. ImportAnswersTruthful
    <2> SUFFICES ASSUME NEW w \in Clients, req[w].by \in Importers
                 PROVE  LET r == req[w] IN
                   /\ r.step = "success" => r.won + r.lost = IF r.by.accounts > 1 THEN r.by.accounts ELSE 0
                   /\ r.step = "success" /\ r.by.accounts = 1 => r.landed = 1
                   /\ r.won <= r.landed
                   /\ r.step = "invalid" => r.landed = 0 /\ ~r.moved
                   /\ r.by.first = "verify" /\ (r.landed > 0 \/ r.step = "unrecorded") => r.key = Good
      BY DEF ImportAnswersTruthful
    <2>1. RequestInv(w) /\ req[w].by # Dashboard
          /\ (req[w].by.accounts > 1 <=> req[w].by.first = "item")
      BY ImporterFacts DEF ImportInv, RequestsInv
    <2>2. req[w].step = "success" =>
            req[w].won + req[w].lost = IF req[w].by.accounts > 1 THEN req[w].by.accounts ELSE 0
      BY <2>1 DEF RequestInv, CountInv
    <2> QED BY <2>1, <2>2 DEF RequestInv, LandedInv
  <1>2. DeadKeyIsAccounted
    <2> SUFFICES ASSUME NEW c \in Same(conns, "iflow"), c.key # iflow
                 PROVE  \/ c.key \in accounted
                        \/ \E key \in (c.key + 1)..iflow :
                              \/ key \in accounted \cup overlapped
                              \/ \E w \in Clients : req[w].by = IflowCookie /\ req[w].key = key
                                                    /\ req[w].step \notin Ends
      BY DEF DeadKeyIsAccounted
    <2>1. Known(c.key)
      BY DEF ImportInv, IflowInv, KeysKnown, Same, OfIflow
    <2> QED BY <2>1 DEF Known, Issued
  <1> QED BY <1>1, <1>2 DEF ImportsAreAccounted

-----------------------------------------------------------------------------
(* The records.  What a request looked up, and what an import read, stays     *)
(* right about everything written before; what was written since bears a      *)
(* later time.                                                                *)

\* A set of numbers that is not empty has a least one.
LEMMA LeastNumber ==
    ASSUME NEW S \in SUBSET Nat, S # {}
    PROVE  \E n \in S : \A m \in S : n <= m
  <1>1. PICK n \in S : \A m \in S : ~(<<m, n>> \in OpToRel(<, Nat))
    BY WFMin, NatLessThanWellFounded
  <1>2. \A m \in S : ~(m < n)
    BY <1>1 DEF OpToRel
  <1> QED BY <1>2

\* The image of a finite set is finite, and not larger.
LEMMA IdsCounted ==
    ASSUME NEW set, IsFiniteSet(set)
    PROVE  IsFiniteSet(IdsOf(set)) /\ Cardinality(IdsOf(set)) <= Cardinality(set)
  <1> DEFINE f == [r \in set |-> r.id]
  <1>1. f \in Surjection(set, IdsOf(set))
    BY DEF Surjection, IdsOf
  <1> HIDE DEF f
  <1> QED BY <1>1, FS_Surjection

\* There is a free id, and it is the one that is given.
LEMMA LowestFreeIsFree ==
    ASSUME NEW set, IsFiniteSet(set)
    PROVE  LET id == LowestFree(Cardinality(set), IdsOf(set))
           IN  id \in Nat \ {0} /\ id \notin IdsOf(set)
  <1> DEFINE count == Cardinality(set)
             ids == IdsOf(set)
             places == (count + 1)..(2 * count + 1)
             free == places \ ids
  <1>1. count \in Nat /\ IsFiniteSet(ids) /\ Cardinality(ids) <= count /\ Cardinality(ids) \in Nat
    BY IdsCounted, FS_CardinalityType
  <1> HIDE DEF count, ids
  <1>2. IsFiniteSet(places) /\ Cardinality(places) = count + 1
    <2>1. PICK a \in Int, b \in Int : a = count + 1 /\ b = 2 * count + 1
      BY <1>1
    <2>2. IsFiniteSet(a..b) /\ Cardinality(a..b) = IF a > b THEN 0 ELSE b - a + 1
      BY FS_Interval
    <2>3. ~(a > b) /\ b - a + 1 = count + 1 /\ places = a..b
      BY <1>1, <2>1
    <2> HIDE DEF places
    <2> QED BY <2>2, <2>3
  <1>3. ~(places \subseteq ids)
    <2> SUFFICES ASSUME places \subseteq ids PROVE FALSE
      OBVIOUS
    <2> HIDE DEF places
    <2>1. Cardinality(places) <= Cardinality(ids)
      BY <1>1, FS_Subset
    <2> QED BY <1>1, <1>2, <2>1
  <1>4. free \in SUBSET Nat /\ free # {}
    BY <1>1, <1>3
  <1> HIDE DEF free
  <1>5. PICK n \in free : \A m \in free : n <= m
    BY <1>4, LeastNumber
  <1>6. n \in places /\ n \notin ids /\ \A m \in (count + 1)..(n - 1) : m \in ids
    <2>1. n \in places /\ n \notin ids
      BY <1>5 DEF free
    <2>2. ASSUME NEW m \in (count + 1)..(n - 1), m \notin ids PROVE FALSE
      <3>1. m \in free
        BY <1>1, <2>1, <2>2 DEF free
      <3> QED BY <1>1, <1>5, <2>1, <3>1
    <2> QED BY <2>1, <2>2
  <1>7. PICK id : id = LowestFree(count, ids)
    OBVIOUS
  <1>8. id \in places /\ id \notin ids
    BY <1>6, <1>7 DEF LowestFree
  <1> QED BY <1>1, <1>7, <1>8 DEF count, ids

\* Rows of the legacy file from this one on that are neither blank nor known.
Missing(known, from) ==
    {i \in from..Len(Legacy) : ~(Legacy[i].blank \/ Key(Legacy[i].kind, Legacy[i].name) \in known)}

\* The rows of a file can be counted.
LEMMA LegacyCounted == Len(Legacy) \in Nat
  BY RecordsAssumption

\* There are finitely many rows to write.
LEMMA MissingCounted ==
    ASSUME NEW known, NEW from \in Nat
    PROVE  IsFiniteSet(Missing(known, from)) /\ Cardinality(Missing(known, from)) \in Nat
  <1>1. IsFiniteSet(from..Len(Legacy))
    BY LegacyCounted, FS_Interval
  <1>2. Missing(known, from) \subseteq from..Len(Legacy)
    BY DEF Missing
  <1> HIDE DEF Missing
  <1> QED BY <1>1, <1>2, FS_Subset, FS_CardinalityType

\* The next row is the first of those left to write, or lies past the end.
LEMMA NextRowIs ==
    ASSUME NEW t, NEW from \in 1..(Len(Legacy) + 1)
    PROVE  LET row == NextRow(t, from) IN
           /\ row \in from..(Len(Legacy) + 1)
           /\ row <= Len(Legacy) => row \in Missing(t.known, row)
           /\ Missing(t.known, row) = Missing(t.known, from)
           /\ \A i \in from..(row - 1) : i \notin Missing(t.known, i)
  <1> DEFINE left == ToWrite(t, from)
             rows == left \cup {Len(Legacy) + 1}
  <1>1. left = Missing(t.known, from)
    BY DEF ToWrite, Skipped, Missing
  <1>2. left \subseteq from..Len(Legacy)
    BY <1>1 DEF Missing
  <1> HIDE DEF left
  <1>3. rows \in SUBSET Nat /\ rows # {}
    <2>1. Len(Legacy) + 1 \in Nat /\ from \in Nat
      BY LegacyCounted
    <2>2. \A i \in left : i \in Nat
      BY <1>2, <2>1, LegacyCounted
    <2> QED BY <2>1, <2>2
  <1>4. PICK row : row = NextRow(t, from)
    OBVIOUS
  <1>5. row \in rows /\ \A j \in left : row <= j
    <2>1. PICK n \in rows : \A m \in rows : n <= m
      BY <1>3, LeastNumber
    <2>2. \E k \in rows : \A j \in left : k <= j
      BY <2>1
    <2> QED BY <1>4, <2>2 DEF NextRow, left
  <1>6. row \in from..(Len(Legacy) + 1)
    BY <1>2, <1>5, LegacyCounted
  <1>7. row <= Len(Legacy) => row \in Missing(t.known, row)
    <2> SUFFICES ASSUME row <= Len(Legacy) PROVE row \in Missing(t.known, row)
      OBVIOUS
    <2>1. row \in left
      BY <1>5, LegacyCounted
    <2> QED BY <1>1, <1>6, <2>1, LegacyCounted DEF Missing
  <1>8. Missing(t.known, row) = Missing(t.known, from)
    BY <1>1, <1>5, <1>6, LegacyCounted DEF Missing
  <1>9. ASSUME NEW i \in from..(row - 1), i \in Missing(t.known, i) PROVE FALSE
    <2>1. i \in left
      BY <1>1, <1>6, <1>9, LegacyCounted DEF Missing
    <2> QED BY <1>5, <1>6, <2>1, LegacyCounted
  <1> QED BY <1>4, <1>6, <1>7, <1>8, <1>9

ComboFields == {"id", "name", "at", "checked"}
LinkFields == {"uid", "provider", "name", "auth", "life", "at"}
TaskFields == {"step", "id", "name", "known", "began", "checked", "row", "dry", "added", "clean", "owed"}

CombosShape ==
    /\ IsFiniteSet(combos)
    /\ \A c \in combos :
          ComboFields \subseteq DOMAIN c /\ c.id \in Nat \ {0} /\ c.at \in Nat /\ c.at < serial
NodesShape == IsFiniteSet(nodes) /\ nodes \subseteq [id : Nat \ {0}, life : Nat]
LinksShape == \A l \in links : LinkFields \subseteq DOMAIN l /\ l.uid \in Nat /\ l.at \in Nat
RecordShape ==
    serial \in Nat /\ CombosShape /\ NodesShape /\ LinksShape /\ DOMAIN tasks = Editors

TaskShape(e) == LET t == tasks[e] IN
    /\ TaskFields \subseteq DOMAIN t
    /\ t.began \in Nat /\ t.began <= serial /\ t.checked \in Nat /\ t.checked <= serial
    /\ t.row \in 0..(Len(Legacy) + 1) /\ t.added \in Nat
    /\ t.clean \in BOOLEAN /\ t.dry \in BOOLEAN
    /\ t.row > 0 <=> t.step = "rows"

\* What a request found out of the records is so but for what was written since.
LookedUp(e) == LET t == tasks[e] IN
    /\ t.step = "named" =>
          \A c \in combos : c.name = t.name /\ c.id # t.id => t.checked <= c.at
    /\ t.step = "rows" =>
          \A c \in combos : Key("combo", c.name) \in t.known \/ t.checked <= c.at
    /\ t.step \in {"pools", "combos", "rows"} =>
          \A l \in links : l.provider = Builtin => Key("link", l.name) \in t.known \/ t.began <= l.at
    /\ t.step = "rows" /\ t.row <= Len(Legacy) => t.row \in Missing(t.known, t.row)
    /\ t.step = "rows" /\ t.dry => t.row = Len(Legacy) + 1

LinkKeys == {Key("link", l.name) : l \in {m \in links : m.provider = Builtin}}
ProxyKeys == {Key("proxy", p.name) : p \in proxies}
ComboKeys == {Key("combo", c.name) : c \in combos}
CurrentKeys == LinkKeys \cup ProxyKeys \cup ComboKeys

\* What an import that nobody disturbed has read, and has still to write.
Undisturbed(e) == LET t == tasks[e] IN t.clean =>
    /\ t.step = "pools" => t.known = LinkKeys
    /\ t.step = "combos" => t.known = LinkKeys \cup ProxyKeys
    /\ t.step \in {"pools", "combos"} /\ t.owed # Unknown =>
          Cardinality(Missing(CurrentKeys, 1)) = t.owed
    /\ t.step = "rows" /\ t.dry => t.added = Cardinality(Missing(CurrentKeys, 1))
    /\ t.step = "rows" /\ ~t.dry =>
          t.known \subseteq CurrentKeys /\ \A i \in 1..(t.row - 1) : i \notin Missing(CurrentKeys, i)
    /\ t.step = "rows" /\ t.owed # Unknown =>
          t.added + Cardinality(Missing(t.known, t.row)) = t.owed
    /\ t.step = "imported" /\ t.owed # Unknown => t.added = t.owed

TaskInv(e) == TaskShape(e) /\ LookedUp(e) /\ Undisturbed(e)
OwedInv == owed # Unknown => owed = Cardinality(Missing(CurrentKeys, 1))

RecordsInv ==
    /\ RecordShape /\ NamesApart /\ NodesApart /\ ServesItsNode
    /\ OwedInv /\ \A e \in Editors : TaskInv(e)

\* A request that is over knows nothing.
LEMMA OverKeeps ==
    ASSUME NEW e, tasks'[e] = Rest, serial' \in Nat
    PROVE  TaskInv(e)'
  <1>1. PICK r : r = Rest
    OBVIOUS
  <1>2. /\ TaskFields \subseteq DOMAIN r /\ r.step = "over" /\ r.began = 0 /\ r.checked = 0
        /\ r.row = 0 /\ r.added = 0 /\ r.clean = FALSE /\ r.clean \in BOOLEAN /\ r.dry \in BOOLEAN
    BY <1>1 DEF Rest, TaskFields
  <1>3. tasks'[e] = r
    BY <1>1
  <1>4. TaskShape(e)'
    BY <1>2, <1>3, LegacyCounted DEF TaskShape
  <1>5. LookedUp(e)' /\ Undisturbed(e)'
    BY <1>2, <1>3 DEF LookedUp, Undisturbed
  <1> QED BY <1>4, <1>5 DEF TaskInv

\* What is written now is later than all that was looked up.
Later == /\ serial' = serial + 1
         /\ \A c \in combos' : c \in combos \/ c.at = serial
         /\ \A l \in links' : l \in links \/ l.at = serial

\* A request keeps what it found out when another one writes.
LEMMA LookedUpStays ==
    ASSUME RecordShape, Later, NEW e \in Editors, TaskShape(e), LookedUp(e),
           tasks'[e] = [tasks[e] EXCEPT !.clean = FALSE]
    PROVE  TaskInv(e)'
  <1>1. TaskFields \subseteq DOMAIN tasks[e] /\ serial \in Nat
    BY DEF TaskShape, RecordShape
  <1>2. PICK t, u : t = tasks[e] /\ u = tasks'[e]
    OBVIOUS
  <1>3. /\ TaskFields \subseteq DOMAIN u /\ u.clean = FALSE /\ u.clean \in BOOLEAN
        /\ u.step = t.step /\ u.id = t.id /\ u.name = t.name /\ u.known = t.known
        /\ u.began = t.began /\ u.checked = t.checked /\ u.row = t.row /\ u.dry = t.dry
        /\ u.added = t.added
    BY <1>1, <1>2 DEF TaskFields
  <1>4. TaskShape(e)'
    BY <1>1, <1>2, <1>3 DEF TaskShape, Later
  <1>5. LookedUp(e)'
    <2>1. t.began <= serial /\ t.checked <= serial
      BY <1>2 DEF TaskShape
    <2>2. t.step = "named" => \A c \in combos' : c.name = t.name /\ c.id # t.id => t.checked <= c.at
      BY <1>2, <2>1 DEF LookedUp, Later
    <2>3. t.step = "rows" => \A c \in combos' : Key("combo", c.name) \in t.known \/ t.checked <= c.at
      BY <1>2, <2>1 DEF LookedUp, Later
    <2>4. t.step \in {"pools", "combos", "rows"} =>
            \A l \in links' : l.provider = Builtin => Key("link", l.name) \in t.known \/ t.began <= l.at
      BY <1>2, <2>1 DEF LookedUp, Later
    <2>5. /\ t.step = "rows" /\ t.row <= Len(Legacy) => t.row \in Missing(t.known, t.row)
          /\ t.step = "rows" /\ t.dry => t.row = Len(Legacy) + 1
      BY <1>2 DEF LookedUp
    <2> QED BY <1>2, <1>3, <2>2, <2>3, <2>4, <2>5 DEF LookedUp
  <1>6. Undisturbed(e)'
    BY <1>2, <1>3 DEF Undisturbed
  <1> QED BY <1>4, <1>5, <1>6 DEF TaskInv

\* A write keeps the invariant when the records it leaves do.
LEMMA WriteKeeps ==
    ASSUME RecordsInv, Later, NEW e, NEW task, Writes(e, task),
           CombosShape', NodesShape', LinksShape',
           NamesApart', NodesApart', ServesItsNode',
           e \in Editors => TaskInv(e)'
    PROVE  RecordsInv'
  <1>1. /\ owed' = Unknown
        /\ tasks' = [f \in Editors |-> IF f = e THEN task ELSE [tasks[f] EXCEPT !.clean = FALSE]]
    BY DEF Writes
  <1>2. DOMAIN tasks' = Editors /\ serial' \in Nat
    BY <1>1 DEF Later, RecordsInv, RecordShape
  <1>3. ASSUME NEW f \in Editors, f # e PROVE TaskInv(f)'
    <2>1. tasks'[f] = [tasks[f] EXCEPT !.clean = FALSE]
      BY <1>1, <1>3
    <2> QED BY <2>1, LookedUpStays DEF RecordsInv, TaskInv
  <1>4. \A f \in Editors : TaskInv(f)'
    BY <1>3
  <1> QED BY <1>1, <1>2, <1>4 DEF RecordsInv, RecordShape, OwedInv

\* A request that is over by its own write, or an edit of one step.
LEMMA LastWriteKeeps ==
    ASSUME RecordsInv, Later, NEW e, Writes(e, Rest),
           CombosShape', NodesShape', LinksShape', NamesApart', NodesApart', ServesItsNode'
    PROVE  RecordsInv'
  <1>1. ASSUME e \in Editors PROVE TaskInv(e)'
    <2>1. tasks'[e] = Rest
      BY <1>1 DEF Writes
    <2>2. serial' \in Nat
      BY DEF Later, RecordsInv, RecordShape
    <2> QED BY <2>1, <2>2, OverKeeps
  <1> QED BY <1>1, WriteKeeps

\* A request that looks keeps the records.
LEMMA LookKeeps ==
    ASSUME RecordsInv, NEW e \in Editors, NEW task, Goes(e, task),
           UNCHANGED <<combos, nodes, links, proxies, serial>>, OwedInv', TaskInv(e)'
    PROVE  RecordsInv'
  <1>1. DOMAIN tasks' = Editors /\ \A f \in Editors \ {e} : tasks'[f] = tasks[f]
    BY DEF Goes, RecordsInv, RecordShape
  <1>2. RecordShape'
    BY <1>1 DEF RecordsInv, RecordShape, CombosShape, NodesShape, LinksShape
  <1>3. NamesApart' /\ NodesApart' /\ ServesItsNode'
    BY DEF RecordsInv, NamesApart, NodesApart, ServesItsNode
  <1>4. ASSUME NEW f \in Editors, f # e PROVE TaskInv(f)'
    <2>1. tasks'[f] = tasks[f] /\ TaskInv(f)
      BY <1>1, <1>4 DEF RecordsInv
    <2>2. LinkKeys' = LinkKeys /\ ProxyKeys' = ProxyKeys /\ CurrentKeys' = CurrentKeys
      BY DEF LinkKeys, ProxyKeys, ComboKeys, CurrentKeys
    <2>3. TaskShape(f)' /\ LookedUp(f)'
      BY <2>1 DEF TaskInv, TaskShape, LookedUp
    <2>4. Undisturbed(f)'
      BY <2>1, <2>2 DEF TaskInv, Undisturbed
    <2> QED BY <2>3, <2>4 DEF TaskInv
  <1> QED BY <1>2, <1>3, <1>4 DEF RecordsInv

\* The keys there are do not change when no record does.
LEMMA KeysStay ==
    ASSUME UNCHANGED <<combos, links, proxies>>
    PROVE  /\ LinkKeys' = LinkKeys /\ ProxyKeys' = ProxyKeys /\ ComboKeys' = ComboKeys
           /\ CurrentKeys' = CurrentKeys
  BY DEF LinkKeys, ProxyKeys, ComboKeys, CurrentKeys

\* There are no records and no requests at first.
LEMMA RecordsInitially == ASSUME RecordsInit PROVE RecordsInv
  <1>1. /\ combos = {} /\ nodes = {} /\ links = {} /\ serial = 0 /\ owed = Unknown
        /\ tasks = [e \in Editors |-> Rest]
    BY DEF RecordsInit
  <1>2. RecordShape
    <2>1. IsFiniteSet({})
      BY FS_EmptySet
    <2> QED BY <1>1, <2>1 DEF RecordShape, CombosShape, NodesShape, LinksShape
  <1>3. NamesApart /\ NodesApart /\ ServesItsNode /\ OwedInv
    BY <1>1 DEF NamesApart, NodesApart, ServesItsNode, OwedInv
  <1>4. ASSUME NEW e \in Editors PROVE TaskInv(e)
    <2>1. PICK r : r = Rest
      OBVIOUS
    <2>2. /\ TaskFields \subseteq DOMAIN r /\ r.step = "over" /\ r.began = 0 /\ r.checked = 0
          /\ r.row = 0 /\ r.added = 0 /\ r.clean = FALSE /\ r.clean \in BOOLEAN /\ r.dry \in BOOLEAN
      BY <2>1 DEF Rest, TaskFields
    <2>3. tasks[e] = r
      BY <1>1, <2>1
    <2>4. TaskShape(e)
      BY <1>1, <2>2, <2>3, LegacyCounted DEF TaskShape
    <2>5. LookedUp(e) /\ Undisturbed(e)
      BY <2>2, <2>3 DEF LookedUp, Undisturbed
    <2> QED BY <2>4, <2>5 DEF TaskInv
  <1> QED BY <1>2, <1>3, <1>4 DEF RecordsInv

\* A new combo has an id of its own, and bears the time at which its name was
\* checked.
LEMMA NewCombo ==
    ASSUME RecordsInv, NEW task, task.checked \in Nat, serial' = serial + 1,
           \A c \in combos : c.name = task.name => task.checked <= c.at,
           combos' = combos \cup {Combo(NextComboId, task)}
    PROVE  CombosShape' /\ NamesApart' /\ \A c \in combos' : c \in combos \/ c.at = serial
  <1>1. CombosShape /\ NamesApart /\ serial \in Nat
    BY DEF RecordsInv, RecordShape
  <1>2. PICK new : new = Combo(NextComboId, task)
    OBVIOUS
  <1>3. /\ ComboFields \subseteq DOMAIN new /\ new.id = NextComboId /\ new.at = serial
        /\ new.name = task.name /\ new.checked = task.checked
    BY <1>2 DEF Combo, ComboFields
  <1>4. NextComboId \in Nat \ {0} /\ \A c \in combos : c.id # NextComboId
    BY <1>1, LowestFreeIsFree DEF NextComboId, IdsOf, CombosShape
  <1>5. combos' = combos \cup {new}
    BY <1>2
  <1>6. CombosShape'
    <2>1. IsFiniteSet(combos')
      BY <1>1, <1>5, FS_AddElement DEF CombosShape
    <2>2. ASSUME NEW c \in combos'
          PROVE  ComboFields \subseteq DOMAIN c /\ c.id \in Nat \ {0} /\ c.at \in Nat /\ c.at < serial'
      <3>1. CASE c \in combos
        BY <1>1, <3>1 DEF CombosShape
      <3>2. CASE c = new
        BY <1>1, <1>3, <1>4, <3>2
      <3> QED BY <1>5, <3>1, <3>2
    <2> QED BY <2>1, <2>2 DEF CombosShape
  <1>7. NamesApart'
    <2>1. ASSUME NEW c \in combos', NEW d \in combos', c # d
          PROVE  c.id # d.id /\ (c.name = d.name /\ c.at < d.at => d.checked <= c.at)
      <3>1. CASE c \in combos /\ d \in combos
        BY <1>1, <2>1, <3>1 DEF NamesApart
      <3>2. CASE c \in combos /\ d = new
        BY <1>3, <1>4, <3>2
      <3>3. CASE c = new /\ d \in combos
        <4>1. d.at < serial /\ d.at \in Nat
          BY <1>1, <3>3 DEF CombosShape
        <4> QED BY <1>1, <1>3, <1>4, <3>3, <4>1
      <3> QED BY <1>5, <2>1, <3>1, <3>2, <3>3
    <2> QED BY <2>1 DEF NamesApart
  <1> QED BY <1>3, <1>5, <1>6, <1>7

\* Nothing is written to the connections and the nodes.
LEMMA LinksStay ==
    ASSUME RecordsInv, UNCHANGED <<nodes, links>>
    PROVE  /\ NodesShape' /\ LinksShape' /\ NodesApart' /\ ServesItsNode'
           /\ \A l \in links' : l \in links \/ l.at = serial
  BY DEF RecordsInv, RecordShape, NodesShape, LinksShape, NodesApart, ServesItsNode

\* Nothing is written to the combos.
LEMMA CombosStay ==
    ASSUME RecordsInv, combos' = combos, serial' = serial + 1
    PROVE  /\ CombosShape' /\ NamesApart'
           /\ \A c \in combos' : c \in combos \/ c.at = serial
  <1>1. CombosShape /\ NamesApart /\ serial \in Nat
    BY DEF RecordsInv, RecordShape
  <1> QED BY <1>1 DEF CombosShape, NamesApart

\* Creating a combo keeps the invariant.
LEMMA CreateComboKeeps ==
    ASSUME RecordsInv, NEW e \in Editors, CreateCombo(e)
    PROVE  RecordsInv'
  <1>1. /\ tasks[e].step = "named" /\ tasks[e].id = 0 /\ Writes(e, Rest)
        /\ combos' = combos \cup {Combo(NextComboId, tasks[e])}
        /\ UNCHANGED <<nodes, links>> /\ serial' = serial + 1
    BY DEF CreateCombo, Writes
  <1>2. tasks[e].checked \in Nat
    BY DEF RecordsInv, TaskInv, TaskShape
  <1>3. \A c \in combos : c.name = tasks[e].name => tasks[e].checked <= c.at
    <2>1. \A c \in combos : c.id # 0
      BY DEF RecordsInv, RecordShape, CombosShape
    <2> QED BY <1>1, <2>1 DEF RecordsInv, TaskInv, LookedUp
  <1>4. CombosShape' /\ NamesApart' /\ \A c \in combos' : c \in combos \/ c.at = serial
    BY <1>1, <1>2, <1>3, NewCombo
  <1>5. /\ NodesShape' /\ LinksShape' /\ NodesApart' /\ ServesItsNode'
        /\ \A l \in links' : l \in links \/ l.at = serial
    BY <1>1, LinksStay
  <1> QED BY <1>1, <1>4, <1>5, LastWriteKeeps DEF Later

\* Giving a combo another name keeps the invariant.
LEMMA UpdateComboKeeps ==
    ASSUME RecordsInv, NEW e \in Editors, UpdateCombo(e)
    PROVE  RecordsInv'
  <1>1. PICK t : t = tasks[e]
    OBVIOUS
  <1>2. PICK new : new = Combo(t.id, t)
    OBVIOUS
  <1>3. /\ t.step = "named" /\ t.id \in IdsOf(combos) /\ Writes(e, Rest)
        /\ combos' = {IF c.id = t.id THEN new ELSE c : c \in combos}
        /\ UNCHANGED <<nodes, links>> /\ serial' = serial + 1
    BY <1>1, <1>2 DEF UpdateCombo, Writes
  <1>4. /\ CombosShape /\ NamesApart /\ serial \in Nat /\ t.checked \in Nat
        /\ \A c \in combos : c.name = t.name /\ c.id # t.id => t.checked <= c.at
    BY <1>1, <1>3 DEF RecordsInv, RecordShape, TaskInv, TaskShape, LookedUp
  <1>5. /\ ComboFields \subseteq DOMAIN new /\ new.id = t.id /\ new.at = serial
        /\ new.name = t.name /\ new.checked = t.checked
    BY <1>2 DEF Combo, ComboFields
  <1>6. t.id \in Nat \ {0}
    BY <1>3, <1>4 DEF IdsOf, CombosShape
  <1>7. \A c \in combos' : \/ c = new
                           \/ c \in combos /\ c.id # t.id
    BY <1>3
  <1>8. CombosShape'
    <2>1. IsFiniteSet(combos')
      <3> DEFINE f == [c \in combos |-> IF c.id = t.id THEN new ELSE c]
      <3>1. f \in Surjection(combos, combos')
        BY <1>3 DEF Surjection
      <3> HIDE DEF f
      <3>2. IsFiniteSet(combos)
        BY <1>4 DEF CombosShape
      <3> QED BY <3>1, <3>2, FS_Surjection
    <2>2. ASSUME NEW c \in combos'
          PROVE  ComboFields \subseteq DOMAIN c /\ c.id \in Nat \ {0} /\ c.at \in Nat /\ c.at < serial'
      <3>1. CASE c \in combos
        BY <1>3, <1>4, <3>1 DEF CombosShape
      <3>2. CASE c = new
        BY <1>3, <1>4, <1>5, <1>6, <3>2
      <3> QED BY <1>7, <3>1, <3>2
    <2> QED BY <2>1, <2>2 DEF CombosShape
  <1>9. NamesApart'
    <2>1. ASSUME NEW c \in combos', NEW d \in combos', c # d
          PROVE  c.id # d.id /\ (c.name = d.name /\ c.at < d.at => d.checked <= c.at)
      <3>1. CASE c \in combos /\ d \in combos
        BY <1>4, <2>1, <3>1 DEF NamesApart
      <3>2. CASE c \in combos /\ c.id # t.id /\ d = new
        BY <1>4, <1>5, <3>2
      <3>3. CASE c = new /\ d \in combos /\ d.id # t.id
        <4>1. d.at < serial /\ d.at \in Nat
          BY <1>4, <3>3 DEF CombosShape
        <4> QED BY <1>4, <1>5, <3>3, <4>1
      <3> QED BY <1>7, <2>1, <3>1, <3>2, <3>3
    <2> QED BY <2>1 DEF NamesApart
  <1>10. \A c \in combos' : c \in combos \/ c.at = serial
    BY <1>5, <1>7
  <1>11. /\ NodesShape' /\ LinksShape' /\ NodesApart' /\ ServesItsNode'
         /\ \A l \in links' : l \in links \/ l.at = serial
    BY <1>3, LinksStay
  <1> QED BY <1>3, <1>8, <1>9, <1>10, <1>11, LastWriteKeeps DEF Later

\* Deleting a combo keeps the invariant.
LEMMA DeleteComboKeeps ==
    ASSUME RecordsInv, NEW c \in combos, DeleteCombo(c)
    PROVE  RecordsInv'
  <1>1. /\ combos' = combos \ {c} /\ Writes(Nobody, Rest)
        /\ UNCHANGED <<nodes, links>> /\ serial' = serial + 1
    BY DEF DeleteCombo, Edits, Writes
  <1>2. CombosShape /\ NamesApart /\ serial \in Nat
    BY DEF RecordsInv, RecordShape
  <1>3. CombosShape'
    <2>1. IsFiniteSet(combos')
      BY <1>1, <1>2, FS_Subset DEF CombosShape
    <2> QED BY <1>1, <1>2, <2>1 DEF CombosShape
  <1>4. NamesApart' /\ \A d \in combos' : d \in combos
    BY <1>1, <1>2 DEF NamesApart
  <1>5. /\ NodesShape' /\ LinksShape' /\ NodesApart' /\ ServesItsNode'
        /\ \A l \in links' : l \in links \/ l.at = serial
    BY <1>1, LinksStay
  <1> QED BY <1>1, <1>3, <1>4, <1>5, LastWriteKeeps DEF Later

\* A request that is over, or has only looked a record up, keeps the invariant.
LEMMA LooksKeep ==
    ASSUME RecordsInv, NEW e \in Editors,
           \/ \E name \in Names, id \in {0} \cup IdsOf(combos) : CheckName(e, name, id)
           \/ \E id \in IdsOf(nodes) : FindNode(e, id)
           \/ NotFound(e)
    PROVE  RecordsInv'
  <1>1. PICK r : r = Rest
    OBVIOUS
  <1>2. /\ DOMAIN r = TaskFields /\ r.step = "over" /\ r.began = 0 /\ r.checked = 0 /\ r.id = 0
        /\ r.row = 0 /\ r.added = 0 /\ r.clean = FALSE /\ r.clean \in BOOLEAN /\ r.dry \in BOOLEAN
    BY <1>1 DEF Rest, TaskFields
  <1>3. serial \in Nat /\ OwedInv /\ DOMAIN tasks = Editors
    BY DEF RecordsInv, RecordShape
  <1>4. CASE NotFound(e)
    <2>1. Goes(e, Rest) /\ UNCHANGED <<combos, nodes, links, proxies, serial, owed>>
      BY <1>4 DEF NotFound
    <2>2. tasks'[e] = Rest
      BY <1>3, <2>1 DEF Goes
    <2>3. TaskInv(e)'
      BY <1>3, <2>1, <2>2, OverKeeps
    <2>4. OwedInv'
      BY <1>3, <2>1, KeysStay DEF OwedInv
    <2> QED BY <2>1, <2>3, <2>4, LookKeeps
  <1>5. ASSUME NEW name \in Names, NEW id \in {0} \cup IdsOf(combos), CheckName(e, name, id)
        PROVE  RecordsInv'
    <2>1. PICK u : u = [Rest EXCEPT !.step = "named", !.id = id, !.name = name, !.checked = serial]
      OBVIOUS
    <2>2. Goes(e, u) /\ UNCHANGED <<combos, nodes, links, proxies, serial, owed>>
      BY <1>5, <2>1 DEF CheckName, Opens
    <2>3. tasks'[e] = u
      BY <1>3, <2>2 DEF Goes
    <2>4. u = [r EXCEPT !.step = "named", !.id = id, !.name = name, !.checked = serial]
      BY <1>1, <2>1
    <2>5. /\ DOMAIN u = TaskFields /\ u.step = "named" /\ u.id = id /\ u.name = name
          /\ u.checked = serial /\ u.began = 0 /\ u.row = 0 /\ u.added = 0
          /\ u.clean = FALSE /\ u.clean \in BOOLEAN /\ u.dry \in BOOLEAN
      BY <1>2, <2>4 DEF TaskFields
    <2>6. TaskShape(e)'
      BY <1>3, <2>2, <2>3, <2>5, LegacyCounted DEF TaskShape
    <2>7. \A c \in combos : ~(c.name = name /\ c.id # id)
      BY <1>5 DEF CheckName, ComboNameExists
    <2>8. LookedUp(e)' /\ Undisturbed(e)'
      BY <2>2, <2>3, <2>5, <2>7 DEF LookedUp, Undisturbed
    <2>9. OwedInv'
      BY <1>3, <2>2, KeysStay DEF OwedInv
    <2> QED BY <2>2, <2>6, <2>8, <2>9, LookKeeps DEF TaskInv
  <1>6. ASSUME NEW id \in IdsOf(nodes), FindNode(e, id)
        PROVE  RecordsInv'
    <2>1. PICK u : u = [Rest EXCEPT !.step = "found", !.id = id]
      OBVIOUS
    <2>2. Goes(e, u) /\ UNCHANGED <<combos, nodes, links, proxies, serial, owed>>
      BY <1>6, <2>1 DEF FindNode, Opens
    <2>3. tasks'[e] = u
      BY <1>3, <2>2 DEF Goes
    <2>4. u = [r EXCEPT !.step = "found", !.id = id]
      BY <1>1, <2>1
    <2>5. /\ DOMAIN u = TaskFields /\ u.step = "found"
          /\ u.checked = 0 /\ u.began = 0 /\ u.row = 0 /\ u.added = 0
          /\ u.clean = FALSE /\ u.clean \in BOOLEAN /\ u.dry \in BOOLEAN
      BY <1>2, <2>4 DEF TaskFields
    <2>6. TaskShape(e)'
      BY <1>3, <2>2, <2>3, <2>5, LegacyCounted DEF TaskShape
    <2>7. LookedUp(e)' /\ Undisturbed(e)'
      BY <2>3, <2>5 DEF LookedUp, Undisturbed
    <2>8. OwedInv'
      BY <1>3, <2>2, KeysStay DEF OwedInv
    <2> QED BY <2>2, <2>6, <2>7, <2>8, LookKeeps DEF TaskInv
  <1> QED BY <1>4, <1>5, <1>6

\* The settings are no record, and neither is the number of requests.
LEMMA RecordsStay ==
    ASSUME RecordsInv, UNCHANGED <<combos, nodes, links, proxies, serial, tasks, owed>>
    PROVE  RecordsInv'
  <1>1. LinkKeys' = LinkKeys /\ ProxyKeys' = ProxyKeys /\ CurrentKeys' = CurrentKeys
    BY KeysStay
  <1>2. RecordShape' /\ NamesApart' /\ NodesApart' /\ ServesItsNode'
    BY DEF RecordsInv, RecordShape, CombosShape, NodesShape, LinksShape, NamesApart, NodesApart, ServesItsNode
  <1>3. OwedInv'
    BY <1>1 DEF RecordsInv, OwedInv
  <1>4. ASSUME NEW e \in Editors PROVE TaskInv(e)'
    <2>1. TaskShape(e) /\ LookedUp(e) /\ Undisturbed(e)
      BY DEF RecordsInv, TaskInv
    <2>2. TaskShape(e)' /\ LookedUp(e)'
      BY <2>1 DEF TaskShape, LookedUp
    <2>3. Undisturbed(e)'
      BY <1>1, <2>1 DEF Undisturbed
    <2> QED BY <2>2, <2>3 DEF TaskInv
  <1> QED BY <1>2, <1>3, <1>4 DEF RecordsInv

\* A connection bears the life of its node, if there is one.
LEMMA LifeIsOfANode ==
    ASSUME NodesShape, NEW provider, Life(provider) # 0
    PROVE  [id |-> provider, life |-> Life(provider)] \in nodes
  <1>1. provider \in IdsOf(nodes)
    BY DEF Life
  <1>2. \E m \in nodes : m.id = provider
    BY <1>1 DEF IdsOf
  <1>3. PICK n : n = CHOOSE m \in nodes : m.id = provider
    OBVIOUS
  <1>4. n \in nodes /\ n.id = provider
    BY <1>2, <1>3
  <1>5. Life(provider) = n.life
    BY <1>1, <1>3 DEF Life
  <1>6. n = [id |-> n.id, life |-> n.life]
    BY <1>4 DEF NodesShape
  <1> QED BY <1>4, <1>5, <1>6

\* A connection is stored as a new one, or in place of the one of its name.
LEMMA StoredIs ==
    ASSUME RecordsInv, NEW provider, NEW name, NEW auth,
           links' = Stored(provider, name, auth)
    PROVE  \E new, gone :
             /\ LinkFields \subseteq DOMAIN new /\ new.uid \in Nat /\ new.at = serial
             /\ new.provider = provider /\ new.name = name /\ new.life = Life(provider)
             /\ links' = (links \ gone) \cup {new}
             /\ \A l \in gone : l.provider = provider /\ l.name = name
  <1> DEFINE over == {l \in links : l.provider = provider /\ l.name = name /\ l.auth = "apikey"}
  <1>1. PICK life : life = Life(provider)
    OBVIOUS
  <1>2. PICK new : new = [uid |-> serial, provider |-> provider, name |-> name, auth |-> auth,
                          life |-> life, at |-> serial]
    OBVIOUS
  <1>3. /\ DOMAIN new = LinkFields /\ new.uid = serial /\ new.at = serial
        /\ new.provider = provider /\ new.name = name /\ new.life = life
    BY <1>2 DEF LinkFields
  <1>4. serial \in Nat /\ LinksShape
    BY DEF RecordsInv, RecordShape
  <1>5. CASE over = {}
    <2>1. PICK gone : gone = {}
      OBVIOUS
    <2>2. links' = (links \ gone) \cup {new}
      BY <1>1, <1>2, <1>5, <2>1 DEF Stored
    <2> QED BY <1>1, <1>3, <1>4, <2>1, <2>2
  <1>6. CASE over # {}
    <2>1. PICK old : old = CHOOSE l \in over : \A m \in over : l.uid <= m.uid
      OBVIOUS
    <2>2. \A l \in over : l \in links /\ l.uid \in Nat /\ l.provider = provider /\ l.name = name
      BY <1>4 DEF LinksShape
    <2>3. links' = (links \ {old}) \cup {[new EXCEPT !.uid = old.uid, !.auth = old.auth]}
      BY <1>1, <1>2, <1>6, <2>1 DEF Stored
    <2> HIDE DEF over
    <2>4. \E l \in over : \A m \in over : l.uid <= m.uid
      <3> DEFINE uids == {l.uid : l \in over}
      <3>1. uids \in SUBSET Nat /\ uids # {}
        BY <1>6, <2>2
      <3> HIDE DEF uids
      <3>2. PICK n \in uids : \A m \in uids : n <= m
        BY <3>1, LeastNumber
      <3> USE DEF uids
      <3>3. PICK l \in over : l.uid = n
        BY <3>2
      <3> QED BY <3>2, <3>3
    <2>5. old \in over
      BY <2>1, <2>4
    <2>6. PICK u : u = [new EXCEPT !.uid = old.uid, !.auth = old.auth]
      OBVIOUS
    <2>7. /\ DOMAIN u = LinkFields /\ u.uid = old.uid /\ u.at = serial
          /\ u.provider = provider /\ u.name = name /\ u.life = life
      BY <1>3, <2>6 DEF LinkFields
    <2>8. PICK gone : gone = {old}
      OBVIOUS
    <2>9. links' = (links \ gone) \cup {u} /\ \A l \in gone : l.provider = provider /\ l.name = name
      BY <2>2, <2>3, <2>5, <2>6, <2>8
    <2> QED BY <1>1, <1>4, <2>2, <2>5, <2>7, <2>9
  <1> QED BY <1>5, <1>6

\* A connection that is stored serves its node.
LEMMA StoredKeeps ==
    ASSUME RecordsInv, NEW provider, NEW name, NEW auth,
           links' = Stored(provider, name, auth), nodes' = nodes
    PROVE  /\ NodesShape' /\ LinksShape' /\ NodesApart' /\ ServesItsNode'
           /\ \A l \in links' : l \in links \/ l.at = serial
  <1>1. PICK new, gone :
             /\ LinkFields \subseteq DOMAIN new /\ new.uid \in Nat /\ new.at = serial
             /\ new.provider = provider /\ new.name = name /\ new.life = Life(provider)
             /\ links' = (links \ gone) \cup {new}
             /\ \A l \in gone : l.provider = provider /\ l.name = name
    BY StoredIs
  <1>2. serial \in Nat /\ NodesShape /\ LinksShape /\ NodesApart /\ ServesItsNode
    BY DEF RecordsInv, RecordShape
  <1>3. \A l \in links' : l \in links \/ l = new
    BY <1>1
  <1>4. NodesShape' /\ NodesApart'
    BY <1>2 DEF NodesShape, NodesApart
  <1>5. LinksShape'
    BY <1>1, <1>2, <1>3 DEF LinksShape
  <1>6. ServesItsNode'
    <2>1. ASSUME NEW l \in links', l.life # 0
          PROVE  [id |-> l.provider, life |-> l.life] \in nodes'
      <3>1. CASE l \in links
        BY <1>2, <2>1, <3>1 DEF ServesItsNode
      <3>2. CASE l = new
        <4>1. Life(provider) # 0
          BY <1>1, <2>1, <3>2
        <4>2. [id |-> provider, life |-> Life(provider)] \in nodes
          BY <1>2, <4>1, LifeIsOfANode
        <4> QED BY <1>1, <3>2, <4>2
      <3> QED BY <1>3, <3>1, <3>2
    <2> QED BY <2>1 DEF ServesItsNode
  <1> QED BY <1>1, <1>3, <1>4, <1>5, <1>6

\* An edit of the connections and the pools keeps the invariant.
LEMMA OtherEditsKeep ==
    ASSUME RecordsInv, OtherEdits
    PROVE  RecordsInv'
  <1>1. serial \in Nat /\ NodesShape /\ LinksShape /\ NodesApart /\ ServesItsNode
    BY DEF RecordsInv, RecordShape
  <1>2. ASSUME NEW provider, NEW name \in Names, CreateLink(provider, name) PROVE RecordsInv'
    <2>1. /\ links' = Stored(provider, name, "apikey") /\ Writes(Nobody, Rest)
          /\ serial' = serial + 1 /\ combos' = combos /\ nodes' = nodes
      BY <1>2 DEF CreateLink, Edits, Writes
    <2>2. CombosShape' /\ NamesApart' /\ \A c \in combos' : c \in combos \/ c.at = serial
      BY <2>1, CombosStay
    <2>3. /\ NodesShape' /\ LinksShape' /\ NodesApart' /\ ServesItsNode'
          /\ \A l \in links' : l \in links \/ l.at = serial
      BY <2>1, StoredKeeps
    <2> QED BY <2>1, <2>2, <2>3, LastWriteKeeps DEF Later
  <1>3. ASSUME NEW l \in links, DeleteLink(l) PROVE RecordsInv'
    <2>1. /\ links' \subseteq links /\ Writes(Nobody, Rest)
          /\ serial' = serial + 1 /\ combos' = combos /\ nodes' = nodes
      BY <1>3 DEF DeleteLink, Edits, Writes
    <2>2. CombosShape' /\ NamesApart' /\ \A c \in combos' : c \in combos \/ c.at = serial
      BY <2>1, CombosStay
    <2>3. NodesShape' /\ LinksShape' /\ NodesApart' /\ ServesItsNode'
      BY <1>1, <2>1 DEF NodesShape, LinksShape, NodesApart, ServesItsNode
    <2> QED BY <2>1, <2>2, <2>3, LastWriteKeeps DEF Later
  <1>4. ASSUME \/ \E name \in Names : \E p \in proxies \cup {NewProxy(name)} : EditProxy(p, name)
               \/ \E p \in proxies : DeleteProxy(p)
        PROVE  RecordsInv'
    <2>1. /\ links' = links /\ Writes(Nobody, Rest)
          /\ serial' = serial + 1 /\ combos' = combos /\ nodes' = nodes
      BY <1>4 DEF EditProxy, DeleteProxy, Edits, Writes
    <2>2. CombosShape' /\ NamesApart' /\ \A c \in combos' : c \in combos \/ c.at = serial
      BY <2>1, CombosStay
    <2>3. /\ NodesShape' /\ LinksShape' /\ NodesApart' /\ ServesItsNode'
          /\ \A l \in links' : l \in links \/ l.at = serial
      BY <2>1, LinksStay
    <2> QED BY <2>1, <2>2, <2>3, LastWriteKeeps DEF Later
  <1>5. CASE PutSettings
    <2>1. UNCHANGED <<combos, nodes, links, proxies, serial, tasks, owed>>
      BY <1>5 DEF PutSettings
    <2> QED BY <2>1, RecordsStay
  <1> QED BY <1>2, <1>3, <1>4, <1>5 DEF OtherEdits

\* An edit of the nodes keeps the invariant.
LEMMA NodeEditsKeep ==
    ASSUME RecordsInv, NodeEdits
    PROVE  RecordsInv'
  <1>1. serial \in Nat /\ NodesShape /\ LinksShape /\ NodesApart /\ ServesItsNode
    BY DEF RecordsInv, RecordShape
  <1>2. CASE CreateNode
    <2>1. PICK new : new = [id |-> NextProviderNodeId, life |-> serial + 1]
      OBVIOUS
    <2>2. /\ nodes' = nodes \cup {new} /\ Writes(Nobody, Rest)
          /\ serial' = serial + 1 /\ combos' = combos /\ links' = links
      BY <1>2, <2>1 DEF CreateNode, Edits, Writes
    <2>3. NextProviderNodeId \in Nat \ {0} /\ \A n \in nodes : n.id # NextProviderNodeId
      BY <1>1, LowestFreeIsFree DEF NextProviderNodeId, IdsOf, NodesShape
    <2>4. IsFiniteSet(nodes')
      BY <1>1, <2>2, FS_AddElement DEF NodesShape
    <2>5. NodesShape'
      <3>1. new \in [id : Nat \ {0}, life : Nat]
        BY <1>1, <2>1, <2>3
      <3>2. nodes' \subseteq [id : Nat \ {0}, life : Nat]
        BY <1>1, <2>2, <3>1 DEF NodesShape
      <3> QED BY <2>4, <3>2 DEF NodesShape
    <2>6. NodesApart'
      BY <1>1, <2>1, <2>2, <2>3 DEF NodesApart
    <2>7. LinksShape' /\ ServesItsNode'
      BY <1>1, <2>2 DEF LinksShape, ServesItsNode
    <2>8. CombosShape' /\ NamesApart' /\ \A c \in combos' : c \in combos \/ c.at = serial
      BY <2>2, CombosStay
    <2> QED BY <2>2, <2>5, <2>6, <2>7, <2>8, LastWriteKeeps DEF Later
  <1>3. ASSUME NEW n \in nodes, DeleteNode(n) PROVE RecordsInv'
    <2>1. /\ nodes' = nodes \ {n} /\ links' = {l \in links : l.provider # n.id}
          /\ Writes(Nobody, Rest) /\ serial' = serial + 1 /\ combos' = combos
      BY <1>3 DEF DeleteNode, Edits, Writes
    <2>2. IsFiniteSet(nodes')
      BY <1>1, <2>1, FS_Subset DEF NodesShape
    <2>3. NodesShape' /\ NodesApart' /\ LinksShape'
      BY <1>1, <2>1, <2>2 DEF NodesShape, NodesApart, LinksShape
    <2>4. ServesItsNode'
      <3>1. ASSUME NEW l \in links', l.life # 0
            PROVE  [id |-> l.provider, life |-> l.life] \in nodes'
        <4>1. l \in links /\ l.provider # n.id
          BY <2>1
        <4>2. PICK m : m = [id |-> l.provider, life |-> l.life]
          OBVIOUS
        <4>3. m \in nodes /\ m.id # n.id
          BY <1>1, <3>1, <4>1, <4>2 DEF ServesItsNode
        <4>4. m \in nodes'
          BY <2>1, <4>3
        <4> QED BY <4>2, <4>4
      <3> QED BY <3>1 DEF ServesItsNode
    <2>5. CombosShape' /\ NamesApart' /\ \A c \in combos' : c \in combos \/ c.at = serial
      BY <2>1, CombosStay
    <2>6. \A l \in links' : l \in links
      BY <2>1
    <2> QED BY <2>1, <2>3, <2>4, <2>5, <2>6, LastWriteKeeps DEF Later
  <1>4. ASSUME NEW e \in Editors, UpdateNode(e) PROVE RecordsInv'
    <2>1. /\ Writes(e, Rest) /\ serial' = serial + 1
          /\ combos' = combos /\ nodes' = nodes /\ links' = links
      BY <1>4 DEF UpdateNode, Writes
    <2>2. CombosShape' /\ NamesApart' /\ \A c \in combos' : c \in combos \/ c.at = serial
      BY <2>1, CombosStay
    <2>3. /\ NodesShape' /\ LinksShape' /\ NodesApart' /\ ServesItsNode'
          /\ \A l \in links' : l \in links \/ l.at = serial
      BY <2>1, LinksStay
    <2> QED BY <2>1, <2>2, <2>3, LastWriteKeeps DEF Later
  <1>5. ASSUME NEW e \in Editors, NEW id \in IdsOf(nodes), FindNode(e, id) PROVE RecordsInv'
    BY <1>5, LooksKeep
  <1> QED BY <1>2, <1>3, <1>4, <1>5 DEF NodeEdits

\* Past the end of the file nothing is missing.
LEMMA PastTheEnd ==
    ASSUME NEW known
    PROVE  Missing(known, Len(Legacy) + 1) = {} /\ Cardinality(Missing(known, Len(Legacy) + 1)) = 0
  <1>1. Missing(known, Len(Legacy) + 1) = {}
    BY LegacyCounted DEF Missing
  <1> QED BY <1>1, FS_EmptySet

\* An import that has begun to read keeps the invariant.
LEMMA ReadLinksKeeps ==
    ASSUME RecordsInv, NEW e \in Editors, NEW dry \in BOOLEAN, ReadLinks(e, dry)
    PROVE  RecordsInv'
  <1>1. PICK r : r = Rest
    OBVIOUS
  <1>2. /\ DOMAIN r = TaskFields /\ r.checked = 0 /\ r.row = 0 /\ r.added = 0
    BY <1>1 DEF Rest, TaskFields
  <1>3. serial \in Nat /\ OwedInv /\ DOMAIN tasks = Editors
    BY DEF RecordsInv, RecordShape
  <1>4. PICK known : known = LinkKeys
    OBVIOUS
  <1>5. PICK u : u = [r EXCEPT !.step = "pools", !.dry = dry, !.began = serial, !.owed = owed,
                      !.clean = TRUE, !.known = known]
    OBVIOUS
  <1>6. Goes(e, u) /\ UNCHANGED <<combos, nodes, links, proxies, serial, owed>>
    BY <1>1, <1>4, <1>5 DEF ReadLinks, Opens, LinkKeys
  <1>7. tasks'[e] = u
    BY <1>3, <1>6 DEF Goes
  <1>8. /\ DOMAIN u = TaskFields /\ u.step = "pools" /\ u.dry = dry /\ u.began = serial
        /\ u.owed = owed /\ u.clean = TRUE /\ u.clean \in BOOLEAN /\ u.dry \in BOOLEAN /\ u.known = known
        /\ u.checked = 0 /\ u.row = 0 /\ u.added = 0
    BY <1>2, <1>5 DEF TaskFields
  <1>9. LinkKeys' = LinkKeys /\ ProxyKeys' = ProxyKeys /\ CurrentKeys' = CurrentKeys
    BY <1>6, KeysStay
  <1>10. OwedInv'
    BY <1>3, <1>6, <1>9 DEF OwedInv
  <1>11. TaskShape(e)'
    BY <1>3, <1>6, <1>7, <1>8, LegacyCounted DEF TaskShape
  <1>12. LookedUp(e)'
    BY <1>4, <1>6, <1>7, <1>8 DEF LookedUp, LinkKeys
  <1>13. Undisturbed(e)'
    BY <1>3, <1>4, <1>7, <1>8, <1>9 DEF Undisturbed, OwedInv
  <1> QED BY <1>6, <1>10, <1>11, <1>12, <1>13, LookKeeps DEF TaskInv

\* An import that has read the pools keeps the invariant.
LEMMA ReadPoolsKeeps ==
    ASSUME RecordsInv, NEW e \in Editors, ReadPools(e)
    PROVE  RecordsInv'
  <1>1. PICK t : t = tasks[e]
    OBVIOUS
  <1>2. TaskShape(e) /\ LookedUp(e) /\ Undisturbed(e) /\ OwedInv /\ DOMAIN tasks = Editors
    BY DEF RecordsInv, RecordShape, TaskInv
  <1>3. PICK known : known = t.known \cup ProxyKeys
    OBVIOUS
  <1>4. PICK u : u = [t EXCEPT !.step = "combos", !.known = known]
    OBVIOUS
  <1>5. TaskFields \subseteq DOMAIN t
    BY <1>1, <1>2 DEF TaskShape
  <1>6. u = [t EXCEPT !.step = "combos", !.known = @ \cup {Key("proxy", p.name) : p \in proxies}]
    BY <1>3, <1>4, <1>5 DEF ProxyKeys, TaskFields
  <1>7. /\ Goes(e, u) /\ t.step = "pools"
        /\ UNCHANGED <<combos, nodes, links, proxies, serial, owed>>
    BY <1>1, <1>6 DEF ReadPools
  <1>8. tasks'[e] = u
    BY <1>2, <1>7 DEF Goes
  <1>9. /\ TaskFields \subseteq DOMAIN u /\ u.step = "combos" /\ u.dry = t.dry /\ u.began = t.began
        /\ u.owed = t.owed /\ u.clean = t.clean /\ u.known = known
        /\ u.checked = t.checked /\ u.row = t.row /\ u.added = t.added
    BY <1>4, <1>5 DEF TaskFields
  <1>10. LinkKeys' = LinkKeys /\ ProxyKeys' = ProxyKeys /\ CurrentKeys' = CurrentKeys
    BY <1>7, KeysStay
  <1>11. OwedInv'
    BY <1>2, <1>7, <1>10 DEF OwedInv
  <1>12. TaskShape(e)'
    BY <1>1, <1>2, <1>7, <1>8, <1>9 DEF TaskShape
  <1>13. LookedUp(e)'
    BY <1>1, <1>2, <1>3, <1>7, <1>8, <1>9 DEF LookedUp
  <1>14. Undisturbed(e)'
    BY <1>1, <1>2, <1>3, <1>7, <1>8, <1>9, <1>10 DEF Undisturbed
  <1> QED BY <1>7, <1>11, <1>12, <1>13, <1>14, LookKeeps DEF TaskInv

\* An import that has read the combos knows the first row it writes.
LEMMA ReadCombosKeeps ==
    ASSUME RecordsInv, NEW e \in Editors, ReadCombos(e)
    PROVE  RecordsInv'
  <1>1. PICK t : t = tasks[e]
    OBVIOUS
  <1>2. TaskShape(e) /\ LookedUp(e) /\ Undisturbed(e) /\ OwedInv /\ DOMAIN tasks = Editors /\ serial \in Nat
    BY DEF RecordsInv, RecordShape, TaskInv
  <1>3. PICK known : known = t.known \cup ComboKeys
    OBVIOUS
  <1>4. PICK s : s = [t EXCEPT !.known = known]
    OBVIOUS
  <1>5. TaskFields \subseteq DOMAIN t
    BY <1>1, <1>2 DEF TaskShape
  <1>6. s = [t EXCEPT !.known = @ \cup {Key("combo", c.name) : c \in combos}]
    BY <1>3, <1>4, <1>5 DEF ComboKeys, TaskFields
  <1>7. /\ TaskFields \subseteq DOMAIN s /\ s.step = t.step /\ s.known = known /\ s.dry = t.dry
        /\ s.began = t.began /\ s.added = t.added /\ s.clean = t.clean /\ s.owed = t.owed
    BY <1>4, <1>5 DEF TaskFields
  <1>8. PICK row, added : /\ row = IF s.dry THEN Len(Legacy) + 1 ELSE NextRow(s, 1)
                          /\ added = IF s.dry THEN Cardinality(ToWrite(s, 1)) ELSE 0
    OBVIOUS
  <1>9. PICK u : u = [s EXCEPT !.step = "rows", !.checked = serial, !.row = row, !.added = added]
    OBVIOUS
  <1>10. /\ Goes(e, u) /\ t.step = "combos"
         /\ UNCHANGED <<combos, nodes, links, proxies, serial, owed>>
    BY <1>1, <1>6, <1>7, <1>8, <1>9 DEF ReadCombos
  <1>11. tasks'[e] = u
    BY <1>2, <1>10 DEF Goes
  <1>12. /\ TaskFields \subseteq DOMAIN u /\ u.step = "rows" /\ u.dry = t.dry /\ u.began = t.began
         /\ u.owed = t.owed /\ u.clean = t.clean /\ u.known = known
         /\ u.checked = serial /\ u.row = row /\ u.added = added
    BY <1>7, <1>9 DEF TaskFields
  <1>13. ToWrite(s, 1) = Missing(known, 1)
    BY <1>7 DEF ToWrite, Skipped, Missing
  <1>14. Cardinality(Missing(known, 1)) \in Nat
    BY MissingCounted
  <1>15. t.dry \in BOOLEAN /\ t.clean \in BOOLEAN
    BY <1>1, <1>2 DEF TaskShape
  <1>16. /\ row \in 1..(Len(Legacy) + 1) /\ added \in Nat
         /\ row <= Len(Legacy) => row \in Missing(known, row)
         /\ added + Cardinality(Missing(known, row)) = Cardinality(Missing(known, 1))
         /\ t.dry => row = Len(Legacy) + 1 /\ added = Cardinality(Missing(known, 1))
         /\ ~t.dry => \A i \in 1..(row - 1) : i \notin Missing(known, i)
    <2>1. CASE t.dry
      <3>1. row = Len(Legacy) + 1 /\ added = Cardinality(Missing(known, 1))
        BY <1>7, <1>8, <1>13, <2>1
      <3>2. Cardinality(Missing(known, row)) = 0
        BY <3>1, PastTheEnd
      <3> QED BY <1>14, <2>1, <3>1, <3>2, LegacyCounted
    <2>2. CASE ~t.dry
      <3>1. row = NextRow(s, 1) /\ added = 0
        BY <1>7, <1>8, <2>2
      <3>2. 1 \in 1..(Len(Legacy) + 1)
        BY LegacyCounted
      <3>3. /\ row \in 1..(Len(Legacy) + 1)
            /\ row <= Len(Legacy) => row \in Missing(known, row)
            /\ Missing(known, row) = Missing(known, 1)
            /\ \A i \in 1..(row - 1) : i \notin Missing(known, i)
        BY <1>7, <3>1, <3>2, NextRowIs
      <3> QED BY <1>14, <2>2, <3>1, <3>3
    <2> QED BY <1>15, <2>1, <2>2
  <1>17. LinkKeys' = LinkKeys /\ ProxyKeys' = ProxyKeys /\ CurrentKeys' = CurrentKeys
    BY <1>10, KeysStay
  <1>18. OwedInv'
    BY <1>2, <1>10, <1>17 DEF OwedInv
  <1>19. TaskShape(e)'
    BY <1>1, <1>2, <1>10, <1>11, <1>12, <1>16, LegacyCounted DEF TaskShape
  <1>20. LookedUp(e)'
    <2>1. \A c \in combos : Key("combo", c.name) \in known
      BY <1>3 DEF ComboKeys
    <2>2. \A l \in links : l.provider = Builtin => Key("link", l.name) \in known \/ t.began <= l.at
      BY <1>1, <1>2, <1>3, <1>10 DEF LookedUp
    <2> QED BY <1>10, <1>11, <1>12, <1>16, <2>1, <2>2 DEF LookedUp
  <1>21. Undisturbed(e)'
    <2>1. ASSUME t.clean PROVE known = CurrentKeys
      BY <1>1, <1>2, <1>3, <1>10, <2>1 DEF Undisturbed, CurrentKeys
    <2>2. ASSUME t.clean, t.owed # Unknown PROVE Cardinality(Missing(CurrentKeys, 1)) = t.owed
      BY <1>1, <1>2, <1>10, <2>2 DEF Undisturbed
    <2> QED BY <1>11, <1>12, <1>16, <1>17, <2>1, <2>2 DEF Undisturbed
  <1> QED BY <1>10, <1>18, <1>19, <1>20, <1>21, LookKeeps DEF TaskInv

\* An import that has reported owes no more than it said.
LEMMA EndImportKeeps ==
    ASSUME RecordsInv, NEW e \in Editors, EndImport(e)
    PROVE  RecordsInv'
  <1>1. PICK t : t = tasks[e]
    OBVIOUS
  <1>2. PICK r : r = Rest
    OBVIOUS
  <1>3. /\ DOMAIN r = TaskFields /\ r.checked = 0 /\ r.began = 0 /\ r.row = 0 /\ r.dry \in BOOLEAN
    BY <1>2 DEF Rest, TaskFields
  <1>4. TaskShape(e) /\ LookedUp(e) /\ Undisturbed(e) /\ OwedInv /\ DOMAIN tasks = Editors /\ serial \in Nat
    BY DEF RecordsInv, RecordShape, TaskInv
  <1>5. PICK u : u = [r EXCEPT !.step = "imported", !.clean = t.clean, !.added = t.added, !.owed = t.owed]
    OBVIOUS
  <1>6. /\ t.step = "rows" /\ t.row > Len(Legacy) /\ Goes(e, u)
        /\ owed' = IF t.clean THEN (IF t.dry THEN t.added ELSE 0) ELSE owed
        /\ UNCHANGED <<combos, nodes, links, proxies, serial>>
    BY <1>1, <1>2, <1>5 DEF EndImport
  <1>7. tasks'[e] = u
    BY <1>4, <1>6 DEF Goes
  <1>8. /\ DOMAIN u = TaskFields /\ u.step = "imported" /\ u.clean = t.clean /\ u.added = t.added
        /\ u.owed = t.owed /\ u.checked = 0 /\ u.began = 0 /\ u.row = 0 /\ u.dry \in BOOLEAN
    BY <1>3, <1>5 DEF TaskFields
  <1>9. t.row = Len(Legacy) + 1 /\ t.clean \in BOOLEAN /\ t.dry \in BOOLEAN /\ t.added \in Nat
    BY <1>1, <1>4, <1>6, LegacyCounted DEF TaskShape
  <1>10. CurrentKeys' = CurrentKeys
    BY <1>6, KeysStay
  <1>11. OwedInv'
    <2>1. ASSUME t.clean, t.dry PROVE t.added = Cardinality(Missing(CurrentKeys, 1))
      BY <1>1, <1>4, <1>6, <2>1 DEF Undisturbed
    <2>2. ASSUME t.clean, ~t.dry PROVE Cardinality(Missing(CurrentKeys, 1)) = 0
      <3>1. \A i \in 1..Len(Legacy) : i \notin Missing(CurrentKeys, i)
        BY <1>1, <1>4, <1>6, <1>9, <2>2, LegacyCounted DEF Undisturbed
      <3>2. Missing(CurrentKeys, 1) = {}
        BY <3>1, LegacyCounted DEF Missing
      <3> QED BY <3>2, FS_EmptySet
    <2> QED BY <1>4, <1>6, <1>9, <1>10, <2>1, <2>2 DEF OwedInv
  <1>12. TaskShape(e)'
    BY <1>4, <1>6, <1>7, <1>8, <1>9, LegacyCounted DEF TaskShape
  <1>13. LookedUp(e)'
    BY <1>7, <1>8 DEF LookedUp
  <1>14. Undisturbed(e)'
    <2>1. ASSUME t.clean, t.owed # Unknown PROVE t.added = t.owed
      <3>1. t.added + Cardinality(Missing(t.known, t.row)) = t.owed
        BY <1>1, <1>4, <1>6, <2>1 DEF Undisturbed
      <3>2. Cardinality(Missing(t.known, t.row)) = 0
        BY <1>9, PastTheEnd
      <3> QED BY <1>9, <3>1, <3>2
    <2> QED BY <1>7, <1>8, <2>1 DEF Undisturbed
  <1> QED BY <1>6, <1>11, <1>12, <1>13, <1>14, LookKeeps DEF TaskInv

\* What a row writes is the record of its key, next to those there are.
LEMMA RowIsWritten ==
    ASSUME RecordsInv, NEW e \in Editors, WriteRow(e)
    PROVE  LET row == Legacy[tasks[e].row] IN
           /\ CurrentKeys' = CurrentKeys \cup {Key(row.kind, row.name)}
           /\ CombosShape' /\ NodesShape' /\ LinksShape' /\ NamesApart' /\ NodesApart' /\ ServesItsNode'
           /\ \A c \in combos' : c \in combos \/ c.at = serial
           /\ \A l \in links' : l \in links \/ l.at = serial
           /\ combos \subseteq combos' /\ proxies \subseteq proxies' /\ nodes' = nodes
           /\ \A l \in links : l.at < tasks[e].began => l \in links'
  <1>1. PICK t : t = tasks[e]
    OBVIOUS
  <1>2. TaskShape(e) /\ LookedUp(e) /\ serial \in Nat
    BY DEF RecordsInv, RecordShape, TaskInv
  <1>3. t.row \in 1..Len(Legacy)
    BY <1>1, <1>2, LegacyCounted DEF WriteRow, TaskShape
  <1>4. PICK row : row = Legacy[t.row]
    OBVIOUS
  <1>5. row \in LegacyRows
    BY <1>3, <1>4, RecordsAssumption
  <1>6. row.kind \in Kinds
    BY <1>5 DEF LegacyRows, Row
  <1>7. PICK new : new = [t EXCEPT !.name = row.name]
    OBVIOUS
  <1>8. /\ links' = IF row.kind = "link" THEN Stored(Builtin, row.name, row.auth) ELSE links
        /\ proxies' = IF row.kind = "proxy" THEN proxies \cup {NewProxy(row.name)} ELSE proxies
        /\ combos' = IF row.kind = "combo" THEN combos \cup {Combo(NextComboId, new)} ELSE combos
        /\ nodes' = nodes /\ serial' = serial + 1 /\ t.step = "rows"
    BY <1>1, <1>4, <1>7 DEF WriteRow, Writes
  <1>9. Key(row.kind, row.name) \notin t.known
    BY <1>1, <1>2, <1>3, <1>4, <1>8, LegacyCounted DEF LookedUp, Missing
  <1>10. CASE row.kind = "link"
    <2>1. links' = Stored(Builtin, row.name, row.auth) /\ proxies' = proxies /\ combos' = combos
      BY <1>8, <1>10
    <2>2. /\ CombosShape' /\ NamesApart' /\ \A c \in combos' : c \in combos \/ c.at = serial
      BY <1>8, <2>1, CombosStay
    <2>3. /\ NodesShape' /\ LinksShape' /\ NodesApart' /\ ServesItsNode'
          /\ \A l \in links' : l \in links \/ l.at = serial
      BY <1>8, <2>1, StoredKeeps
    <2>4. PICK link, gone :
             /\ link.provider = Builtin /\ link.name = row.name
             /\ links' = (links \ gone) \cup {link}
             /\ \A l \in gone : l.provider = Builtin /\ l.name = row.name
      BY <2>1, StoredIs
    <2>5. LinkKeys' = LinkKeys \cup {Key("link", row.name)}
      BY <2>4 DEF LinkKeys
    <2>6. CurrentKeys' = CurrentKeys \cup {Key(row.kind, row.name)}
      BY <1>10, <2>1, <2>5 DEF CurrentKeys, ProxyKeys, ComboKeys
    <2>7. ASSUME NEW l \in links, l.at < t.began PROVE l \in links'
      <3>1. l.at \in Nat /\ t.began \in Nat
        BY <1>1, <1>2 DEF RecordsInv, RecordShape, LinksShape, TaskShape
      <3>2. l.provider = Builtin => Key("link", l.name) \in t.known \/ t.began <= l.at
        BY <1>1, <1>2, <1>8 DEF LookedUp
      <3>3. l \notin gone
        BY <1>9, <1>10, <2>4, <2>7, <3>1, <3>2
      <3> QED BY <2>4, <3>3
    <2> QED BY <1>1, <1>4, <1>8, <2>1, <2>2, <2>3, <2>6, <2>7
  <1>11. CASE row.kind = "proxy"
    <2>1. proxies' = proxies \cup {NewProxy(row.name)} /\ links' = links /\ combos' = combos
      BY <1>8, <1>11
    <2>2. /\ CombosShape' /\ NamesApart' /\ \A c \in combos' : c \in combos \/ c.at = serial
      BY <1>8, <2>1, CombosStay
    <2>3. /\ NodesShape' /\ LinksShape' /\ NodesApart' /\ ServesItsNode'
          /\ \A l \in links' : l \in links \/ l.at = serial
      BY <1>8, <2>1, LinksStay
    <2>4. NewProxy(row.name).name = row.name
      BY DEF NewProxy
    <2>5. ProxyKeys' = ProxyKeys \cup {Key("proxy", row.name)}
      BY <2>1, <2>4 DEF ProxyKeys
    <2>6. CurrentKeys' = CurrentKeys \cup {Key(row.kind, row.name)}
      BY <1>11, <2>1, <2>5 DEF CurrentKeys, LinkKeys, ComboKeys
    <2> QED BY <1>1, <1>4, <1>8, <2>1, <2>2, <2>3, <2>6
  <1>12. CASE row.kind = "combo"
    <2>1. combos' = combos \cup {Combo(NextComboId, new)} /\ links' = links /\ proxies' = proxies
      BY <1>8, <1>12
    <2>2. new.checked = t.checked /\ new.name = row.name /\ new.checked \in Nat
      BY <1>1, <1>2, <1>7 DEF TaskShape, TaskFields
    <2>3. \A c \in combos : c.name = new.name => new.checked <= c.at
      BY <1>1, <1>2, <1>8, <1>9, <1>12, <2>2 DEF LookedUp
    <2>4. CombosShape' /\ NamesApart' /\ \A c \in combos' : c \in combos \/ c.at = serial
      BY <1>8, <2>1, <2>2, <2>3, NewCombo
    <2>5. /\ NodesShape' /\ LinksShape' /\ NodesApart' /\ ServesItsNode'
          /\ \A l \in links' : l \in links \/ l.at = serial
      BY <1>8, <2>1, LinksStay
    <2>6. Combo(NextComboId, new).name = row.name
      BY <2>2 DEF Combo
    <2>7. ComboKeys' = ComboKeys \cup {Key("combo", row.name)}
      BY <2>1, <2>6 DEF ComboKeys
    <2>8. CurrentKeys' = CurrentKeys \cup {Key(row.kind, row.name)}
      BY <1>12, <2>1, <2>7 DEF CurrentKeys, LinkKeys, ProxyKeys
    <2> QED BY <1>1, <1>4, <1>8, <2>1, <2>4, <2>5, <2>8
  <1> QED BY <1>6, <1>10, <1>11, <1>12 DEF Kinds

\* An import that has written a row has one less to write.
LEMMA WriteRowKeeps ==
    ASSUME RecordsInv, NEW e \in Editors, WriteRow(e)
    PROVE  RecordsInv'
  <1>1. PICK t : t = tasks[e]
    OBVIOUS
  <1>2. PICK next : next = NextRow(t, t.row + 1)
    OBVIOUS
  <1>3. PICK u : u = [t EXCEPT !.row = next, !.added = @ + 1]
    OBVIOUS
  <1>4. TaskShape(e) /\ LookedUp(e) /\ Undisturbed(e) /\ serial \in Nat
    BY DEF RecordsInv, RecordShape, TaskInv
  <1>5. t.step = "rows" /\ t.row <= Len(Legacy) /\ Writes(e, u)
    BY <1>1, <1>2, <1>3 DEF WriteRow
  <1>6. TaskFields \subseteq DOMAIN t
    BY <1>1, <1>4 DEF TaskShape
  <1>7. /\ TaskFields \subseteq DOMAIN u /\ u.step = t.step /\ u.dry = t.dry /\ u.began = t.began
        /\ u.owed = t.owed /\ u.clean = t.clean /\ u.known = t.known
        /\ u.checked = t.checked /\ u.row = next /\ u.added = t.added + 1
    BY <1>3, <1>6 DEF TaskFields
  <1>8. tasks'[e] = u /\ serial' = serial + 1
    BY <1>5 DEF Writes
  <1>9. PICK key : key = Key(Legacy[t.row].kind, Legacy[t.row].name)
    OBVIOUS
  <1>10. /\ CurrentKeys' = CurrentKeys \cup {key}
         /\ CombosShape' /\ NodesShape' /\ LinksShape' /\ NamesApart' /\ NodesApart' /\ ServesItsNode'
         /\ \A c \in combos' : c \in combos \/ c.at = serial
         /\ \A l \in links' : l \in links \/ l.at = serial
    BY <1>1, <1>9, RowIsWritten
  <1>11. Later
    BY <1>8, <1>10 DEF Later
  <1>12. /\ t.row \in 1..Len(Legacy) /\ t.row + 1 \in 1..(Len(Legacy) + 1) /\ t.row + 1 \in Nat
         /\ t.added \in Nat /\ t.clean \in BOOLEAN /\ t.dry \in BOOLEAN
    BY <1>1, <1>4, <1>5, LegacyCounted DEF TaskShape
  <1>13. t.row \in Missing(t.known, t.row) /\ ~t.dry
    BY <1>1, <1>4, <1>5, <1>12, LegacyCounted DEF LookedUp
  <1>14. /\ next \in (t.row + 1)..(Len(Legacy) + 1)
         /\ next <= Len(Legacy) => next \in Missing(t.known, next)
         /\ Missing(t.known, next) = Missing(t.known, t.row + 1)
         /\ \A i \in (t.row + 1)..(next - 1) : i \notin Missing(t.known, i)
    BY <1>2, <1>12, NextRowIs
  <1>15. Cardinality(Missing(t.known, t.row)) = Cardinality(Missing(t.known, next)) + 1
    <2>1. Missing(t.known, t.row) = Missing(t.known, t.row + 1) \cup {t.row}
      BY <1>12, <1>13, LegacyCounted DEF Missing
    <2>2. t.row \notin Missing(t.known, t.row + 1)
      BY <1>12, LegacyCounted DEF Missing
    <2>3. IsFiniteSet(Missing(t.known, t.row + 1))
      BY <1>12, MissingCounted
    <2>4. PICK set, x : set = Missing(t.known, t.row + 1) /\ x = t.row
      OBVIOUS
    <2>5. Cardinality(set \cup {x}) = Cardinality(set) + 1
      BY <2>2, <2>3, <2>4, FS_AddElement
    <2> QED BY <1>14, <2>1, <2>4, <2>5
  <1>16. TaskShape(e)'
    <2>1. t.began \in Nat /\ t.began <= serial /\ t.checked \in Nat /\ t.checked <= serial
      BY <1>1, <1>4 DEF TaskShape
    <2>2. next \in 0..(Len(Legacy) + 1) /\ next > 0 /\ t.added + 1 \in Nat
      BY <1>12, <1>14, LegacyCounted
    <2>3. /\ tasks'[e].began \in Nat /\ tasks'[e].began <= serial'
          /\ tasks'[e].checked \in Nat /\ tasks'[e].checked <= serial'
      BY <1>4, <1>7, <1>8, <2>1
    <2>4. tasks'[e].clean \in BOOLEAN /\ tasks'[e].dry \in BOOLEAN
      BY <1>7, <1>8, <1>12
    <2> QED BY <1>5, <1>7, <1>8, <2>2, <2>3, <2>4 DEF TaskShape
  <1>17. LookedUp(e)'
    <2>1. t.checked <= serial /\ t.began <= serial
      BY <1>1, <1>4 DEF TaskShape
    <2>2. \A c \in combos' : Key("combo", c.name) \in t.known \/ t.checked <= c.at
      BY <1>1, <1>4, <1>5, <1>10, <2>1 DEF LookedUp
    <2>3. \A l \in links' : l.provider = Builtin => Key("link", l.name) \in t.known \/ t.began <= l.at
      BY <1>1, <1>4, <1>5, <1>10, <2>1 DEF LookedUp
    <2> QED BY <1>5, <1>7, <1>8, <1>13, <1>14, <2>2, <2>3 DEF LookedUp
  <1>18. Undisturbed(e)'
    <2>1. ASSUME t.clean
          PROVE  t.known \subseteq CurrentKeys' /\ \A i \in 1..(next - 1) : i \notin Missing(CurrentKeys', i)
      <3>1. t.known \subseteq CurrentKeys /\ \A i \in 1..(t.row - 1) : i \notin Missing(CurrentKeys, i)
        BY <1>1, <1>4, <1>5, <1>13, <2>1 DEF Undisturbed
      <3>2. PICK keys : keys = CurrentKeys'
        OBVIOUS
      <3>3. t.known \subseteq keys /\ CurrentKeys \subseteq keys /\ key \in keys
        BY <1>10, <3>1, <3>2
      <3>4. ASSUME NEW i \in 1..(next - 1) PROVE i \notin Missing(keys, i)
        <4>1. CASE i \in 1..(t.row - 1)
          BY <3>1, <3>3, <4>1 DEF Missing
        <4>2. CASE i = t.row
          BY <1>9, <3>3, <4>2 DEF Missing
        <4>3. CASE i \in (t.row + 1)..(next - 1)
          BY <1>14, <3>3, <4>3 DEF Missing
        <4>4. i \in 1..(t.row - 1) \/ i = t.row \/ i \in (t.row + 1)..(next - 1)
          BY <1>12, <1>14, LegacyCounted
        <4> QED BY <4>1, <4>2, <4>3, <4>4
      <3> QED BY <3>2, <3>3, <3>4
    <2>2. ASSUME t.clean, t.owed # Unknown
          PROVE  t.added + 1 + Cardinality(Missing(t.known, next)) = t.owed
      <3>1. t.added + Cardinality(Missing(t.known, t.row)) = t.owed
        BY <1>1, <1>4, <1>5, <2>2 DEF Undisturbed
      <3>2. next \in Nat /\ Cardinality(Missing(t.known, next)) \in Nat
        BY <1>12, <1>14, MissingCounted, LegacyCounted
      <3> QED BY <1>12, <1>15, <3>1, <3>2
    <2>3. /\ tasks'[e].step = "rows" /\ tasks'[e].known = t.known /\ tasks'[e].row = next
          /\ tasks'[e].added = t.added + 1 /\ tasks'[e].owed = t.owed
          /\ (tasks'[e].clean <=> t.clean) /\ (tasks'[e].dry <=> t.dry)
      BY <1>5, <1>7, <1>8
    <2> QED BY <1>13, <2>1, <2>2, <2>3 DEF Undisturbed
  <1> QED BY <1>5, <1>10, <1>11, <1>16, <1>17, <1>18, WriteKeeps DEF TaskInv

\* Every step keeps the invariant.
LEMMA RecordsStep == ASSUME RecordsInv, RecordsNext PROVE RecordsInv'
  <1>1. CASE ComboEdits
    BY <1>1, LooksKeep, CreateComboKeeps, UpdateComboKeeps, DeleteComboKeeps DEF ComboEdits
  <1>2. CASE LegacyImport
    BY <1>2, ReadLinksKeeps, ReadPoolsKeeps, ReadCombosKeeps, WriteRowKeeps, EndImportKeeps DEF LegacyImport
  <1> QED BY <1>1, <1>2, NodeEditsKeep, OtherEditsKeep DEF RecordsNext

\* A request's row is raised by what it writes itself.
LEMMA RowsAreWritten ==
    ASSUME RecordsInv, RecordsNext, NEW e \in Editors, tasks[e].row > 0, tasks'[e].row > tasks[e].row
    PROVE  WriteRow(e)
  <1>1. PICK t, u : t = tasks[e] /\ u = tasks'[e]
    OBVIOUS
  <1>2. TaskFields \subseteq DOMAIN t /\ t.row \in Nat /\ t.step = "rows" /\ DOMAIN tasks = Editors
    BY <1>1, LegacyCounted DEF RecordsInv, RecordShape, TaskInv, TaskShape
  <1>3. ASSUME NEW f, NEW task, Writes(f, task), f # e PROVE FALSE
    <2>1. u = [t EXCEPT !.clean = FALSE]
      BY <1>1, <1>3 DEF Writes
    <2>2. u.row = t.row
      BY <1>2, <2>1 DEF TaskFields
    <2> QED BY <1>1, <1>2, <2>2
  <1>4. ASSUME NEW f, NEW task, Goes(f, task), f # e PROVE FALSE
    BY <1>1, <1>2, <1>4 DEF Goes
  <1>5. e # Nobody
    BY RecordsAssumption
  <1>6. ~Free(e)
    BY <1>1, <1>2 DEF Free
  <1>7. ASSUME Edits PROVE FALSE
    BY <1>3, <1>5, <1>7 DEF Edits
  <1>8. ASSUME NEW f \in Editors, NEW task, Opens(f, task) PROVE FALSE
    BY <1>4, <1>6, <1>8 DEF Opens
  <1>9. ~ComboEdits
    <2>1. ASSUME NEW f \in Editors, CreateCombo(f) \/ UpdateCombo(f) PROVE FALSE
      BY <1>1, <1>2, <1>3, <2>1 DEF CreateCombo, UpdateCombo
    <2>2. ASSUME NEW f \in Editors, NotFound(f) PROVE FALSE
      BY <1>1, <1>2, <1>4, <2>2 DEF NotFound
    <2> QED BY <1>7, <1>8, <2>1, <2>2 DEF ComboEdits, CheckName, DeleteCombo
  <1>10. ~NodeEdits
    <2>1. ASSUME NEW f \in Editors, UpdateNode(f) PROVE FALSE
      BY <1>1, <1>2, <1>3, <2>1 DEF UpdateNode
    <2> QED BY <1>7, <1>8, <2>1 DEF NodeEdits, CreateNode, FindNode, DeleteNode
  <1>11. ~OtherEdits
    <2>1. ASSUME PutSettings PROVE FALSE
      BY <1>1, <1>2, <2>1 DEF PutSettings
    <2> QED BY <1>7, <2>1 DEF OtherEdits, CreateLink, DeleteLink, EditProxy, DeleteProxy
  <1>12. ASSUME LegacyImport PROVE WriteRow(e)
    <2>1. ASSUME NEW f \in Editors, NEW dry \in BOOLEAN, ReadLinks(f, dry) PROVE FALSE
      BY <1>8, <2>1 DEF ReadLinks
    <2>2. ASSUME NEW f \in Editors, ReadPools(f) PROVE FALSE
      BY <1>1, <1>2, <1>4, <2>2 DEF ReadPools
    <2>3. ASSUME NEW f \in Editors, ReadCombos(f) PROVE FALSE
      <3>1. PICK s, task : /\ s = [tasks[f] EXCEPT !.known = @ \cup {Key("combo", c.name) : c \in combos}]
                           /\ s.step = "combos" /\ Goes(f, task)
        BY <2>3 DEF ReadCombos
      <3>2. f = e
        BY <1>4, <3>1
      <3>3. s.step = t.step
        BY <1>1, <1>2, <3>1, <3>2 DEF TaskFields
      <3> QED BY <1>2, <3>1, <3>3
    <2>4. ASSUME NEW f \in Editors, EndImport(f) PROVE FALSE
      <3>1. PICK r, task : r = Rest /\ Goes(f, task)
              /\ task = [r EXCEPT !.step = "imported", !.clean = tasks[f].clean,
                                  !.added = tasks[f].added, !.owed = tasks[f].owed]
        BY <2>4 DEF EndImport
      <3>2. f = e
        BY <1>4, <3>1
      <3>3. u = task
        BY <1>1, <1>2, <3>1, <3>2 DEF Goes
      <3>4. r.row = 0 /\ DOMAIN r = TaskFields
        BY <3>1 DEF Rest, TaskFields
      <3>5. task.row = 0
        BY <3>1, <3>4 DEF TaskFields
      <3> QED BY <1>1, <1>2, <3>3, <3>5
    <2>5. ASSUME NEW f \in Editors, WriteRow(f) PROVE f = e
      BY <1>3, <2>5 DEF WriteRow
    <2> QED BY <1>12, <2>1, <2>2, <2>3, <2>4, <2>5 DEF LegacyImport
  <1> QED BY <1>9, <1>10, <1>11, <1>12 DEF RecordsNext

\* The invariant holds what the records promise.
LEMMA RecordsPromise ==
    ASSUME RecordsInv, RecordsInv', RecordsNext \/ UNCHANGED recordVars
    PROVE  [(NamesApart /\ NodesApart /\ ServesItsNode /\ ReportsWhatIsOwed)' /\ ImportIsAdditive]_recordVars
  <1>1. (NamesApart /\ NodesApart /\ ServesItsNode)'
    BY DEF RecordsInv
  <1>2. ReportsWhatIsOwed'
    <2>1. \A e \in Editors : Undisturbed(e)'
      BY DEF RecordsInv, TaskInv
    <2> QED BY <2>1 DEF Undisturbed, ReportsWhatIsOwed
  <1>3. ASSUME RecordsNext PROVE ImportIsAdditive
    <2>1. ASSUME NEW e \in Editors, tasks[e].row > 0, tasks'[e].row > tasks[e].row
          PROVE  /\ \A l \in links : l.at < tasks[e].began => l \in links'
                 /\ combos \subseteq combos' /\ proxies \subseteq proxies' /\ nodes = nodes'
      <3>1. WriteRow(e)
        BY <1>3, <2>1, RowsAreWritten
      <3> QED BY <3>1, RowIsWritten
    <2> QED BY <2>1 DEF ImportIsAdditive
  <1> QED BY <1>1, <1>2, <1>3
-----------------------------------------------------------------------------
(* The service: a step of it is one of each part, or leaves the part alone. *)

\* A part does not see the others.
LEMMA StateParts ==
    StateInit /\ [][StateNext]_serviceVars =>
        /\ AccountsInit /\ [][AccountsNext]_accountsVars
        /\ ImportInit /\ [][ImportNext]_importVars
        /\ RotationInit /\ [][RotationNext]_rotationVars
        /\ RecordsInit /\ [][RecordsNext]_recordVars
  <1>1. StateInit => AccountsInit /\ ImportInit /\ RotationInit /\ RecordsInit
    BY DEF StateInit
  <1>2. [StateNext]_serviceVars =>
            /\ [AccountsNext]_accountsVars /\ [ImportNext]_importVars
            /\ [RotationNext]_rotationVars /\ [RecordsNext]_recordVars
    BY DEF StateNext, AccountsTurn, ImportTurn, RotationTurn, RecordsTurn, serviceVars
  <1> QED BY <1>1, <1>2, PTL

\* Two users never have one name or one id.
THEOREM UsersAreDistinct == ASSUME ~SameMillis PROVE StateSpec => []UsersDistinct
  <1>1. UsersInv /\ [AccountsNext]_accountsVars => UsersInv'
    BY UsersStep
  <1>2. UsersInv => UsersDistinct
    BY DEF UsersInv
  <1> QED BY <1>1, <1>2, UsersInitially, StateParts, PTL DEF StateSpec

\* An install never loses its last active administrator.
THEOREM AdministratorRemains == ASSUME ~SameMillis PROVE StateSpec => AdminKept
  <1>1. UsersInv /\ [AccountsNext]_accountsVars => UsersInv'
    BY UsersStep
  <1>2. UsersInv /\ [AccountsNext]_accountsVars =>
          [(\E u \in users : ActiveAdmin(u)) => (\E u \in users' : ActiveAdmin(u))]_accountsVars
    BY AdminStep
  <1> QED BY <1>1, <1>2, UsersInitially, StateParts, PTL DEF StateSpec, AdminKept

\* However sign-ins overlap, an address's wrong passwords are bounded.
THEOREM GuessesAreBounded == StateSpec => []GuessesBounded
  <1>1. LockoutInv /\ [AccountsNext]_accountsVars => LockoutInv'
    BY LockoutStep
  <1>2. LockoutInv => GuessesBounded
    BY LockoutBounds
  <1> QED BY <1>1, <1>2, LockoutInitially, StateParts, PTL DEF StateSpec

\* Nobody is given a session that was not earned, however the users change while
\* a sign-in is under way.
THEOREM SessionsAreEarned == StateSpec => []SessionsEarned
  <1>1. SessionsInv /\ [AccountsNext]_accountsVars => SessionsInv'
    BY SessionsStep
  <1>2. SessionsInv => SessionsEarned
    BY DEF SessionsInv, SessionInv, SessionsEarned
  <1> QED BY <1>1, <1>2, SessionsInitially, StateParts, PTL DEF StateSpec

\* Whatever accounts are available from pick to pick, none is given more turns in a
\* row than the limit and none waits longer than a turn of each other one.
THEOREM TurnsStayFair == ASSUME 0 \notin Ticks PROVE StateSpec => []TurnsAreFair
  <1>1. RotationInv /\ [RotationNext]_rotationVars => RotationInv'
    BY RotationStep
  <1> QED BY <1>1, RotationInitially, RotationIsFair, StateParts, PTL DEF StateSpec

\* What an importer says is so, what it lost somebody was told of, and bindings hold.
THEOREM ImportsAreSafe == StateSpec => []ImportsHold
  <1>1. ImportInv /\ DanglingOnlyWhenOvertaken /\ [ImportNext]_importVars =>
            ImportInv' /\ DanglingOnlyWhenOvertaken'
    BY ImportStep, DanglingStep
  <1>2. ImportInv /\ DanglingOnlyWhenOvertaken => ImportsHold
    BY ImportsAreTrue DEF ImportsHold
  <1> QED BY <1>1, <1>2, ImportInitially, StateParts, PTL DEF StateSpec

\* Combos and nodes stay apart, connections go with their node, and the legacy
\* import leaves alone what it found and may be run again, however users edit the
\* records between its steps.
THEOREM RecordsAreKept == StateSpec => RecordsHold
  <1>1. RecordsInv /\ [RecordsNext]_recordVars => RecordsInv'
    BY RecordsStep, RecordsStay DEF recordVars
  <1>2. RecordsInv /\ RecordsInv' /\ [RecordsNext]_recordVars =>
            [(NamesApart /\ NodesApart /\ ServesItsNode /\ ReportsWhatIsOwed)' /\ ImportIsAdditive]_recordVars
    BY RecordsPromise
  <1>3. RecordsInit => RecordsInv
    BY RecordsInitially
  <1> QED BY <1>1, <1>2, <1>3, StateParts, PTL DEF StateSpec, RecordsHold
=============================================================================
