------------------------- MODULE ChatFallbackProofs -------------------------
(***************************************************************************)
(* The walk of a chat request over accounts and models, for any number of  *)
(* requests, accounts, models, targets and attempts: what a step of it may *)
(* never do, whatever the other requests, the reports, the clock and the   *)
(* dashboard do to the accounts between two of its steps.                  *)
(*                                                                         *)
(* All of it is read off an invariant of two parts.  WalkInv says what the *)
(* locals of a request tell at each of its awaits: which accounts it has   *)
(* called for its target, and that it has failed only if it has called     *)
(* one.  CoolingInv ties the failures reported to the locks of the pool.   *)
(***************************************************************************)
EXTENDS ChatFallback, Integers, TLAPS

Outcomes == Errors \cup {"none"}

\* Where a request can be, and with what in hand.
WalkShape ==
    /\ phase \in [Requests -> Phases]
    /\ target \in [Requests -> Nat \ {0}]
    /\ conn \in [Requests -> SUBSET Conns]
    /\ excluded \in [Requests -> SUBSET Conns]
    /\ attempts \in [Requests -> Nat]
    /\ failed \in [Requests -> BOOLEAN]
    /\ answer \in [Requests -> Errors \cup {"none", "ok", "cancelled"}]
    /\ called \in [Requests -> SUBSET Conns]
    /\ outcome \in [Requests -> Outcomes]

\* An account is called once it is in hand, and excluded once it has failed.
WalkInv(r) ==
    /\ target[r] <= Len(TargetsOf[r]) /\ attempts[r] < MaxAttempts
    /\ phase[r] \in {"idle", "select"} => conn[r] = {}
    /\ phase[r] \in {"refresh", "call", "report", "clear"} =>
          \E c \in Conns \ excluded[r] : conn[r] = {c}
    /\ called[r] = IF phase[r] \in {"report", "clear"} THEN excluded[r] \cup conn[r]
                                                       ELSE excluded[r]
    /\ failed[r] <=> excluded[r] # {}
    /\ phase[r] = "idle" => target[r] = 1 /\ attempts[r] = 0

PoolShape ==
    /\ exists \subseteq Conns /\ active \subseteq Conns
    /\ locks \in [Conns -> [Keys -> {"none", "live", "expired"}]]

\* A failure that was reported holds its lock.
CoolingInv ==
    /\ cooling \subseteq Conns \X Models
    /\ \A c \in Conns, m \in Models : <<c, m>> \in cooling => locks[c][m] = "live"

FallbackInv == WalkShape /\ PoolShape /\ CoolingInv /\ \A r \in Requests : WalkInv(r)

\* At the start nobody walks and no account is locked.
LEMMA FallbackInitially == Init => FallbackInv
  <1> SUFFICES ASSUME Init PROVE FallbackInv
    OBVIOUS
  <1>1. WalkShape /\ PoolShape /\ CoolingInv
    BY DEF Init, PoolInit, WalkShape, PoolShape, CoolingInv, Phases, Outcomes
  <1>2. ASSUME NEW r \in Requests PROVE WalkInv(r)
    BY WalkAssumption DEF WalkAssumption, Init, WalkInv
  <1> QED BY <1>1, <1>2 DEF FallbackInv

-----------------------------------------------------------------------------
(* One request takes a step, the others stand where they were. *)

Still(q) ==
    /\ phase'[q] = phase[q] /\ target'[q] = target[q] /\ conn'[q] = conn[q]
    /\ excluded'[q] = excluded[q] /\ attempts'[q] = attempts[q]
    /\ failed'[q] = failed[q] /\ called'[q] = called[q]

Alone(r) == \A q \in Requests \ {r} : Still(q)

Walked(r) == WalkShape' /\ WalkInv(r)' /\ Alone(r)

\* What the step needs to know of the request and of its target.
LEMMA WalkOf ==
    ASSUME FallbackInv, NEW r \in Requests
    PROVE  /\ WalkShape /\ WalkInv(r)
           /\ target[r] \in Nat \ {0} /\ Len(TargetsOf[r]) \in Nat \ {0}
           /\ target[r] <= Len(TargetsOf[r]) /\ Model(r) \in Models
           /\ attempts[r] \in Nat /\ MaxAttempts \in Nat \ {0}
  <1>1. WalkShape /\ WalkInv(r)
    BY DEF FallbackInv
  <1>2. target[r] \in Nat \ {0} /\ attempts[r] \in Nat /\ target[r] <= Len(TargetsOf[r])
    BY <1>1 DEF WalkShape, WalkInv
  <1>3. Len(TargetsOf[r]) \in Nat \ {0} /\ MaxAttempts \in Nat \ {0}
    BY WalkAssumption DEF WalkAssumption
  <1>4. target[r] \in 1..Len(TargetsOf[r])
    BY <1>2, <1>3
  <1>5. Model(r) \in Models
    BY <1>4, WalkAssumption DEF WalkAssumption, Model
  <1> QED BY <1>1, <1>2, <1>3, <1>5

\* The invariant, once the walk and the pool have been looked at.
LEMMA OneWalks ==
    ASSUME FallbackInv, NEW r \in Requests, Walked(r), PoolShape', CoolingInv'
    PROVE  FallbackInv'
  <1>1. ASSUME NEW q \in Requests, q # r PROVE WalkInv(q)'
    <2>1. Still(q) /\ WalkInv(q)
      BY <1>1 DEF FallbackInv, Walked, Alone
    <2> QED BY <2>1 DEF Still, WalkInv
  <1> QED BY <1>1 DEF FallbackInv, Walked

\* A fresh account loop for target i.
LEMMA TargetStarts ==
    ASSUME FallbackInv, NEW r \in Requests, NEW at \in {"idle", "select"}, NEW i \in Nat \ {0},
           i <= Len(TargetsOf[r]), at = "idle" => i = 1, NEW last \in Outcomes,
           Goto(r, at), StartTarget(r, i, last),
           answer' \in [Requests -> Errors \cup {"none", "ok", "cancelled"}]
    PROVE  Walked(r) /\ phase'[r] = at /\ target'[r] = i /\ outcome'[r] = last
  <1>1. WalkShape /\ MaxAttempts \in Nat \ {0}
    BY WalkOf
  <1>2. WalkShape'
    BY <1>1 DEF Goto, StartTarget, WalkShape, Phases
  <1>3. Alone(r)
    BY <1>1 DEF Goto, StartTarget, WalkShape, Alone, Still
  <1>4. /\ phase'[r] = at /\ target'[r] = i /\ conn'[r] = {} /\ excluded'[r] = {}
        /\ attempts'[r] = 0 /\ failed'[r] = FALSE /\ called'[r] = {} /\ outcome'[r] = last
    BY <1>1 DEF Goto, StartTarget, WalkShape
  <1>5. WalkInv(r)'
    BY <1>1, <1>4 DEF WalkInv
  <1> QED BY <1>2, <1>3, <1>4, <1>5 DEF Walked

\* The handler returns.
LEMMA Responds ==
    ASSUME FallbackInv, NEW r \in Requests,
           NEW what \in Errors \cup {"none", "ok", "cancelled"}, Respond(r, what)
    PROVE  Walked(r) /\ phase'[r] = "idle" /\ target'[r] = 1 /\ outcome'[r] = "none"
           /\ answer'[r] = what
  <1>1. WalkShape /\ Len(TargetsOf[r]) \in Nat \ {0}
    BY WalkOf
  <1>2. /\ answer' \in [Requests -> Errors \cup {"none", "ok", "cancelled"}]
        /\ answer'[r] = what
    BY <1>1 DEF Respond, WalkShape
  <1>3. Goto(r, "idle") /\ StartTarget(r, 1, "none") /\ "none" \in Outcomes
    BY DEF Respond, Outcomes
  <1> QED BY <1>1, <1>2, <1>3, TargetStarts

\* A target is given up, for the next one or for good.
LEMMA TargetGivenUp ==
    ASSUME FallbackInv, NEW r \in Requests, NEW why \in Errors, TargetFails(r, why)
    PROVE  /\ Walked(r)
           /\ target[r] < Len(TargetsOf[r]) =>
                 /\ phase'[r] = "select" /\ target'[r] = target[r] + 1
                 /\ attempts'[r] = 0 /\ outcome'[r] = why
           /\ ~(target[r] < Len(TargetsOf[r])) =>
                 phase'[r] = "idle" /\ answer'[r] = why /\ outcome'[r] = "none"
  <1>1. /\ WalkShape /\ target[r] \in Nat \ {0} /\ Len(TargetsOf[r]) \in Nat \ {0}
        /\ why \in Outcomes
    BY WalkOf DEF Outcomes
  <1>2. CASE target[r] < Len(TargetsOf[r])
    <2>1. Goto(r, "select") /\ StartTarget(r, target[r] + 1, why) /\ answer' = answer
      BY <1>2 DEF TargetFails
    <2>2. target[r] + 1 \in Nat \ {0} /\ target[r] + 1 <= Len(TargetsOf[r])
      BY <1>1, <1>2
    <2>3. answer' \in [Requests -> Errors \cup {"none", "ok", "cancelled"}]
      BY <1>1, <2>1 DEF WalkShape
    <2>4. Walked(r) /\ phase'[r] = "select" /\ target'[r] = target[r] + 1 /\ outcome'[r] = why
      BY <1>1, <2>1, <2>2, <2>3, TargetStarts
    <2>5. attempts'[r] = 0
      BY <1>1, <2>1 DEF StartTarget, WalkShape
    <2> QED BY <1>2, <2>4, <2>5
  <1>3. CASE ~(target[r] < Len(TargetsOf[r]))
    BY <1>3, Responds DEF TargetFails
  <1> QED BY <1>2, <1>3

-----------------------------------------------------------------------------
(* What a step of the walk does to its own request. *)

\* A request begins.
LEMMA ArriveWalks ==
    ASSUME FallbackInv, NEW r \in Requests, Arrive(r)
    PROVE  Walked(r)
  <1>1. WalkShape /\ WalkInv(r)
    BY WalkOf
  <1>2. WalkShape' /\ Alone(r)
    BY <1>1 DEF Arrive, Goto, locals, WalkShape, Alone, Still, Phases
  <1>3. WalkInv(r)'
    BY <1>1 DEF Arrive, Goto, locals, WalkInv, WalkShape
  <1> QED BY <1>2, <1>3 DEF Walked

\* An account is taken that this target has not called.
LEMMA SelectWalks ==
    ASSUME FallbackInv, NEW r \in Requests, Select(r)
    PROVE  Walked(r)
  <1>1. WalkShape /\ WalkInv(r) /\ PoolShape
    BY WalkOf DEF FallbackInv
  <1>2. PICK c \in Available(Provider(r), Model(r), excluded[r]) :
            conn' = [conn EXCEPT ![r] = {c}]
    BY DEF Select
  <1>3. c \in Conns \ excluded[r]
    BY <1>1, <1>2 DEF Available, Matching, PoolShape
  <1>4. WalkShape' /\ Alone(r)
    BY <1>1, <1>2, <1>3 DEF Select, Goto, WalkShape, Alone, Still, Phases
  <1>5. /\ phase'[r] = "refresh" /\ conn'[r] = {c} /\ phase[r] = "select"
        /\ UNCHANGED <<target, excluded, attempts, failed, called>>
    BY <1>1, <1>2 DEF Select, Goto, WalkShape
  <1>6. WalkInv(r)'
    BY <1>1, <1>3, <1>5 DEF WalkInv
  <1> QED BY <1>4, <1>6 DEF Walked

\* No account is left, or state does not say.
LEMMA SelectEndsWalks ==
    ASSUME FallbackInv, NEW r \in Requests, SelectNone(r) \/ SelectUnavailable(r)
    PROVE  Walked(r)
  <1>1. PICK why \in Errors : TargetFails(r, why)
    BY DEF SelectNone, SelectUnavailable, Refusal, Errors
  <1> QED BY <1>1, TargetGivenUp

\* The account in hand is called, with whatever token there is.
LEMMA RefreshWalks ==
    ASSUME FallbackInv, NEW r \in Requests, GoCall(r)
    PROVE  Walked(r)
  <1>1. WalkShape /\ WalkInv(r)
    BY WalkOf
  <1>2. WalkShape' /\ Alone(r)
    BY <1>1 DEF GoCall, Goto, locals, WalkShape, Alone, Still, Phases
  <1>3. WalkInv(r)'
    BY <1>1 DEF GoCall, Goto, locals, WalkInv, WalkShape
  <1> QED BY <1>2, <1>3 DEF Walked

\* The provider has answered.
LEMMA CallWalks ==
    ASSUME FallbackInv, NEW r \in Requests, NEW next \in {"clear", "report"}, Call(r, next)
    PROVE  Walked(r)
  <1>1. WalkShape /\ WalkInv(r)
    BY WalkOf
  <1>2. WalkShape' /\ Alone(r)
    BY <1>1 DEF Call, WalkShape, Goto, Alone, Still, Phases
  <1>3. /\ phase'[r] = next /\ phase[r] = "call" /\ called'[r] = called[r] \cup conn[r]
        /\ UNCHANGED <<target, conn, excluded, attempts, failed>>
    BY <1>1 DEF Call, Goto, WalkShape
  <1>4. WalkInv(r)'
    BY <1>1, <1>3 DEF WalkInv
  <1> QED BY <1>2, <1>4 DEF Walked

\* What follows a failure that is to be reported.
LEMMA NextAttemptWalks ==
    ASSUME FallbackInv, NEW r \in Requests, NextAttempt(r)
    PROVE  /\ Walked(r)
           /\ attempts[r] + 1 < MaxAttempts =>
                 /\ phase'[r] = "select" /\ target'[r] = target[r]
                 /\ attempts'[r] = attempts[r] + 1
           /\ ~(attempts[r] + 1 < MaxAttempts) => TargetFails(r, "upstream")
  <1>1. WalkShape /\ WalkInv(r) /\ attempts[r] \in Nat /\ MaxAttempts \in Nat
    BY WalkOf
  <1>2. CASE attempts[r] + 1 < MaxAttempts
    <2>0. /\ phase' = [phase EXCEPT ![r] = "select"] /\ conn' = [conn EXCEPT ![r] = {}]
          /\ excluded' = [excluded EXCEPT ![r] = excluded[r] \cup conn[r]]
          /\ attempts' = [attempts EXCEPT ![r] = attempts[r] + 1]
          /\ failed' = [failed EXCEPT ![r] = TRUE]
          /\ target' = target /\ answer' = answer /\ called' = called /\ outcome' = outcome
      BY <1>2 DEF NextAttempt, Goto
    <2>1. WalkShape' /\ Alone(r)
      <3>1. attempts' \in [Requests -> Nat]
        BY <1>1, <2>0 DEF WalkShape
      <3>2. excluded' \in [Requests -> SUBSET Conns]
        BY <1>1, <2>0 DEF WalkShape
      <3>3. WalkShape'
        BY <1>1, <2>0, <3>1, <3>2 DEF WalkShape, Phases
      <3>4. Alone(r)
        BY <1>1, <2>0 DEF WalkShape, Alone, Still
      <3> QED BY <3>3, <3>4
    <2>2. /\ phase'[r] = "select" /\ phase[r] = "report" /\ conn'[r] = {}
          /\ excluded'[r] = excluded[r] \cup conn[r] /\ attempts'[r] = attempts[r] + 1
          /\ failed'[r] = TRUE /\ UNCHANGED <<target, called>>
      BY <1>1, <1>2 DEF NextAttempt, Goto, WalkShape
    <2>3. conn[r] # {} /\ called[r] = excluded[r] \cup conn[r]
      BY <1>1, <2>2 DEF WalkInv
    <2>4. WalkInv(r)'
      BY <1>1, <1>2, <2>2, <2>3 DEF WalkInv
    <2> QED BY <1>2, <2>1, <2>2, <2>4 DEF Walked
  <1>3. CASE ~(attempts[r] + 1 < MaxAttempts)
    <2>1. TargetFails(r, "upstream") /\ "upstream" \in Errors
      BY <1>3 DEF NextAttempt, Errors
    <2> QED BY <1>3, <2>1, TargetGivenUp
  <1> QED BY <1>2, <1>3

\* Success and a client that is gone end the walk.
LEMMA EndWalks ==
    ASSUME FallbackInv, NEW r \in Requests, ClearLands(r) \/ ClearLost(r) \/ Cancel(r)
    PROVE  Walked(r)
  <1>1. PICK what \in {"ok", "cancelled"} : Respond(r, what)
    BY DEF ClearLands, ClearLost, Cancel
  <1> QED BY <1>1, Responds

-----------------------------------------------------------------------------
(* What happens to the accounts. *)

\* Steps that leave the pool alone.
LEMMA PoolStays ==
    ASSUME FallbackInv, UNCHANGED <<poolVars, cooling>>
    PROVE  PoolShape' /\ CoolingInv'
  BY DEF FallbackInv, poolVars, PoolShape, CoolingInv

\* A lock is taken, of an account or of one of its models.
LEMMA MarkKeeps ==
    ASSUME FallbackInv, NEW c \in Conns, NEW k \in Keys, MarkUnavailable(c, k),
           cooling' = cooling \/ (c \in exists /\ k \in Models /\ cooling' = cooling \cup {<<c, k>>})
    PROVE  PoolShape' /\ CoolingInv'
  <1>1. PoolShape /\ CoolingInv
    BY DEF FallbackInv
  <1>2. PoolShape'
    BY <1>1 DEF MarkUnavailable, PoolShape
  <1>3. ASSUME NEW d \in Conns, NEW m \in Models, locks[d][m] = "live" \/ (d = c /\ m = k /\ c \in exists)
        PROVE  locks'[d][m] = "live"
    BY <1>1, <1>3 DEF MarkUnavailable, PoolShape, Keys
  <1> QED BY <1>1, <1>2, <1>3 DEF CoolingInv

\* A success lifts the lock of its model and the one of the account.
LEMMA ClearKeeps ==
    ASSUME FallbackInv, NEW c \in Conns, NEW m \in Models, ClearError(c, m),
           cooling' = cooling \ {<<c, m>>}
    PROVE  PoolShape' /\ CoolingInv'
  <1>1. PoolShape /\ CoolingInv
    BY DEF FallbackInv
  <1>2. PoolShape'
    BY <1>1 DEF ClearError, PoolShape
  <1>3. ASSUME NEW d \in Conns, NEW n \in Models, locks[d][n] = "live", <<d, n>> # <<c, m>>
        PROVE  locks'[d][n] = "live"
    BY <1>1, <1>3, PoolAssumption DEF PoolAssumption, ClearError, PoolShape, Keys
  <1> QED BY <1>1, <1>2, <1>3 DEF CoolingInv

\* The dashboard disables or deletes, and time takes a lock away.
LEMMA WorldKeeps ==
    ASSUME FallbackInv, EditAccounts \/ TimePasses
    PROVE  FallbackInv'
  <1>1. PoolShape /\ CoolingInv
    BY DEF FallbackInv
  <1>2. PoolShape' /\ CoolingInv'
    <2>1. CASE EditAccounts
      <3>1. PICK c \in Conns :
               \/ SetActive(c) /\ UNCHANGED cooling
               \/ DeleteConnection(c) /\ cooling' = cooling \ ({c} \X Models)
        BY <2>1 DEF EditAccounts
      <3>2. CASE SetActive(c) /\ UNCHANGED cooling
        BY <1>1, <3>2 DEF SetActive, PoolShape, CoolingInv
      <3>3. CASE DeleteConnection(c) /\ cooling' = cooling \ ({c} \X Models)
        <4>1. PoolShape'
          BY <1>1, <3>3 DEF DeleteConnection, PoolShape
        <4>2. ASSUME NEW d \in Conns, NEW m \in Models, <<d, m>> \in cooling'
              PROVE  locks'[d][m] = "live"
          BY <1>1, <3>3, <4>2 DEF DeleteConnection, PoolShape, CoolingInv
        <4> QED BY <1>1, <3>3, <4>1, <4>2 DEF CoolingInv
      <3> QED BY <3>1, <3>2, <3>3
    <2>2. CASE TimePasses
      <3>1. PICK c \in Conns, k \in Keys : LockExpires(c, k) /\ cooling' = cooling \ {<<c, k>>}
        BY <2>2 DEF TimePasses
      <3>2. PoolShape'
        BY <1>1, <3>1 DEF LockExpires, PoolShape
      <3>3. ASSUME NEW d \in Conns, NEW m \in Models, <<d, m>> \in cooling'
            PROVE  locks'[d][m] = "live"
        BY <1>1, <3>1, <3>3 DEF LockExpires, PoolShape, CoolingInv, Keys
      <3> QED BY <1>1, <3>1, <3>2, <3>3 DEF CoolingInv
    <2> QED BY <2>1, <2>2
  <1>3. UNCHANGED <<phase, locals, answer>>
    BY DEF EditAccounts, TimePasses
  <1> QED BY <1>2, <1>3 DEF locals, FallbackInv, WalkShape, WalkInv

-----------------------------------------------------------------------------
(* The invariant, and whose step it was. *)

WalksOn(r) == Arrive(r) \/ WalkStep(r) \/ WalkFault(r)

\* A request's own step keeps everything.
LEMMA WalkKeeps ==
    ASSUME FallbackInv, NEW r \in Requests, WalksOn(r)
    PROVE  Walked(r) /\ FallbackInv'
  <1> USE DEF WalksOn, WalkStep, WalkFault
  <1>1. PoolShape /\ Model(r) \in Models /\ conn[r] \subseteq Conns
    BY WalkOf DEF FallbackInv, WalkShape
  <1>2. CASE Arrive(r)
    BY <1>2, ArriveWalks, PoolStays, OneWalks DEF Arrive
  <1>3. CASE Select(r)
    BY <1>3, SelectWalks, PoolStays, OneWalks DEF Select
  <1>4. CASE SelectNone(r) \/ SelectUnavailable(r)
    BY <1>4, SelectEndsWalks, PoolStays, OneWalks DEF SelectNone, SelectUnavailable
  <1>5. CASE Refresh(r)
    BY <1>5, RefreshWalks, PoolStays, OneWalks DEF Refresh, GoCall
  <1>6. CASE RefreshRejected(r)
    <2>1. PICK c \in conn[r] : MarkUnavailable(c, AllModels)
      BY <1>6 DEF RefreshRejected
    <2>2. GoCall(r) /\ cooling' = cooling /\ c \in Conns /\ AllModels \in Keys
      BY <1>1, <1>6 DEF RefreshRejected, GoCall, Keys
    <2> QED BY <2>1, <2>2, RefreshWalks, MarkKeeps, OneWalks
  <1>7. CASE CallSucceeds(r)
    BY <1>7, CallWalks, PoolStays, OneWalks DEF CallSucceeds, Call
  <1>8. CASE CallFails(r)
    BY <1>8, CallWalks, PoolStays, OneWalks DEF CallFails, Call
  <1>9. CASE ReportLands(r)
    <2>1. PICK c \in conn[r] :
             /\ MarkUnavailable(c, Model(r))
             /\ cooling' = IF c \in exists THEN cooling \cup {<<c, Model(r)>>} ELSE cooling
      BY <1>9 DEF ReportLands
    <2>2. NextAttempt(r) /\ c \in Conns /\ Model(r) \in Keys
      BY <1>1, <1>9 DEF ReportLands, Keys
    <2> QED BY <1>1, <2>1, <2>2, NextAttemptWalks, MarkKeeps, OneWalks
  <1>10. CASE ReportLost(r)
    BY <1>10, NextAttemptWalks, PoolStays, OneWalks DEF ReportLost
  <1>11. CASE ClearLands(r)
    <2>1. PICK c \in conn[r] :
             ClearError(c, Model(r)) /\ cooling' = cooling \ {<<c, Model(r)>>}
      BY <1>11 DEF ClearLands
    <2> QED BY <1>1, <1>11, <2>1, EndWalks, ClearKeeps, OneWalks
  <1>12. CASE ClearLost(r) \/ Cancel(r)
    BY <1>12, EndWalks, PoolStays, OneWalks DEF ClearLost, Cancel
  <1> QED
    BY <1>2, <1>3, <1>4, <1>5, <1>6, <1>7, <1>8, <1>9, <1>10, <1>11, <1>12

\* The invariant survives every step.
LEMMA FallbackStep == FallbackInv /\ [Next]_vars => FallbackInv'
  <1> SUFFICES ASSUME FallbackInv, [Next]_vars PROVE FallbackInv'
    OBVIOUS
  <1>1. ASSUME NEW r \in Requests, WalksOn(r) PROVE FallbackInv'
    BY <1>1, WalkKeeps
  <1>2. CASE UNCHANGED vars
    BY <1>2 DEF vars, locals, poolVars, FallbackInv, WalkShape, WalkInv, PoolShape, CoolingInv
  <1> QED BY <1>1, <1>2, WorldKeeps DEF Next, WalksOn

\* Seen from one request, a step is its own or leaves it where it was.
LEMMA OwnStep ==
    ASSUME FallbackInv, [Next]_vars, NEW r \in Requests
    PROVE  WalksOn(r) \/ Still(r)
  <1>1. ASSUME NEW q \in Requests, q # r, WalksOn(q) PROVE Still(r)
    BY <1>1, WalkKeeps DEF Walked, Alone
  <1>2. CASE EditAccounts \/ TimePasses \/ UNCHANGED vars
    BY <1>2 DEF EditAccounts, TimePasses, vars, locals, Still
  <1> QED BY <1>1, <1>2 DEF Next, WalksOn

\* Where a request that is not idle can go, and by which action.
LEMMA StepFrom ==
    ASSUME FallbackInv, [Next]_vars, NEW r \in Requests, phase[r] # "idle"
    PROVE  \/ Still(r)
           \/ phase[r] = "select" /\ Select(r) /\ phase'[r] = "refresh"
                /\ target'[r] = target[r] /\ attempts'[r] = attempts[r]
           \/ phase[r] = "select" /\ (SelectNone(r) \/ SelectUnavailable(r))
           \/ phase[r] = "refresh" /\ phase'[r] = "call"
                /\ target'[r] = target[r] /\ attempts'[r] = attempts[r]
           \/ phase[r] = "call" /\ phase'[r] \in {"clear", "report"}
                /\ target'[r] = target[r] /\ attempts'[r] = attempts[r]
           \/ phase[r] = "report" /\ NextAttempt(r)
           \/ \E what \in {"ok", "cancelled"} : Respond(r, what)
  <1>1. WalkShape
    BY DEF FallbackInv
  <1>2. CASE Still(r)
    BY <1>2
  <1>3. CASE Arrive(r)
    BY <1>3 DEF Arrive
  <1>4. CASE Select(r)
    BY <1>1, <1>4 DEF Select, Goto, WalkShape
  <1>5. CASE SelectNone(r) \/ SelectUnavailable(r)
    BY <1>5 DEF SelectNone, SelectUnavailable
  <1>6. CASE Refresh(r) \/ RefreshRejected(r)
    BY <1>1, <1>6 DEF Refresh, RefreshRejected, GoCall, Goto, locals, WalkShape
  <1>7. CASE CallSucceeds(r) \/ CallFails(r)
    BY <1>1, <1>7 DEF CallSucceeds, CallFails, Call, Goto, WalkShape
  <1>8. CASE ReportLands(r) \/ ReportLost(r)
    BY <1>8 DEF ReportLands, ReportLost, NextAttempt
  <1>9. CASE ClearLands(r) \/ ClearLost(r) \/ Cancel(r)
    BY <1>9 DEF ClearLands, ClearLost, Cancel
  <1>10. WalksOn(r) \/ Still(r)
    BY OwnStep
  <1> QED
    BY <1>2, <1>3, <1>4, <1>5, <1>6, <1>7, <1>8, <1>9, <1>10 DEF WalksOn, WalkStep, WalkFault

-----------------------------------------------------------------------------
(* What a step may never do. *)

\* A target never calls one account twice: the account in hand is not excluded,
\* and what was called before it is.
THEOREM AccountsAreTriedOnce == Spec => NoAccountTwice
  <1> DEFINE Once == \A r \in Requests :
                 phase[r] = "call" /\ phase'[r] \in {"clear", "report"}
                    => conn[r] \cap called[r] = {}
  <1>1. FallbackInv /\ [Next]_vars => [Once]_vars
    BY DEF FallbackInv, WalkInv
  <1> QED BY <1>1, FallbackInitially, FallbackStep, PTL DEF Spec, NoAccountTwice

\* A failure reported for a model keeps every request for it off the account.
THEOREM CooldownsKeepOff == Spec => CooldownHonoured
  <1> DEFINE Off == \A r \in Requests : Selects(r) =>
                       \A c \in conn'[r] : <<c, Model(r)>> \notin cooling
  <1>1. FallbackInv /\ [Next]_vars => [Off]_vars
    <2> SUFFICES ASSUME FallbackInv, [Next]_vars, NEW r \in Requests, Selects(r),
                        NEW d \in conn'[r]
                 PROVE  <<d, Model(r)>> \notin cooling
      OBVIOUS
    <2>1. phase[r] = "select" /\ phase'[r] = "refresh"
      BY DEF Selects
    <2>2. Select(r)
      <3>1. ~ Still(r)
        BY <2>1 DEF Still
      <3>2. ASSUME NEW why \in Errors PROVE ~ TargetFails(r, why)
        BY <2>1, <3>2, TargetGivenUp
      <3>3. ~ (SelectNone(r) \/ SelectUnavailable(r))
        BY <3>2 DEF SelectNone, SelectUnavailable, Refusal, Errors
      <3>4. ASSUME NEW what \in {"ok", "cancelled"} PROVE ~ Respond(r, what)
        BY <2>1, <3>4, Responds
      <3> QED BY <2>1, <3>1, <3>3, <3>4, StepFrom
    <2>3. PICK c \in Available(Provider(r), Model(r), excluded[r]) :
              conn' = [conn EXCEPT ![r] = {c}]
      BY <2>2 DEF Select
    <2>4. d = c /\ ~ IsLocked(d, Model(r))
      BY <2>3 DEF FallbackInv, WalkShape, Available
    <2>5. <<d, Model(r)>> \in cooling => locks[d][Model(r)] = "live"
      BY DEF FallbackInv, CoolingInv
    <2> QED BY <2>4, <2>5 DEF IsLocked
  <1> QED BY <1>1, FallbackInitially, FallbackStep, PTL DEF Spec, CooldownHonoured

\* Only a pool with nothing left to try makes a request give a target up for
\* want of an account.
THEOREM NothingIsLeftUntried == Spec => GivesUpOnlyWhenNothingIsLeft
  <1> DEFINE Untried == \A r \in Requests :
                 /\ phase[r] = "select"
                 /\ \E why \in Errors \ {"unavailable"} : GivesUp(r, why)
                 => Matching(Provider(r)) \subseteq
                      called[r] \cup {c \in Conns : IsLocked(c, Model(r))}
  <1>1. FallbackInv /\ [Next]_vars => [Untried]_vars
    <2> SUFFICES ASSUME FallbackInv, [Next]_vars, NEW r \in Requests, phase[r] = "select",
                        NEW why \in Errors \ {"unavailable"}, GivesUp(r, why)
                 PROVE  Matching(Provider(r)) \subseteq
                          called[r] \cup {c \in Conns : IsLocked(c, Model(r))}
      OBVIOUS
    <2>1. \/ target'[r] # target[r] /\ outcome'[r] = why
          \/ phase'[r] = "idle" /\ answer'[r] = why
      BY DEF GivesUp
    <2>2. SelectNone(r)
      <3>1. ~ Still(r)
        BY <2>1 DEF Still
      <3>2. ~ (phase'[r] = "refresh" /\ target'[r] = target[r])
        BY <2>1
      <3>3. ~ SelectUnavailable(r)
        <4>1. ASSUME TargetFails(r, "unavailable") PROVE FALSE
          BY <2>1, <4>1, TargetGivenUp DEF Errors
        <4> QED BY <4>1 DEF SelectUnavailable
      <3>4. ASSUME NEW what \in {"ok", "cancelled"} PROVE ~ Respond(r, what)
        BY <2>1, <3>4, Responds DEF Errors
      <3> QED BY <3>1, <3>2, <3>3, <3>4, StepFrom
    <2>3. Available(Provider(r), Model(r), excluded[r]) = {}
      BY <2>2 DEF SelectNone
    <2>4. called[r] = excluded[r] /\ exists \subseteq Conns
      BY DEF FallbackInv, WalkInv, PoolShape
    <2> QED BY <2>3, <2>4 DEF Available, Matching
  <1> QED BY <1>1, FallbackInitially, FallbackStep, PTL DEF Spec, GivesUpOnlyWhenNothingIsLeft

\* An exhausted pool was emptied by this very target.
LEMMA ExhaustedIsFailed ==
    ASSUME FallbackInv, NEW r \in Requests, phase[r] = "select",
           Available(Provider(r), Model(r), excluded[r]) = {},
           Refusal(Provider(r), Model(r)) = "exhausted"
    PROVE  failed[r] /\ called[r] # {}
  <1>1. /\ Matching(Provider(r)) # {}
        /\ \A c \in Matching(Provider(r)) : ~ IsLocked(c, Model(r))
    BY DEF Refusal
  <1>2. excluded[r] # {}
    BY <1>1 DEF Available
  <1> QED BY <1>2 DEF FallbackInv, WalkInv

\* The error a client gets is the last target's own, and never a made-up one.
THEOREM LastModelAnswers == Spec => LastModelOwnsTheOutcome
  <1> DEFINE Owns(r) == /\ answer'[r] \in Errors => target[r] = Len(TargetsOf[r])
                        /\ answer'[r] = "upstream" => called[r] # {}
                        /\ answer'[r] # "noAccounts"
             Last == \A r \in Requests : phase[r] # "idle" /\ phase'[r] = "idle" => Owns(r)
  <1>1. FallbackInv /\ [Next]_vars => [Last]_vars
    <2> SUFFICES ASSUME FallbackInv, [Next]_vars, NEW r \in Requests,
                        phase[r] # "idle", phase'[r] = "idle"
                 PROVE  Owns(r)
      OBVIOUS
    <2>1. /\ target[r] \in Nat /\ Len(TargetsOf[r]) \in Nat
          /\ target[r] <= Len(TargetsOf[r]) /\ WalkInv(r)
      BY WalkOf
    <2>2. ASSUME NEW why \in Errors, TargetFails(r, why)
          PROVE  target[r] = Len(TargetsOf[r]) /\ answer'[r] = why
      <3>1. ~ (target[r] < Len(TargetsOf[r])) /\ answer'[r] = why
        BY <2>2, TargetGivenUp
      <3> QED BY <2>1, <3>1
    <2>3. CASE phase[r] = "select" /\ SelectNone(r)
      <3>1. Available(Provider(r), Model(r), excluded[r]) = {}
        BY <2>3 DEF SelectNone
      <3>2. CASE Refusal(Provider(r), Model(r)) = "exhausted"
        <4>1. failed[r] /\ called[r] # {}
          BY <2>3, <3>1, <3>2, ExhaustedIsFailed
        <4>2. TargetFails(r, "upstream")
          BY <2>3, <3>2, <4>1 DEF SelectNone
        <4> QED BY <2>2, <4>1, <4>2 DEF Errors
      <3>3. CASE Refusal(Provider(r), Model(r)) # "exhausted"
        <4>1. TargetFails(r, Refusal(Provider(r), Model(r)))
          BY <2>3, <3>3 DEF SelectNone
        <4>2. Refusal(Provider(r), Model(r)) \in {"notFound", "rateLimited"}
          BY <3>3 DEF Refusal
        <4> QED BY <2>2, <4>1, <4>2 DEF Errors
      <3> QED BY <3>2, <3>3
    <2>4. CASE SelectUnavailable(r)
      <3>1. TargetFails(r, "unavailable") /\ "unavailable" \in Errors
        BY <2>4 DEF SelectUnavailable, Errors
      <3> QED BY <2>2, <3>1
    <2>5. CASE phase[r] = "report" /\ NextAttempt(r)
      <3>1. TargetFails(r, "upstream") /\ "upstream" \in Errors
        BY <2>5, NextAttemptWalks DEF Errors
      <3>2. called[r] # {}
        BY <2>1, <2>5 DEF WalkInv
      <3> QED BY <2>2, <3>1, <3>2
    <2>6. CASE \E what \in {"ok", "cancelled"} : Respond(r, what)
      <3>1. answer'[r] \in {"ok", "cancelled"}
        BY <2>6, Responds
      <3> QED BY <3>1 DEF Errors
    <2>7. ~ Still(r)
      BY DEF Still
    <2> HIDE DEF Owns
    <2> QED BY <2>3, <2>4, <2>5, <2>6, <2>7, StepFrom
  <1> QED BY <1>1, FallbackInitially, FallbackStep, PTL DEF Spec, LastModelOwnsTheOutcome

\* One target fewer is worth a whole round of attempts.
LEMMA TargetFewer ==
    ASSUME NEW L \in Nat, NEW t \in Nat, t < L, NEW m \in Nat \ {0}, NEW a \in Nat, a < m
    PROVE  4 * ((L - (t + 1)) * m + (m - 1 - 0)) + 3 < 4 * ((L - t) * m + (m - 1 - a))
  <1>1. (L - t) * m = (L - (t + 1)) * m + m
    OBVIOUS
  <1>2. (L - (t + 1)) * m \in Int
    OBVIOUS
  <1> QED BY <1>1, <1>2

\* One attempt more leaves fewer to come.
LEMMA AttemptFewer ==
    ASSUME NEW L \in Nat, NEW t \in Nat, NEW m \in Nat, NEW a \in Nat
    PROVE  4 * ((L - t) * m + (m - 1 - (a + 1))) + 3 < 4 * ((L - t) * m + (m - 1 - a))
  <1>1. (L - t) * m \in Int
    OBVIOUS
  <1> QED BY <1>1

\* A step of a walk brings it nearer its end.
THEOREM WalksAreBounded == Spec => EveryWalkIsBounded
  <1> DEFINE Nearer(r) == StepsLeft(r)' < StepsLeft(r)
             Bounded == \A r \in Requests :
                 phase[r] # "idle" /\ phase'[r] # "idle"
                   /\ <<phase[r], target[r], attempts[r]>>' # <<phase[r], target[r], attempts[r]>>
                 => Nearer(r)
  <1>1. FallbackInv /\ [Next]_vars => [Bounded]_vars
    <2> SUFFICES ASSUME FallbackInv, [Next]_vars, NEW r \in Requests,
                        phase[r] # "idle", phase'[r] # "idle",
                        <<phase[r], target[r], attempts[r]>>' # <<phase[r], target[r], attempts[r]>>
                 PROVE  Nearer(r)
      OBVIOUS
    <2> DEFINE L == Len(TargetsOf[r])
               Rest(t, a) == 4 * ((L - t) * MaxAttempts + (MaxAttempts - 1 - a))
               Way(p) == CASE p = "select" -> 3
                           [] p = "refresh" -> 2
                           [] p = "call" -> 1
                           [] OTHER -> 0
    <2>1. /\ target[r] \in Nat /\ L \in Nat /\ target[r] <= L
          /\ attempts[r] \in Nat /\ MaxAttempts \in Nat \ {0} /\ attempts[r] < MaxAttempts
      BY WalkOf DEF WalkInv
    <2>2. /\ StepsLeft(r) = Rest(target[r], attempts[r]) + Way(phase[r])
          /\ StepsLeft(r)' = Rest(target'[r], attempts'[r]) + Way(phase'[r])
      BY DEF StepsLeft
    <2>3. /\ Way("select") = 3 /\ Way("refresh") = 2 /\ Way("call") = 1
          /\ Way("clear") = 0 /\ Way("report") = 0
      OBVIOUS
    <2>4. Rest(target[r], attempts[r]) \in Int
      <3>1. (L - target[r]) * MaxAttempts \in Int
        BY <2>1
      <3> QED BY <2>1, <3>1
    <2> HIDE DEF Way, Rest, L
    <2>5. CASE /\ target'[r] = target[r] /\ attempts'[r] = attempts[r]
               /\ \/ phase[r] = "select" /\ phase'[r] = "refresh"
                  \/ phase[r] = "refresh" /\ phase'[r] = "call"
                  \/ phase[r] = "call" /\ phase'[r] \in {"clear", "report"}
      BY <2>2, <2>3, <2>4, <2>5
    <2>6. ASSUME NEW why \in Errors, TargetFails(r, why), phase[r] \in {"select", "report"}
          PROVE  Nearer(r)
      <3>1. /\ target[r] < L /\ phase'[r] = "select" /\ target'[r] = target[r] + 1
            /\ attempts'[r] = 0
        BY <2>6, TargetGivenUp DEF L
      <3>2. Rest(target[r] + 1, 0) + 3 < Rest(target[r], attempts[r])
        BY <2>1, <3>1, TargetFewer DEF Rest
      <3>3. Rest(target[r] + 1, 0) \in Int
        <4>1. (L - (target[r] + 1)) * MaxAttempts \in Int
          BY <2>1
        <4> QED BY <2>1, <4>1 DEF Rest
      <3> QED BY <2>2, <2>3, <2>4, <2>6, <3>1, <3>2, <3>3
    <2>7. CASE phase[r] = "select" /\ (SelectNone(r) \/ SelectUnavailable(r))
      <3>1. PICK why \in Errors : TargetFails(r, why)
        BY <2>7 DEF SelectNone, SelectUnavailable, Refusal, Errors
      <3> QED BY <2>6, <2>7, <3>1
    <2>8. CASE phase[r] = "report" /\ NextAttempt(r)
      <3>1. CASE attempts[r] + 1 < MaxAttempts
        <4>1. /\ phase'[r] = "select" /\ target'[r] = target[r]
              /\ attempts'[r] = attempts[r] + 1
          BY <2>8, <3>1, NextAttemptWalks
        <4>2. Rest(target[r], attempts[r] + 1) + 3 < Rest(target[r], attempts[r])
          BY <2>1, AttemptFewer DEF Rest
        <4>3. Rest(target[r], attempts[r] + 1) \in Int
          <5>1. (L - target[r]) * MaxAttempts \in Int
            BY <2>1
          <5> QED BY <2>1, <5>1 DEF Rest
        <4> QED BY <2>2, <2>3, <2>4, <2>8, <4>1, <4>2, <4>3
      <3>2. CASE ~ (attempts[r] + 1 < MaxAttempts)
        <4>1. TargetFails(r, "upstream") /\ "upstream" \in Errors
          BY <2>8, <3>2, NextAttemptWalks DEF Errors
        <4> QED BY <2>6, <2>8, <4>1
      <3> QED BY <3>1, <3>2
    <2>9. ~ \E what \in {"ok", "cancelled"} : Respond(r, what)
      BY Responds
    <2>10. ~ Still(r)
      BY DEF Still
    <2> HIDE DEF Nearer
    <2> QED BY <2>5, <2>7, <2>8, <2>9, <2>10, StepFrom
  <1> QED BY <1>1, FallbackInitially, FallbackStep, PTL DEF Spec, EveryWalkIsBounded
=============================================================================
