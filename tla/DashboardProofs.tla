-------------------------- MODULE DashboardProofs --------------------------
(***************************************************************************)
(* What the dashboard keeps for any rows, any number of controls in use,   *)
(* of the keys' callers, of tabs and registrations, and for any timeouts:  *)
(* the managed keys decide as they promise; signing in through a provider  *)
(* is earned, ends once and is refused for a reason; every page shows what *)
(* is and keeps what was typed; the chat's answers land in their turns.    *)
(* The parts share no variable, so each has an invariant of its own and    *)
(* the steps of the others leave it alone.                                 *)
(***************************************************************************)
EXTENDS Dashboard, TLAPS, SequenceTheorems, FiniteSetTheorems, WellFoundedInduction

-----------------------------------------------------------------------------
(* The managed keys. *)

Waiting == {"auth asks", "auth is told"}
KeyStages == {"none", "auth", "provider", "refused", "unavailable"} \cup Questions
Call == [at : KeyStages, with : BOOLEAN, gated : BOOLEAN, age : Nat, waited : Nat,
         heard : BOOLEAN, strict : BOOLEAN]

KeysShape ==
    /\ keyIs \in {"active", "inactive", "deleted"} /\ keyRequired \in BOOLEAN
    /\ verdict \in [good : BOOLEAN, age : Nat]
    /\ keyCalls \in [KeyCallers -> Call]
    /\ \A c \in KeyCallers : keyCalls[c].waited <= AskTimeout
    /\ goodAge \in Nat /\ badAge \in Nat

\* The key is now what it is.
AgesInv ==
    /\ keyIs = "active" => goodAge = 0
    /\ keyIs # "active" => badAge = 0

\* A verdict in use was true a question's time before it was remembered.
VerdictInv ==
    verdict.age < VerdictTTL =>
        /\ verdict.good => goodAge <= verdict.age + AskTimeout
        /\ ~verdict.good => badAge <= verdict.age + AskTimeout

\* An answer on its way was true since its question was asked, and what a call
\* has passed was true while it was under way, or a verdict's life before.
CallInv(call) ==
    /\ call.at \in Waiting => call.with
    /\ call.at = "auth is told" =>
          /\ call.heard => goodAge <= call.waited
          /\ ~call.heard => badAge <= call.waited
    /\ call.at = "runtime is told" =>
          /\ call.heard => call.with /\ goodAge <= call.age
          /\ call.with /\ ~call.heard => badAge <= call.age
    /\ call.gated /\ call.at \in {"runtime asks", "runtime is told", "provider"} =>
          call.with /\ goodAge <= NewsOf(call)
    /\ call.at = "provider" => ~call.strict \/ (call.with /\ goodAge <= call.age)
    /\ call.at = "refused" /\ call.with => badAge <= NewsOf(call)

KeysInv == KeysShape /\ AgesInv /\ VerdictInv /\ \A c \in KeyCallers : CallInv(keyCalls[c])

\* The one who holds the key starts with it.
LEMMA KeysInitially == KeysInit => KeysInv
  <1>1. ApiKeysAssumption  BY ApiKeysAssumption
  <1> SUFFICES ASSUME KeysInit PROVE KeysInv  OBVIOUS
  <1>2. KeysShape
    BY <1>1 DEF KeysInit, KeysShape, NoVerdict, NoCall, LongAgo, Call, KeyStages,
                ApiKeysAssumption
  <1>3. AgesInv /\ VerdictInv
    BY <1>1 DEF KeysInit, AgesInv, VerdictInv, NoVerdict, ApiKeysAssumption
  <1>4. ASSUME NEW c \in KeyCallers PROVE CallInv(keyCalls[c])
    BY DEF KeysInit, CallInv, NoCall, Waiting
  <1> QED BY <1>2, <1>3, <1>4 DEF KeysInv

\* A step of one call leaves the others what they were.
LEMMA OneCallMoves ==
    ASSUME KeysInv, NEW c \in KeyCallers, NEW call \in Call,
           keyCalls' = [keyCalls EXCEPT ![c] = call],
           call.waited <= AskTimeout, CallInv(call),
           verdict' \in [good : BOOLEAN, age : Nat], VerdictInv', UNCHANGED World
    PROVE  KeysInv'
  <1>1. keyCalls' \in [KeyCallers -> Call]
    BY DEF KeysInv, KeysShape
  <1>2. ASSUME NEW d \in KeyCallers
        PROVE  keyCalls'[d] = IF d = c THEN call ELSE keyCalls[d]
    BY DEF KeysInv, KeysShape
  <1>3. KeysShape'
    BY <1>1, <1>2 DEF KeysInv, KeysShape, World
  <1>4. AgesInv'
    BY DEF KeysInv, AgesInv, World
  <1>5. ASSUME NEW d \in KeyCallers PROVE CallInv(keyCalls[d])'
    <2>1. CASE d = c
      BY <1>2, <2>1 DEF CallInv, World, NewsOf
    <2>2. CASE d # c
      <3>1. CallInv(keyCalls[d]) /\ keyCalls'[d] = keyCalls[d]
        BY <1>2, <2>2 DEF KeysInv
      <3> QED BY <3>1 DEF CallInv, World, NewsOf
    <2> QED BY <2>1, <2>2
  <1> QED BY <1>3, <1>4, <1>5 DEF KeysInv

\* When the verdict stays as well, so does what it is worth.
LEMMA VerdictStays ==
    ASSUME KeysInv, verdict' = verdict, UNCHANGED World
    PROVE  verdict' \in [good : BOOLEAN, age : Nat] /\ VerdictInv'
  BY DEF KeysInv, KeysShape, VerdictInv, World

\* The record of a call after a hop.
LEMMA BecomesOne ==
    ASSUME KeysInv, NEW c \in KeyCallers, NEW at \in KeyStages, Becomes(c, at)
    PROVE  LET call == [keyCalls[c] EXCEPT !.at = at, !.waited = 0, !.heard = FALSE] IN
           /\ keyCalls' = [keyCalls EXCEPT ![c] = call]
           /\ call \in Call /\ call.waited <= AskTimeout
           /\ call.at = at /\ call.with = keyCalls[c].with /\ call.gated = keyCalls[c].gated
           /\ call.age = keyCalls[c].age /\ call.strict = keyCalls[c].strict
  <1>1. keyCalls[c] \in Call /\ keyCalls \in [KeyCallers -> Call]
    BY DEF KeysInv, KeysShape
  <1>2. 0 <= AskTimeout  BY ApiKeysAssumption DEF ApiKeysAssumption
  <1> QED BY <1>1, <1>2 DEF Becomes, Call

\* A caller presents the key or nothing, at the gateway or past it.
LEMMA PresentKeeps ==
    ASSUME KeysInv, NEW c \in KeyCallers, NEW with \in BOOLEAN, NEW gated \in BOOLEAN,
           Present(c, with, gated)
    PROVE  KeysInv'
  <1> DEFINE call == [NoCall EXCEPT !.at = IF gated THEN "auth" ELSE "runtime asks",
                                     !.with = with, !.gated = gated]
              first == IF gated THEN "auth" ELSE "runtime asks"
  <1>1. call \in Call /\ call.waited <= AskTimeout
    <2>1. ASSUME NEW at \in KeyStages, NEW w \in BOOLEAN, NEW g \in BOOLEAN
          PROVE  LET new == [NoCall EXCEPT !.at = at, !.with = w, !.gated = g] IN
                 new \in Call /\ new.waited = 0
      <3>1. NoCall \in Call /\ NoCall.waited = 0
        BY DEF NoCall, Call, KeyStages
      <3> HIDE DEF NoCall
      <3> QED BY <3>1 DEF Call
    <2>2. first \in KeyStages
      BY DEF KeyStages, Questions
    <2>3. call = [NoCall EXCEPT !.at = first, !.with = with, !.gated = gated]
      OBVIOUS
    <2> HIDE DEF first, call
    <2>4. call \in Call /\ call.waited = 0
      BY <2>1, <2>2, <2>3
    <2> QED BY <2>4, ApiKeysAssumption DEF ApiKeysAssumption
  <1>2. CallInv(call)
    <2>1. CASE gated  BY <2>1 DEF CallInv, NoCall, Waiting
    <2>2. CASE ~gated  BY <2>2 DEF CallInv, NoCall, Waiting
    <2> QED BY <2>1, <2>2
  <1>3. keyCalls' = [keyCalls EXCEPT ![c] = call] /\ verdict' = verdict /\ UNCHANGED World
    BY DEF Present
  <1> HIDE DEF call
  <1> QED BY <1>1, <1>2, <1>3, OneCallMoves, VerdictStays

\* Auth answers from its cache or asks.
LEMMA AuthLooksKeeps ==
    ASSUME KeysInv, NEW c \in KeyCallers, AuthLooks(c)
    PROVE  KeysInv'
  <1> DEFINE next == IF ~keyCalls[c].with THEN "refused"
                      ELSE IF ~VerdictUsable(verdict) THEN "auth asks"
                      ELSE IF verdict.good THEN "runtime asks" ELSE "refused"
              call == [keyCalls[c] EXCEPT !.at = next, !.waited = 0, !.heard = FALSE]
  <1>1. next \in KeyStages /\ Becomes(c, next) /\ verdict' = verdict /\ UNCHANGED World
    BY DEF AuthLooks, KeyStages, Questions
  <1>2. /\ keyCalls' = [keyCalls EXCEPT ![c] = call] /\ call \in Call
        /\ call.waited <= AskTimeout /\ call.at = next /\ call.with = keyCalls[c].with
        /\ call.age = keyCalls[c].age
    <2> HIDE DEF next
    <2> QED BY <1>1, BecomesOne
  <1>3. CallInv(call)
    <2>1. /\ AskTimeout \in Nat /\ VerdictTTL \in Nat /\ call.age \in Nat
          /\ goodAge \in Nat /\ badAge \in Nat /\ verdict.age \in Nat
      BY <1>2, ApiKeysAssumption DEF ApiKeysAssumption, KeysInv, KeysShape, Call
    <2>2. CASE ~call.with
      <3>1. call.at = "refused"  BY <1>2, <2>2
      <3> HIDE DEF call
      <3> QED BY <3>1, <2>2 DEF CallInv, Waiting
    <2>3. CASE call.with /\ ~VerdictUsable(verdict)
      <3>1. call.at = "auth asks"  BY <1>2, <2>3
      <3> HIDE DEF call
      <3> QED BY <3>1, <2>3 DEF CallInv, Waiting
    <2>4. CASE call.with /\ VerdictUsable(verdict) /\ verdict.good
      <3>1. call.at = "runtime asks"  BY <1>2, <2>4
      <3>2. goodAge <= verdict.age + AskTimeout /\ verdict.age < VerdictTTL
        BY <2>4 DEF KeysInv, VerdictInv, VerdictUsable
      <3> HIDE DEF call
      <3>3. goodAge <= NewsOf(call)  BY <3>2, <2>1 DEF NewsOf
      <3> QED BY <3>1, <3>3, <2>4 DEF CallInv, Waiting
    <2>5. CASE call.with /\ VerdictUsable(verdict) /\ ~verdict.good
      <3>1. call.at = "refused"  BY <1>2, <2>5
      <3>2. badAge <= verdict.age + AskTimeout /\ verdict.age < VerdictTTL
        BY <2>5 DEF KeysInv, VerdictInv, VerdictUsable
      <3> HIDE DEF call
      <3>3. badAge <= NewsOf(call)  BY <3>2, <2>1 DEF NewsOf
      <3> QED BY <3>1, <3>3, <2>5 DEF CallInv, Waiting
    <2> QED BY <2>2, <2>3, <2>4, <2>5
  <1> HIDE DEF next, call
  <1> QED BY <1>1, <1>2, <1>3, OneCallMoves, VerdictStays

\* What state reads is so at that moment.
LEMMA StateReadsKeeps ==
    ASSUME KeysInv, NEW c \in KeyCallers, StateReads(c)
    PROVE  KeysInv'
  <1> DEFINE old == keyCalls[c]
              call == [old EXCEPT
                 !.at = IF old.at = "auth asks" THEN "auth is told" ELSE "runtime is told",
                 !.heard = old.with /\ keyIs = "active",
                 !.strict = old.at = "auth asks" \/ keyRequired]
  <1>1. old \in Call /\ old.waited <= AskTimeout /\ keyCalls \in [KeyCallers -> Call]
        /\ keyRequired \in BOOLEAN
    BY DEF KeysInv, KeysShape
  <1>2. call \in Call /\ call.waited <= AskTimeout
    BY <1>1 DEF Call, KeyStages, Questions
  <1>3. /\ keyCalls' = [keyCalls EXCEPT ![c] = call] /\ verdict' = verdict /\ UNCHANGED World
        /\ old.at \in {"auth asks", "runtime asks"}
    BY <1>1 DEF StateReads, Call
  <1>4. CallInv(call)
    <2>1. goodAge \in Nat /\ badAge \in Nat /\ CallInv(old) /\ AgesInv
      BY DEF KeysInv, KeysShape
    <2>2. call.with = old.with /\ call.gated = old.gated /\ call.age = old.age
          /\ call.waited = old.waited /\ (call.heard <=> old.with /\ keyIs = "active")
          /\ call.age \in Nat /\ call.waited \in Nat
      BY <1>1 DEF Call
    <2>3. CASE old.at = "auth asks"
      <3>1. call.at = "auth is told" /\ old.with
        BY <1>1, <2>1, <2>3 DEF Call, CallInv, Waiting
      <3> HIDE DEF call, old
      <3>2. CASE keyIs = "active"
        <4>1. goodAge <= call.waited
          BY <3>2, <2>1, <2>2 DEF AgesInv
        <4>2. call.with /\ call.heard
          BY <3>1, <3>2, <2>2, Zenon
        <4> QED BY <3>1, <4>1, <4>2 DEF CallInv, Waiting
      <3>3. CASE keyIs # "active"
        <4>1. badAge <= call.waited
          BY <3>3, <2>1, <2>2 DEF AgesInv
        <4>2. call.with /\ ~call.heard
          BY <3>1, <3>3, <2>2, Zenon
        <4> QED BY <3>1, <4>1, <4>2 DEF CallInv, Waiting
      <3> QED BY <3>2, <3>3
    <2>4. CASE old.at = "runtime asks"
      <3>1. call.at = "runtime is told"
        BY <1>1, <2>4 DEF Call
      <3> HIDE DEF call, old
      <3>2. call.gated => call.with /\ goodAge <= NewsOf(call)
        BY <2>1, <2>2, <2>4 DEF CallInv, NewsOf
      <3>3. CASE keyIs = "active"
        <4>1. goodAge <= call.age /\ (call.with => call.heard) /\ (call.heard => call.with)
          BY <3>3, <2>1, <2>2 DEF AgesInv
        <4> QED BY <3>1, <3>2, <4>1 DEF CallInv, Waiting
      <3>4. CASE keyIs # "active"
        <4>1. badAge <= call.age /\ ~call.heard
          BY <3>4, <2>1, <2>2 DEF AgesInv
        <4> QED BY <3>1, <3>2, <4>1 DEF CallInv, Waiting
      <3> QED BY <3>3, <3>4
    <2> QED BY <1>3, <2>3, <2>4
  <1> HIDE DEF call, old
  <1> QED BY <1>2, <1>3, <1>4, OneCallMoves, VerdictStays

\* Auth remembers what it has just been told.
LEMMA AuthHearsKeeps ==
    ASSUME KeysInv, NEW c \in KeyCallers, AuthHears(c)
    PROVE  KeysInv'
  <1> DEFINE old == keyCalls[c]
              next == IF old.heard THEN "runtime asks" ELSE "refused"
              call == [old EXCEPT !.at = next, !.waited = 0, !.heard = FALSE]
  <1>1. next \in KeyStages /\ Becomes(c, next) /\ UNCHANGED World
    BY DEF AuthHears, KeyStages, Questions
  <1>2. /\ keyCalls' = [keyCalls EXCEPT ![c] = call] /\ call \in Call
        /\ call.waited <= AskTimeout /\ call.at = next /\ call.with = old.with
        /\ call.age = old.age
    <2> HIDE DEF next
    <2> QED BY <1>1, BecomesOne
  <1>3. /\ AskTimeout \in Nat /\ VerdictTTL \in Nat /\ old.age \in Nat /\ old.waited \in Nat
        /\ old.waited <= AskTimeout /\ goodAge \in Nat /\ badAge \in Nat
        /\ old.heard \in BOOLEAN
    BY ApiKeysAssumption DEF ApiKeysAssumption, KeysInv, KeysShape, Call
  <1>4. old.with /\ (old.heard => goodAge <= old.waited) /\ (~old.heard => badAge <= old.waited)
    BY DEF AuthHears, KeysInv, CallInv, Waiting
  <1>5. verdict' = [good |-> old.heard, age |-> 0]
    BY DEF AuthHears
  <1> HIDE DEF old
  <1>6. verdict' \in [good : BOOLEAN, age : Nat]
    BY <1>3, <1>5
  <1>7. CASE old.heard
    <2>1. VerdictInv'
      <3>1. verdict'.age = 0 /\ (verdict'.good <=> TRUE) /\ goodAge' = goodAge /\ badAge' = badAge
        BY <1>1, <1>5, <1>7 DEF World
      <3>2. goodAge <= 0 + AskTimeout
        BY <1>3, <1>4, <1>7
      <3> QED BY <3>1, <3>2 DEF VerdictInv
    <2>2. call.at = "runtime asks"  BY <1>2, <1>7
    <2> HIDE DEF call, next
    <2>3. goodAge <= NewsOf(call)  BY <1>2, <1>3, <1>4, <1>7 DEF NewsOf
    <2>4. CallInv(call)  BY <2>2, <2>3, <1>2, <1>4 DEF CallInv, Waiting
    <2> QED BY <1>1, <1>2, <1>6, <2>1, <2>4, OneCallMoves
  <1>8. CASE ~old.heard
    <2>1. VerdictInv'
      <3>1. verdict'.age = 0 /\ (verdict'.good <=> FALSE) /\ goodAge' = goodAge /\ badAge' = badAge
        BY <1>1, <1>5, <1>8 DEF World
      <3>2. badAge <= 0 + AskTimeout
        BY <1>3, <1>4, <1>8
      <3> QED BY <3>1, <3>2 DEF VerdictInv
    <2>2. call.at = "refused"  BY <1>2, <1>8
    <2> HIDE DEF call, next
    <2>3. badAge <= NewsOf(call)  BY <1>2, <1>3, <1>4, <1>8 DEF NewsOf
    <2>4. CallInv(call)  BY <2>2, <2>3, <1>2, <1>4 DEF CallInv, Waiting
    <2> QED BY <1>1, <1>2, <1>6, <2>1, <2>4, OneCallMoves
  <1> QED BY <1>3, <1>7, <1>8

\* A failed question leaves the verdict and lets nobody in.
LEMMA FailureKeeps ==
    ASSUME KeysInv, NEW c \in KeyCallers, AuthFails(c) \/ RuntimeFails(c)
    PROVE  KeysInv'
  <1> DEFINE call == [keyCalls[c] EXCEPT !.at = "unavailable", !.waited = 0, !.heard = FALSE]
  <1>1. /\ "unavailable" \in KeyStages /\ Becomes(c, "unavailable")
        /\ verdict' = verdict /\ UNCHANGED World
    BY DEF AuthFails, RuntimeFails, AfterFailure, KeyStages
  <1>2. /\ keyCalls' = [keyCalls EXCEPT ![c] = call] /\ call \in Call
        /\ call.waited <= AskTimeout /\ call.at = "unavailable"
    BY <1>1, BecomesOne
  <1> HIDE DEF call
  <1>3. CallInv(call)  BY <1>2 DEF CallInv, Waiting
  <1> QED BY <1>1, <1>2, <1>3, OneCallMoves, VerdictStays

\* The runtime lets in whom it was told of, or everybody.
LEMMA RuntimeHearsKeeps ==
    ASSUME KeysInv, NEW c \in KeyCallers, RuntimeHears(c)
    PROVE  KeysInv'
  <1> DEFINE old == keyCalls[c]
              next == IF Admits(old) THEN "provider" ELSE "refused"
              call == [old EXCEPT !.at = next, !.waited = 0, !.heard = FALSE]
  <1>1. next \in KeyStages /\ Becomes(c, next) /\ verdict' = verdict /\ UNCHANGED World
    BY DEF RuntimeHears, KeyStages
  <1>2. /\ keyCalls' = [keyCalls EXCEPT ![c] = call] /\ call \in Call
        /\ call.waited <= AskTimeout /\ call.at = next /\ call.with = old.with
        /\ call.gated = old.gated /\ call.age = old.age /\ call.strict = old.strict
    <2> HIDE DEF next
    <2> QED BY <1>1, BecomesOne
  <1>3. /\ AskTimeout \in Nat /\ VerdictTTL \in Nat /\ old.age \in Nat
        /\ goodAge \in Nat /\ badAge \in Nat
    BY ApiKeysAssumption DEF ApiKeysAssumption, KeysInv, KeysShape, Call
  <1>4. /\ old.heard => old.with /\ goodAge <= old.age
        /\ old.with /\ ~old.heard => badAge <= old.age
        /\ old.gated => old.with /\ goodAge <= NewsOf(old)
    BY DEF RuntimeHears, KeysInv, CallInv
  <1> HIDE DEF old
  <1>5. NewsOf(call) = NewsOf(old) /\ old.age <= NewsOf(old)
    BY <1>2, <1>3 DEF NewsOf
  <1>6. CallInv(call)
    <2>1. CASE Admits(old)
      <3>1. call.at = "provider"  BY <1>2, <2>1
      <3>2. old.heard \/ ~old.strict  BY <2>1 DEF Admits
      <3> HIDE DEF call, next
      <3> QED BY <3>1, <3>2, <1>2, <1>4, <1>5 DEF CallInv, Waiting
    <2>2. CASE ~Admits(old)
      <3>1. call.at = "refused"  BY <1>2, <2>2
      <3>2. ~old.heard  BY <2>2 DEF Admits
      <3> HIDE DEF call, next
      <3>3. NewsOf(old) \in Nat /\ NewsOf(call) = NewsOf(old)
        BY <1>3, <1>5 DEF NewsOf
      <3>4. call.with => badAge <= NewsOf(call)
        BY <3>2, <3>3, <1>2, <1>3, <1>4, <1>5
      <3> QED BY <3>1, <3>4 DEF CallInv, Waiting
    <2> QED BY <2>1, <2>2
  <1> HIDE DEF call, next
  <1> QED BY <1>1, <1>2, <1>6, OneCallMoves, VerdictStays

\* A call that is over promises nothing.
LEMMA KeyCallEndsKeeps ==
    ASSUME KeysInv, NEW c \in KeyCallers, KeyCallEnds(c)
    PROVE  KeysInv'
  <1>1. NoCall \in Call /\ NoCall.waited <= AskTimeout /\ CallInv(NoCall)
    BY ApiKeysAssumption
       DEF ApiKeysAssumption, NoCall, Call, KeyStages, CallInv, Waiting
  <1>2. /\ keyCalls' = [keyCalls EXCEPT ![c] = NoCall] /\ verdict' = verdict
        /\ UNCHANGED World
    BY DEF KeyCallEnds
  <1> QED BY <1>1, <1>2, OneCallMoves, VerdictStays

\* Edits and a cleared cache leave nothing that is older than it was.
LEMMA EditsKeep ==
    ASSUME KeysInv, CacheIsCleared \/ EditKey \/ EditRequired
    PROVE  KeysInv'
  <1>1. /\ goodAge \in Nat /\ badAge \in Nat /\ AskTimeout \in Nat /\ VerdictTTL \in Nat
        /\ verdict.age \in Nat /\ verdict \in [good : BOOLEAN, age : Nat]
        /\ keyCalls \in [KeyCallers -> Call] /\ keyRequired \in BOOLEAN
    BY ApiKeysAssumption DEF ApiKeysAssumption, KeysInv, KeysShape
  <1>2. /\ keyCalls' = keyCalls /\ goodAge' \in {0, goodAge} /\ badAge' \in {0, badAge}
        /\ verdict' \in {verdict, NoVerdict}
    BY DEF CacheIsCleared, EditKey, EditRequired, World
  <1>3. KeysShape' /\ AgesInv'
    <2>1. CASE CacheIsCleared
      BY <1>1, <2>1 DEF CacheIsCleared, World, KeysInv, KeysShape, AgesInv, NoVerdict
    <2>2. CASE EditKey
      BY <1>1, <2>2 DEF EditKey, KeysInv, KeysShape, AgesInv
    <2>3. CASE EditRequired
      BY <1>1, <2>3 DEF EditRequired, KeysInv, KeysShape, AgesInv
    <2> QED BY <2>1, <2>2, <2>3
  <1>4. goodAge' <= goodAge /\ badAge' <= badAge /\ goodAge' \in Nat /\ badAge' \in Nat
    BY <1>1, <1>2
  <1>5. VerdictInv'
    <2>1. CASE verdict' = verdict
      BY <1>1, <1>4, <2>1 DEF KeysInv, VerdictInv
    <2>2. CASE verdict' = NoVerdict
      BY <1>1, <2>2 DEF VerdictInv, NoVerdict
    <2> QED BY <1>2, <2>1, <2>2
  <1>6. ASSUME NEW c \in KeyCallers PROVE CallInv(keyCalls[c])'
    <2> PICK call : call = keyCalls[c]  OBVIOUS
    <2>1. keyCalls'[c] = call /\ CallInv(call) /\ call.age \in Nat /\ call.waited \in Nat
      BY <1>1, <1>2 DEF KeysInv, Call
    <2>2. NewsOf(call) \in Nat  BY <1>1, <2>1 DEF NewsOf
    <2>3. ASSUME NEW limit \in Nat
          PROVE  (goodAge <= limit => goodAge' <= limit) /\ (badAge <= limit => badAge' <= limit)
      BY <1>1, <1>4
    <2>4. /\ goodAge <= call.waited => goodAge' <= call.waited
          /\ badAge <= call.waited => badAge' <= call.waited
          /\ goodAge <= call.age => goodAge' <= call.age
          /\ badAge <= call.age => badAge' <= call.age
          /\ goodAge <= NewsOf(call) => goodAge' <= NewsOf(call)
          /\ badAge <= NewsOf(call) => badAge' <= NewsOf(call)
      BY <2>1, <2>2, <2>3
    <2>5. CallInv(call)'
      BY <2>1, <2>4, Zenon DEF CallInv
    <2> QED BY <2>1, <2>5
  <1> QED BY <1>3, <1>5, <1>6 DEF KeysInv

\* An age grows by one at most.
LEMMA OlderByOne ==
    ASSUME NEW age \in Nat, NEW limit \in Nat
    PROVE  /\ Older(age, limit) \in Nat /\ Older(age, limit) <= age + 1
           /\ Older(age, limit) < limit => age < limit /\ Older(age, limit) = age + 1
  BY DEF Older

\* A question that still has time may wait a little longer.
LEMMA WaitedOne ==
    ASSUME NEW call \in Call, call.at \in Questions, call.waited < AskTimeout,
           CallInv(call), KeysShape,
           goodAge' \in Nat, badAge' \in Nat, goodAge' <= goodAge + 1, badAge' <= badAge + 1
    PROVE  LET new == [call EXCEPT !.age = @ + 1, !.waited = @ + 1] IN
           new \in Call /\ new.waited <= AskTimeout /\ CallInv(new)'
  <1> DEFINE later == [call EXCEPT !.age = @ + 1, !.waited = @ + 1]
  <1>1. /\ call.age \in Nat /\ call.waited \in Nat /\ AskTimeout \in Nat /\ VerdictTTL \in Nat
        /\ goodAge \in Nat /\ badAge \in Nat
    BY ApiKeysAssumption DEF ApiKeysAssumption, Call, KeysShape
  <1>0. /\ later \in Call /\ later.at = call.at /\ later.with = call.with
        /\ later.gated = call.gated /\ later.heard = call.heard
        /\ later.age = call.age + 1 /\ later.waited = call.waited + 1
    <2>1. ASSUME NEW a \in Nat, NEW w \in Nat
          PROVE  LET moved == [call EXCEPT !.age = a, !.waited = w] IN
                 /\ moved \in Call /\ moved.at = call.at /\ moved.with = call.with
                 /\ moved.gated = call.gated /\ moved.heard = call.heard
                 /\ moved.age = a /\ moved.waited = w
      BY DEF Call
    <2>2. call.age + 1 \in Nat /\ call.waited + 1 \in Nat
      BY <1>1
    <2> QED BY <2>1, <2>2
  <1> PICK new : new = later  OBVIOUS
  <1>2. /\ new \in Call /\ new.at = call.at /\ new.with = call.with /\ new.gated = call.gated
        /\ new.heard = call.heard /\ new.age = call.age + 1 /\ new.waited = call.waited + 1
    <2> HIDE DEF later
    <2> QED BY <1>0
  <1>3. call.at # "provider" /\ call.at # "refused"  BY DEF Questions
  <1>4. new.waited <= AskTimeout  BY <1>1, <1>2
  <1>5. /\ goodAge <= call.waited => goodAge' <= new.waited
        /\ badAge <= call.waited => badAge' <= new.waited
        /\ goodAge <= call.age => goodAge' <= new.age
        /\ badAge <= call.age => badAge' <= new.age
    BY <1>1, <1>2
  <1>6. goodAge <= NewsOf(call) => goodAge' <= NewsOf(new)
    BY <1>1, <1>2 DEF NewsOf
  <1>7. CallInv(new)'
    BY <1>2, <1>3, <1>5, <1>6, Zenon DEF CallInv
  <1> QED BY <1>2, <1>4, <1>7

\* Time passes, for what is true of the key and for what was heard of it.
LEMMA KeyTickKeeps ==
    ASSUME KeysInv, KeyTick
    PROVE  KeysInv'
  <1>1. /\ goodAge \in Nat /\ badAge \in Nat /\ AskTimeout \in Nat /\ VerdictTTL \in Nat
        /\ verdict.age \in Nat /\ verdict \in [good : BOOLEAN, age : Nat] /\ LongAgo \in Nat
        /\ keyCalls \in [KeyCallers -> Call]
    BY ApiKeysAssumption DEF ApiKeysAssumption, KeysInv, KeysShape, LongAgo
  <1>2. /\ Older(goodAge, LongAgo) \in Nat /\ Older(goodAge, LongAgo) <= goodAge + 1
        /\ Older(badAge, LongAgo) \in Nat /\ Older(badAge, LongAgo) <= badAge + 1
    BY <1>1, OlderByOne
  <1>3. /\ goodAge' \in Nat /\ goodAge' <= goodAge + 1
        /\ badAge' \in Nat /\ badAge' <= badAge + 1
    <2>1. /\ goodAge' = IF keyIs = "active" THEN 0 ELSE Older(goodAge, LongAgo)
          /\ badAge' = IF keyIs = "active" THEN Older(badAge, LongAgo) ELSE 0
      BY DEF KeyTick
    <2> HIDE DEF Older, LongAgo
    <2> QED BY <1>1, <1>2, <2>1
  <1>4. AgesInv'  BY DEF KeyTick, AgesInv
  <1>5. ASSUME NEW c \in KeyCallers
        PROVE  /\ keyCalls'[c] \in Call /\ keyCalls'[c].waited <= AskTimeout
               /\ CallInv(keyCalls[c])'
    <2>1. CASE keyCalls[c].at = "none"
      <3>1. keyCalls'[c] = NoCall  BY <2>1 DEF KeyTick
      <3>2. NoCall \in Call /\ NoCall.waited <= AskTimeout
        BY <1>1 DEF NoCall, Call, KeyStages
      <3>3. CallInv(keyCalls[c])'
        BY <3>1 DEF NoCall, CallInv, Waiting
      <3> QED BY <3>1, <3>2, <3>3
    <2>2. CASE keyCalls[c].at # "none"
      <3> PICK call : call = keyCalls[c]  OBVIOUS
      <3> DEFINE new == [call EXCEPT !.age = @ + 1, !.waited = @ + 1]
      <3>1. call.at \in Questions /\ call.waited < AskTimeout /\ keyCalls'[c] = new
        BY <2>2 DEF KeyTick
      <3>2. call \in Call /\ CallInv(call) /\ KeysShape
        BY <1>1 DEF KeysInv
      <3>3. new \in Call /\ new.waited <= AskTimeout /\ CallInv(new)'
        BY <1>3, <3>1, <3>2, WaitedOne
      <3> HIDE DEF new
      <3>4. CallInv(keyCalls[c])'
        BY <3>1, <3>3 DEF CallInv
      <3> QED BY <3>1, <3>3, <3>4
    <2> QED BY <2>1, <2>2
  <1>6. keyCalls' \in [KeyCallers -> Call]
    <2>1. keyCalls' = [c \in KeyCallers |-> keyCalls'[c]]
      BY DEF KeyTick
    <2> QED BY <2>1, <1>5
  <1>7. /\ verdict'.good = verdict.good /\ verdict'.age = Older(verdict.age, VerdictTTL)
        /\ verdict' \in [good : BOOLEAN, age : Nat]
    BY <1>1, OlderByOne DEF KeyTick
  <1>8. KeysShape'
    BY <1>3, <1>5, <1>6, <1>7 DEF KeysInv, KeysShape, KeyTick
  <1>9. VerdictInv'
    <2> SUFFICES ASSUME verdict'.age < VerdictTTL
                  PROVE  /\ verdict'.good => goodAge' <= verdict'.age + AskTimeout
                         /\ ~verdict'.good => badAge' <= verdict'.age + AskTimeout
      BY DEF VerdictInv
    <2>1. verdict.age < VerdictTTL /\ verdict'.age = verdict.age + 1
      <3>1. /\ Older(verdict.age, VerdictTTL) < VerdictTTL =>
                 verdict.age < VerdictTTL /\ Older(verdict.age, VerdictTTL) = verdict.age + 1
        BY <1>1, OlderByOne
      <3>2. Older(verdict.age, VerdictTTL) < VerdictTTL
        BY <1>7
      <3> QED BY <3>1, <3>2, <1>7
    <2>2. /\ verdict.good => goodAge <= verdict.age + AskTimeout
          /\ ~verdict.good => badAge <= verdict.age + AskTimeout
      BY <2>1 DEF KeysInv, VerdictInv
    <2>3. /\ goodAge <= verdict.age + AskTimeout => goodAge' <= verdict'.age + AskTimeout
          /\ badAge <= verdict.age + AskTimeout => badAge' <= verdict'.age + AskTimeout
      BY <2>1, <1>1, <1>3
    <2> QED BY <2>2, <2>3, <1>7
  <1> QED BY <1>4, <1>5, <1>8, <1>9 DEF KeysInv

\* What is known of the key survives every step.
LEMMA KeysStep == KeysInv /\ [KeysNext]_keyVars => KeysInv'
  <1> SUFFICES ASSUME KeysInv, [KeysNext]_keyVars PROVE KeysInv'
    OBVIOUS
  <1>1. ASSUME NEW c \in KeyCallers, NEW with \in BOOLEAN, NEW gated \in BOOLEAN,
               Present(c, with, gated)
        PROVE  KeysInv'
    BY <1>1, PresentKeeps
  <1>2. ASSUME NEW c \in KeyCallers,
               \/ AuthLooks(c) \/ StateReads(c) \/ AuthHears(c) \/ AuthFails(c)
               \/ RuntimeHears(c) \/ RuntimeFails(c) \/ KeyCallEnds(c)
        PROVE  KeysInv'
    BY <1>2, AuthLooksKeeps, StateReadsKeeps, AuthHearsKeeps, FailureKeeps,
       RuntimeHearsKeeps, KeyCallEndsKeeps
  <1>3. CASE CacheIsCleared \/ EditKey \/ EditRequired
    BY <1>3, EditsKeep
  <1>4. CASE KeyTick
    BY <1>4, KeyTickKeeps
  <1>5. CASE UNCHANGED keyVars
    BY <1>5 DEF keyVars, KeysInv, KeysShape, AgesInv, VerdictInv, CallInv, NewsOf
  <1> QED BY <1>1, <1>2, <1>3, <1>4, <1>5 DEF KeysNext

\* And what is known says what the keys promise.
LEMMA KeysMean == KeysInv => KeysHold
  BY DEF KeysInv, CallInv, KeysHold, ProviderIsReachedWithAKey, RefusedForAReason

-----------------------------------------------------------------------------
(* Signing in through a provider. *)

Stages == {"login", "starting", "discovering", "replying", "provider", "returning",
           "finishing", "rediscovering", "exchanging", "verifying", "refused", "signed"}
Answered == {"none", "code", "declined", "blank"}
Told == {"nothing", "go", "session", "not configured", "state unavailable", "discovery",
         "declined", "missing code", "invalid state", "missing response",
         "request mismatch", "cannot be verified", "exchange", "missing id_token", "id_token"}
Happenings == {"off", "outage", "provider out", "edited", "overtaken", "expired",
               "resent", "declined", "blank"}
Tab == [at : Stages, kind : {"oidc", "saml"}, flow : Nat, by : Registrations \cup {Off},
        now : Registrations \cup {Off}, sent : Nat, answer : Answered, said : Told,
        why : SUBSET Happenings]

SignOnShape ==
    /\ registered \in Registrations \cup {Off}
    /\ jar \in [{"oidc", "saml"} -> Nat]
    /\ tabs \in [Tabs -> Tab]
    /\ minted \in Seq(Nat) /\ spent \subseteq 1..flows /\ flows \in Nat

\* A flow is one tab's, and the numbers to come are nobody's.
FlowsApart ==
    /\ \A t \in Tabs : tabs[t].flow <= flows
    /\ \A t, u \in Tabs : t # u /\ tabs[t].flow # 0 => tabs[t].flow # tabs[u].flow

\* Where the tab is and what it has been told go together.
LegsInv(tab) ==
    /\ tab.at \in {"starting", "discovering"} => tab.answer = "none" /\ tab.said = "nothing"
    /\ tab.at = "discovering" => tab.kind = "oidc"
    /\ tab.said = "go" =>
          /\ tab.at \in {"replying", "provider", "returning"} /\ tab.flow # 0
          /\ tab.at = "replying" => tab.answer = "none"
    /\ tab.at = "provider" => tab.answer = "none" /\ tab.flow # 0
    /\ tab.at = "returning" => tab.answer # "none"
    /\ tab.answer # "none" => tab.flow # 0
    /\ tab.answer \in {"blank", "declined"} => tab.answer \in tab.why
    /\ tab.kind = "saml" => tab.answer # "declined"
    /\ tab.at \in {"finishing", "rediscovering", "exchanging", "verifying"} =>
          tab.kind = "oidc" /\ tab.answer = "code" /\ tab.sent = tab.flow
    /\ "resent" \in tab.why =>
          tab.answer # "none" /\ tab.at \in {"returning", "replying", "refused", "signed"}

\* A sign-in that has not been given up has its code before it.
Fresh(tab) ==
    \/ tab.at \in {"provider", "finishing", "rediscovering", "exchanging"}
    \/ tab.at = "returning" /\ "resent" \notin tab.why
    \/ tab.at = "replying" /\ tab.said = "go"

CodeInv(tab) ==
    /\ Fresh(tab) => tab.flow \notin spent
    /\ tab.at = "verifying" =>
          tab.by = tab.now /\ tab.flow \in spent /\ \A i \in DOMAIN minted : minted[i] # tab.flow
    /\ tab.said = "session" =>
          /\ tab.at = "replying" /\ tab.kind = "oidc" /\ tab.answer = "code"
          /\ tab.flow \in spent /\ tab.sent = tab.flow /\ tab.by = tab.now

\* An edit of the settings is known to every sign-in it falls into.
SettingsInv(tab) ==
    /\ InFlight(tab) => OffFor(tab.kind, registered, samlSet) \subseteq tab.why
    /\ tab.kind = "oidc" /\ (tab.at = "discovering" \/ Fresh(tab)) =>
          IF tab.at \in {"rediscovering", "exchanging"}
          THEN tab.by = tab.now \/ "edited" \in tab.why
          ELSE tab.by = registered \/ "edited" \in tab.why

\* The jar has the flow of a tab on its way, or something happened to the tab; it
\* has no flow that ended.
JarInv(tab) ==
    /\ tab.at \in {"provider", "returning"} =>
          jar[tab.kind] = tab.flow \/ tab.why \cap {"overtaken", "expired", "resent"} # {}
    /\ ("resent" \in tab.why \/ ~InFlight(tab)) /\ tab.answer # "none" =>
          jar[tab.kind] # tab.flow

ReasonInv(tab) ==
    tab.at = "replying" /\ tab.said \notin {"go", "session", "cannot be verified"} =>
        tab.why \cap Causes(tab.said) # {}

TabInv(tab) == LegsInv(tab) /\ CodeInv(tab) /\ SettingsInv(tab) /\ JarInv(tab) /\ ReasonInv(tab)

MintedInv ==
    /\ \A i \in DOMAIN minted : minted[i] \in spent
    /\ IsInjective(minted)

SignOnInvariant == SignOnShape /\ FlowsApart /\ MintedInv /\ \A t \in Tabs : TabInv(tabs[t])

\* What happens to a tab while it waits leaves the rest of it alone.
OnlyHears(t) ==
    /\ tabs'[t] \in Tab
    /\ tabs'[t].at = tabs[t].at /\ tabs'[t].kind = tabs[t].kind
    /\ tabs'[t].flow = tabs[t].flow /\ tabs'[t].by = tabs[t].by
    /\ tabs'[t].now = tabs[t].now /\ tabs'[t].sent = tabs[t].sent
    /\ tabs'[t].answer = tabs[t].answer /\ tabs'[t].said = tabs[t].said
    /\ tabs[t].why \subseteq tabs'[t].why
    /\ "resent" \in tabs'[t].why => "resent" \in tabs[t].why

\* At the start no tab signs in.
LEMMA SignOnInitially == SignOnInit => SignOnInvariant
  <1> SUFFICES ASSUME SignOnInit PROVE SignOnInvariant
    OBVIOUS
  <1>1. SignOnShape
    <2>1. AtLogin \in Tab
      BY DEF AtLogin, Tab, Stages, Answered, Told, Happenings
    <2>2. registered \in Registrations \cup {Off}
      BY SignOnAssumption DEF SignOnInit
    <2> QED BY <2>1, <2>2 DEF SignOnInit, SignOnShape
  <1>2. /\ FlowsApart /\ MintedInv
        /\ DOMAIN minted = {} /\ spent = {} /\ \A t \in Tabs : tabs[t] = AtLogin
    BY DEF SignOnInit, FlowsApart, MintedInv, IsInjective, AtLogin
  <1>3. ~InFlight(AtLogin) /\ ~Fresh(AtLogin)
    BY DEF AtLogin, InFlight, Fresh
  <1>4. TabInv(AtLogin)
    BY <1>3 DEF AtLogin, TabInv, LegsInv, CodeInv, SettingsInv, JarInv, ReasonInv
  <1> QED BY <1>1, <1>2, <1>4 DEF SignOnInvariant

\* The steps of one tab, outside the jar and the settings, leave the others alone.
LEMMA OthersStay ==
    ASSUME SignOnInvariant, NEW t \in Tabs,
           tabs' \in [Tabs -> Tab], \A u \in Tabs \ {t} : tabs'[u] = tabs[u],
           UNCHANGED <<registered, samlSet, jar>>,
           TabInv(tabs[t])',
           \/ flows' = flows /\ tabs'[t].flow \in {0, tabs[t].flow}
           \/ flows' = flows + 1 /\ tabs'[t].flow = flows + 1,
           \/ spent' = spent
           \/ spent' = spent \cup {tabs[t].flow} /\ tabs[t].flow # 0,
           \/ minted' = minted
           \/ minted' = Append(minted, tabs[t].flow) /\ tabs[t].at = "verifying"
    PROVE  SignOnInvariant'
  <1>1. /\ SignOnShape /\ FlowsApart /\ MintedInv /\ \A u \in Tabs : TabInv(tabs[u])
        /\ tabs[t] \in Tab
    BY DEF SignOnInvariant, SignOnShape
  <1>2. /\ tabs[t].flow \in Nat /\ tabs[t].flow <= flows
        /\ minted \in Seq(Nat) /\ DOMAIN minted = 1..Len(minted) /\ flows \in Nat
        /\ flows' \in Nat /\ flows' >= flows
    BY <1>1 DEF SignOnShape, FlowsApart, Tab
  <1>3. /\ minted' \in Seq(Nat)
        /\ \A i \in DOMAIN minted' :
              \/ i \in DOMAIN minted /\ minted'[i] = minted[i]
              \/ /\ i \notin DOMAIN minted /\ minted'[i] = tabs[t].flow
                 /\ tabs[t].at = "verifying" /\ i = Len(minted) + 1
    <2>1. CASE minted' = minted
      BY <1>2, <2>1
    <2>2. CASE minted' = Append(minted, tabs[t].flow) /\ tabs[t].at = "verifying"
      BY <1>2, <2>2, AppendProperties
    <2> QED BY <2>1, <2>2
  <1>4. spent \subseteq spent' /\ spent' \subseteq 1..flows'
    <2>1. 1..flows \subseteq 1..flows'
      BY <1>2
    <2>2. tabs[t].flow # 0 => tabs[t].flow \in 1..flows
      BY <1>2
    <2>3. spent \subseteq 1..flows
      BY <1>1 DEF SignOnShape
    <2> QED BY <2>1, <2>2, <2>3
  <1>5. SignOnShape'
    BY <1>1, <1>3, <1>4 DEF SignOnShape
  <1>6. FlowsApart'
    <2>1. \A u \in Tabs : tabs[u].flow \in Nat /\ tabs[u].flow <= flows
      BY <1>1 DEF SignOnShape, FlowsApart, Tab
    <2> QED BY <1>1, <1>2, <2>1 DEF FlowsApart
  <1>7. MintedInv'
    <2>1. tabs[t].at = "verifying" =>
             tabs[t].flow \in spent /\ \A i \in DOMAIN minted : minted[i] # tabs[t].flow
      BY <1>1 DEF TabInv, CodeInv
    <2>2. \A i \in DOMAIN minted' : minted'[i] \in spent'
      BY <1>1, <1>3, <1>4, <2>1 DEF MintedInv
    <2>3. \A i, j \in DOMAIN minted' : minted'[i] = minted'[j] => i = j
      BY <1>1, <1>3, <2>1 DEF MintedInv, IsInjective
    <2> QED BY <2>2, <2>3 DEF MintedInv, IsInjective
  <1>8. ASSUME NEW u \in Tabs, u # t PROVE TabInv(tabs[u])'
    <2>1. tabs'[u] = tabs[u] /\ TabInv(tabs[u])
      BY <1>1, <1>8
    <2>2. CodeInv(tabs[u])'
      <3>1. Fresh(tabs[u]) => tabs[u].flow # tabs[t].flow
        BY <1>1, <1>8 DEF Fresh, FlowsApart, TabInv, LegsInv, CodeInv
      <3>2. tabs[u].at = "verifying" => tabs[u].flow # tabs[t].flow
        BY <1>1, <1>8, <2>1 DEF FlowsApart, TabInv, LegsInv
      <3> QED BY <1>3, <1>4, <2>1, <3>1, <3>2 DEF TabInv, CodeInv, Fresh
    <2>3. LegsInv(tabs[u])' /\ ReasonInv(tabs[u])'
      BY <2>1 DEF TabInv, LegsInv, ReasonInv
    <2>4. SettingsInv(tabs[u])' /\ JarInv(tabs[u])'
      BY <2>1 DEF TabInv, SettingsInv, JarInv, Fresh
    <2> QED BY <2>2, <2>3, <2>4 DEF TabInv
  <1> QED BY <1>5, <1>6, <1>7, <1>8 DEF SignOnInvariant

\* The invariant of the tab that moves, from what it was.
LEMMA TabOf ==
    ASSUME SignOnInvariant, NEW t \in Tabs
    PROVE  /\ tabs[t] \in Tab /\ tabs \in [Tabs -> Tab] /\ flows \in Nat
           /\ LegsInv(tabs[t]) /\ CodeInv(tabs[t]) /\ SettingsInv(tabs[t])
           /\ JarInv(tabs[t]) /\ ReasonInv(tabs[t])
           /\ tabs[t].flow \in Nat /\ tabs[t].flow <= flows
           /\ spent \subseteq 1..flows /\ registered \in Registrations \cup {Off}
           /\ jar["oidc"] \in Nat /\ jar["saml"] \in Nat
  BY DEF SignOnInvariant, SignOnShape, TabInv, FlowsApart, Tab

\* A step of one tab: its own record changes, within its type.
OnlyTab(t) ==
    /\ tabs' \in [Tabs -> Tab] /\ \A u \in Tabs \ {t} : tabs'[u] = tabs[u]
    /\ UNCHANGED <<registered, samlSet, jar>>

\* A handler that refuses has a reason, whichever it is.
LEMMA RefusalKeeps ==
    ASSUME SignOnInvariant, NEW t \in Tabs, OnlyTab(t),
           UNCHANGED <<minted, flows>>,
           spent' = spent \/ (spent' = spent \cup {tabs[t].flow} /\ tabs[t].flow # 0),
           tabs[t].at \in {"starting", "discovering", "returning", "finishing",
                           "rediscovering", "exchanging", "verifying"},
           tabs'[t].at = "replying", tabs'[t].said \notin {"go", "session"},
           tabs'[t].kind = tabs[t].kind, tabs'[t].flow = tabs[t].flow,
           tabs'[t].answer = tabs[t].answer,
           tabs[t].why \subseteq tabs'[t].why,
           "resent" \in tabs'[t].why => "resent" \in tabs[t].why,
           tabs'[t].said # "cannot be verified" =>
               tabs'[t].why \cap Causes(tabs'[t].said) # {}
    PROVE  SignOnInvariant'
  <1>1. /\ LegsInv(tabs[t]) /\ SettingsInv(tabs[t]) /\ JarInv(tabs[t])
        /\ flows \in Nat /\ tabs[t].flow \in Nat
    BY TabOf
  <1>2. /\ tabs' \in [Tabs -> Tab] /\ \A u \in Tabs \ {t} : tabs'[u] = tabs[u]
        /\ UNCHANGED <<registered, samlSet, jar>>
    BY DEF OnlyTab
  <1>3. ~Fresh(tabs'[t]) /\ InFlight(tabs[t])
    BY DEF Fresh, InFlight
  <1>4. LegsInv(tabs[t])'
    BY <1>1 DEF LegsInv
  <1>5. CodeInv(tabs[t])'
    BY <1>3 DEF CodeInv, Fresh
  <1>6. SettingsInv(tabs[t])'
    BY <1>1, <1>2, <1>3 DEF SettingsInv, Fresh, InFlight
  <1>7. JarInv(tabs[t])'
    BY <1>1, <1>2 DEF JarInv, InFlight
  <1>8. ReasonInv(tabs[t])'
    BY DEF ReasonInv
  <1>9. flows' = flows /\ tabs'[t].flow \in {0, tabs[t].flow}
    OBVIOUS
  <1>10. TabInv(tabs[t])'
    BY <1>4, <1>5, <1>6, <1>7, <1>8 DEF TabInv
  <1> QED BY <1>2, <1>9, <1>10, OthersStay

\* So does one that answers with a reason of its own or what it has met before.
LEMMA AnswersKeeps ==
    ASSUME SignOnInvariant, NEW t \in Tabs, NEW said \in Told \ {"go", "session"},
           NEW what \in SUBSET Happenings, "resent" \notin what, Answers(t, said, what),
           UNCHANGED <<registered, samlSet, jar, minted, flows>>,
           spent' = spent \/ (spent' = spent \cup {tabs[t].flow} /\ tabs[t].flow # 0),
           tabs[t].at \in {"starting", "discovering", "returning", "finishing",
                           "rediscovering", "exchanging", "verifying"},
           (tabs[t].why \cup what) \cap Causes(said) # {}
    PROVE  SignOnInvariant'
  <1>1. /\ tabs[t] \in Tab /\ tabs \in [Tabs -> Tab] /\ said \in Told
        /\ tabs[t].why \cup what \in SUBSET Happenings
    BY TabOf DEF Tab
  <1>2. tabs' = [tabs EXCEPT ![t].at = "replying", ![t].said = said,
                             ![t].why = tabs[t].why \cup what]
    BY DEF Answers
  <1>3. OnlyTab(t)
    <2>1. tabs' \in [Tabs -> Tab] /\ \A u \in Tabs \ {t} : tabs'[u] = tabs[u]
      BY <1>1, <1>2 DEF Tab, Stages
    <2> QED BY <2>1 DEF OnlyTab
  <1>4. /\ tabs'[t].at = "replying" /\ tabs'[t].kind = tabs[t].kind
        /\ tabs'[t].flow = tabs[t].flow /\ tabs'[t].answer = tabs[t].answer
        /\ tabs'[t].why = tabs[t].why \cup what /\ tabs'[t].said = said
    BY <1>1, <1>2 DEF Tab
  <1> QED BY <1>3, <1>4, RefusalKeeps

\* A sign-in starts over.
LEMMA StartKeeps ==
    ASSUME SignOnInvariant, NEW t \in Tabs, NEW kind \in {"oidc", "saml"}, Start(t, kind)
    PROVE  SignOnInvariant'
  <1>1. tabs \in [Tabs -> Tab] /\ flows \in Nat
    BY TabOf
  <1>2. UNCHANGED <<registered, samlSet, jar, minted, spent, flows>>
    BY DEF Start, SsoSettings
  <1>3. OffFor(kind, registered, samlSet) \subseteq {"off"}
    BY DEF OffFor
  <1>4. tabs' \in [Tabs -> Tab] /\ \A u \in Tabs \ {t} : tabs'[u] = tabs[u]
    BY <1>1, <1>3 DEF Start, AtLogin, Tab, Stages, Answered, Told, Happenings
  <1>5. /\ tabs'[t].at = "starting" /\ tabs'[t].kind = kind /\ tabs'[t].flow = 0
        /\ tabs'[t].answer = "none" /\ tabs'[t].said = "nothing"
        /\ tabs'[t].why = OffFor(kind, registered, samlSet)
    BY <1>1 DEF Start, AtLogin
  <1>6. LegsInv(tabs[t])' /\ CodeInv(tabs[t])' /\ ReasonInv(tabs[t])'
    BY <1>3, <1>5 DEF LegsInv, CodeInv, ReasonInv, Fresh
  <1>7. SettingsInv(tabs[t])' /\ JarInv(tabs[t])'
    BY <1>2, <1>5 DEF SettingsInv, JarInv, Fresh, InFlight
  <1>8. tabs'[t].flow \in {0, tabs[t].flow} /\ flows' = flows
    BY <1>2, <1>5
  <1>9. TabInv(tabs[t])'
    BY <1>6, <1>7 DEF TabInv
  <1> QED BY <1>2, <1>4, <1>8, <1>9, OthersStay

\* The settings name a registration, or none, or do not come.
LEMMA StartReadsSettingsKeeps ==
    ASSUME SignOnInvariant, NEW t \in Tabs, StartReadsSettings(t)
    PROVE  SignOnInvariant'
  <1>1. /\ tabs[t] \in Tab /\ tabs \in [Tabs -> Tab] /\ flows \in Nat /\ flows + 1 \in Nat
        /\ tabs[t].flow \in Nat /\ tabs[t].flow <= flows
        /\ registered \in Registrations \cup {Off}
        /\ jar["oidc"] \in Nat /\ jar["saml"] \in Nat
    BY TabOf
  <1>2. /\ LegsInv(tabs[t]) /\ CodeInv(tabs[t]) /\ SettingsInv(tabs[t])
        /\ JarInv(tabs[t]) /\ spent \subseteq 1..flows
    BY TabOf
  <1>3. UNCHANGED <<registered, samlSet, jar>>
    BY DEF StartReadsSettings, SsoSettings
  <1>4. CASE /\ tabs' = [tabs EXCEPT ![t].at = "discovering",
                               ![t].by = registered]
             /\ tabs[t].at = "starting" /\ tabs[t].kind = "oidc"
             /\ UNCHANGED <<minted, spent, flows>>
    <2>1. tabs' \in [Tabs -> Tab] /\ \A u \in Tabs \ {t} : tabs'[u] = tabs[u]
      BY <1>1, <1>4 DEF Tab, Stages, Answered, Told, Happenings
    <2>2. /\ tabs'[t].at = "discovering" /\ tabs'[t].kind = tabs[t].kind
          /\ tabs'[t].flow = tabs[t].flow
          /\ tabs'[t].by = registered /\ tabs'[t].now = tabs[t].now
          /\ tabs'[t].sent = tabs[t].sent
          /\ tabs'[t].answer = tabs[t].answer /\ tabs'[t].said = tabs[t].said
          /\ tabs'[t].why = tabs[t].why
      BY <1>1, <1>4 DEF Tab
    <2>3. LegsInv(tabs[t])'
      BY <1>1, <1>2, <1>4, <2>2 DEF LegsInv
    <2>4. CodeInv(tabs[t])'
      BY <1>1, <1>2, <1>4, <2>2 DEF LegsInv, CodeInv, Fresh
    <2>5. SettingsInv(tabs[t])'
      BY <1>2, <1>3, <1>4, <2>2 DEF LegsInv, SettingsInv, Fresh, InFlight, OffFor
    <2>6. JarInv(tabs[t])'
      BY <1>2, <1>3, <1>4, <2>2 DEF LegsInv, JarInv, InFlight
    <2>7. TabInv(tabs[t])'
      BY <2>2, <2>3, <2>4, <2>5, <2>6 DEF TabInv, ReasonInv
    <2>8. \/ flows' = flows /\ tabs'[t].flow \in {0, tabs[t].flow}
          \/ flows' = flows + 1 /\ tabs'[t].flow = flows + 1
      BY <1>4, <2>2
    <2> QED BY <1>1, <1>2, <1>3, <1>4, <2>1, <2>7, <2>8, OthersStay DEF LegsInv
  <1>5. CASE Answers(t, "not configured", {}) /\ registered = Off /\ tabs[t].at = "starting"
               /\ tabs[t].kind = "oidc" /\ UNCHANGED <<minted, spent, flows>>
    <2>1. (tabs[t].why \cup {}) \cap Causes("not configured") # {}
      BY <1>2, <1>5 DEF Causes, LegsInv, SettingsInv, OffFor, InFlight
    <2> QED BY <1>2, <1>3, <1>5, <2>1, AnswersKeeps DEF Fails, Told, Happenings, LegsInv
  <1>6. CASE Fails(t, "state unavailable", "outage") /\ tabs[t].at = "starting"
               /\ tabs[t].kind = "oidc" /\ UNCHANGED <<minted, spent, flows>>
    <2>1. (tabs[t].why \cup {"outage"}) \cap Causes("state unavailable") # {}
      BY <1>2, <1>6 DEF Causes, LegsInv, SettingsInv, OffFor, InFlight
    <2> QED BY <1>2, <1>3, <1>6, <2>1, AnswersKeeps DEF Fails, Told, Happenings, LegsInv
  <1> QED BY <1>4, <1>5, <1>6 DEF StartReadsSettings

\* The provider is found, and the sign-in gets its flow.
LEMMA StartDiscoversKeeps ==
    ASSUME SignOnInvariant, NEW t \in Tabs, StartDiscovers(t)
    PROVE  SignOnInvariant'
  <1>1. /\ tabs[t] \in Tab /\ tabs \in [Tabs -> Tab] /\ flows \in Nat /\ flows + 1 \in Nat
        /\ tabs[t].flow \in Nat /\ tabs[t].flow <= flows
        /\ registered \in Registrations \cup {Off}
        /\ jar["oidc"] \in Nat /\ jar["saml"] \in Nat
    BY TabOf
  <1>2. /\ LegsInv(tabs[t]) /\ CodeInv(tabs[t]) /\ SettingsInv(tabs[t])
        /\ JarInv(tabs[t]) /\ spent \subseteq 1..flows
    BY TabOf
  <1>3. UNCHANGED <<registered, samlSet, jar>>
    BY DEF StartDiscovers, SsoSettings
  <1>4. CASE /\ tabs' = [tabs EXCEPT ![t].at = "replying",
                               ![t].said = "go",
                               ![t].flow = flows + 1]
             /\ tabs[t].at = "discovering"
             /\ flows' = flows + 1
             /\ UNCHANGED <<minted, spent>>
    <2>1. tabs' \in [Tabs -> Tab] /\ \A u \in Tabs \ {t} : tabs'[u] = tabs[u]
      BY <1>1, <1>4 DEF Tab, Stages, Answered, Told, Happenings
    <2>2. /\ tabs'[t].at = "replying" /\ tabs'[t].kind = tabs[t].kind
          /\ tabs'[t].flow = flows + 1
          /\ tabs'[t].by = tabs[t].by /\ tabs'[t].now = tabs[t].now
          /\ tabs'[t].sent = tabs[t].sent
          /\ tabs'[t].answer = tabs[t].answer /\ tabs'[t].said = "go"
          /\ tabs'[t].why = tabs[t].why
      BY <1>1, <1>4 DEF Tab
    <2>3. LegsInv(tabs[t])'
      BY <1>1, <1>2, <1>4, <2>2 DEF LegsInv
    <2>4. CodeInv(tabs[t])'
      BY <1>1, <1>2, <1>4, <2>2 DEF LegsInv, CodeInv, Fresh
    <2>5. SettingsInv(tabs[t])'
      BY <1>2, <1>3, <1>4, <2>2 DEF LegsInv, SettingsInv, Fresh, InFlight, OffFor
    <2>6. JarInv(tabs[t])'
      BY <1>2, <1>3, <1>4, <2>2 DEF LegsInv, JarInv, InFlight
    <2>7. TabInv(tabs[t])'
      BY <2>2, <2>3, <2>4, <2>5, <2>6 DEF TabInv, ReasonInv
    <2>8. \/ flows' = flows /\ tabs'[t].flow \in {0, tabs[t].flow}
          \/ flows' = flows + 1 /\ tabs'[t].flow = flows + 1
      BY <1>4, <2>2
    <2> QED BY <1>1, <1>2, <1>3, <1>4, <2>1, <2>7, <2>8, OthersStay DEF LegsInv
  <1>5. CASE Fails(t, "discovery", "provider out") /\ tabs[t].at = "discovering"
               /\ UNCHANGED <<minted, spent, flows>>
    <2>1. (tabs[t].why \cup {"provider out"}) \cap Causes("discovery") # {}
      BY <1>2, <1>5 DEF Causes, LegsInv, SettingsInv, OffFor, InFlight
    <2> QED BY <1>2, <1>3, <1>5, <2>1, AnswersKeeps DEF Fails, Told, Happenings, LegsInv
  <1> QED BY <1>4, <1>5 DEF StartDiscovers

\* A SAML sign-in gets its flow if there is a configuration.
LEMMA SamlStartsKeeps ==
    ASSUME SignOnInvariant, NEW t \in Tabs, SamlStarts(t)
    PROVE  SignOnInvariant'
  <1>1. /\ tabs[t] \in Tab /\ tabs \in [Tabs -> Tab] /\ flows \in Nat /\ flows + 1 \in Nat
        /\ tabs[t].flow \in Nat /\ tabs[t].flow <= flows
        /\ registered \in Registrations \cup {Off}
        /\ jar["oidc"] \in Nat /\ jar["saml"] \in Nat
    BY TabOf
  <1>2. /\ LegsInv(tabs[t]) /\ CodeInv(tabs[t]) /\ SettingsInv(tabs[t])
        /\ JarInv(tabs[t]) /\ spent \subseteq 1..flows
    BY TabOf
  <1>3. UNCHANGED <<registered, samlSet, jar>>
    BY DEF SamlStarts, SsoSettings
  <1>4. CASE /\ tabs' = [tabs EXCEPT ![t].at = "replying",
                               ![t].said = "go",
                               ![t].flow = flows + 1]
             /\ tabs[t].at = "starting" /\ tabs[t].kind = "saml"
             /\ flows' = flows + 1
             /\ UNCHANGED <<minted, spent>>
    <2>1. tabs' \in [Tabs -> Tab] /\ \A u \in Tabs \ {t} : tabs'[u] = tabs[u]
      BY <1>1, <1>4 DEF Tab, Stages, Answered, Told, Happenings
    <2>2. /\ tabs'[t].at = "replying" /\ tabs'[t].kind = tabs[t].kind
          /\ tabs'[t].flow = flows + 1
          /\ tabs'[t].by = tabs[t].by /\ tabs'[t].now = tabs[t].now
          /\ tabs'[t].sent = tabs[t].sent
          /\ tabs'[t].answer = tabs[t].answer /\ tabs'[t].said = "go"
          /\ tabs'[t].why = tabs[t].why
      BY <1>1, <1>4 DEF Tab
    <2>3. LegsInv(tabs[t])'
      BY <1>1, <1>2, <1>4, <2>2 DEF LegsInv
    <2>4. CodeInv(tabs[t])'
      BY <1>1, <1>2, <1>4, <2>2 DEF LegsInv, CodeInv, Fresh
    <2>5. SettingsInv(tabs[t])'
      BY <1>2, <1>3, <1>4, <2>2 DEF LegsInv, SettingsInv, Fresh, InFlight, OffFor
    <2>6. JarInv(tabs[t])'
      BY <1>2, <1>3, <1>4, <2>2 DEF LegsInv, JarInv, InFlight
    <2>7. TabInv(tabs[t])'
      BY <2>2, <2>3, <2>4, <2>5, <2>6 DEF TabInv, ReasonInv
    <2>8. \/ flows' = flows /\ tabs'[t].flow \in {0, tabs[t].flow}
          \/ flows' = flows + 1 /\ tabs'[t].flow = flows + 1
      BY <1>4, <2>2
    <2> QED BY <1>1, <1>2, <1>3, <1>4, <2>1, <2>7, <2>8, OthersStay DEF LegsInv
  <1>5. CASE Answers(t, "not configured", {}) /\ ~samlSet /\ tabs[t].at = "starting"
               /\ tabs[t].kind = "saml" /\ UNCHANGED <<minted, spent, flows>>
    <2>1. (tabs[t].why \cup {}) \cap Causes("not configured") # {}
      BY <1>2, <1>5 DEF Causes, LegsInv, SettingsInv, OffFor, InFlight
    <2> QED BY <1>2, <1>3, <1>5, <2>1, AnswersKeeps DEF Fails, Told, Happenings, LegsInv
  <1>6. CASE Fails(t, "state unavailable", "outage") /\ tabs[t].at = "starting"
               /\ tabs[t].kind = "saml" /\ UNCHANGED <<minted, spent, flows>>
    <2>1. (tabs[t].why \cup {"outage"}) \cap Causes("state unavailable") # {}
      BY <1>2, <1>6 DEF Causes, LegsInv, SettingsInv, OffFor, InFlight
    <2> QED BY <1>2, <1>3, <1>6, <2>1, AnswersKeeps DEF Fails, Told, Happenings, LegsInv
  <1> QED BY <1>4, <1>5, <1>6 DEF SamlStarts

\* The user comes back with an answer of the provider.
LEMMA ProviderAnswersKeeps ==
    ASSUME SignOnInvariant, NEW t \in Tabs, ProviderAnswers(t)
    PROVE  SignOnInvariant'
  <1>1. /\ tabs[t] \in Tab /\ tabs \in [Tabs -> Tab] /\ flows \in Nat /\ flows + 1 \in Nat
        /\ tabs[t].flow \in Nat /\ tabs[t].flow <= flows
        /\ registered \in Registrations \cup {Off}
        /\ jar["oidc"] \in Nat /\ jar["saml"] \in Nat
    BY TabOf
  <1>2. /\ LegsInv(tabs[t]) /\ CodeInv(tabs[t]) /\ SettingsInv(tabs[t])
        /\ JarInv(tabs[t]) /\ spent \subseteq 1..flows
    BY TabOf
  <1>3. UNCHANGED <<registered, samlSet, jar>>
    BY DEF ProviderAnswers, SsoSettings
  <1>4. PICK answer \in {"code", "declined", "blank"} :
          /\ tabs[t].kind = "saml" => answer # "declined"
          /\ tabs[t].at = "provider"
          /\ tabs' = [tabs EXCEPT ![t].at = "returning", ![t].answer = answer,
                          ![t].why = @ \cup (IF answer = "code" THEN {} ELSE {answer})]
    BY DEF ProviderAnswers
  <1>5. UNCHANGED <<minted, spent, flows>>
    BY DEF ProviderAnswers
  <1>6. /\ tabs[t].why \cup (IF answer = "code" THEN {} ELSE {answer}) \in SUBSET Happenings
        /\ answer \in Answered /\ "returning" \in Stages
    BY <1>1 DEF Tab, Happenings, Answered, Stages
  <1>7. CASE /\ tabs' = [tabs EXCEPT ![t].at = "returning",
                               ![t].answer = answer,
                               ![t].why = @ \cup (IF answer = "code" THEN {} ELSE {answer})]
             /\ UNCHANGED <<minted, spent, flows>>
             /\ tabs[t].at = "provider"
             /\ tabs[t].kind = "saml" => answer # "declined"
             /\ answer \in {"code", "declined", "blank"}
    <2>1. tabs' \in [Tabs -> Tab] /\ \A u \in Tabs \ {t} : tabs'[u] = tabs[u]
      BY <1>1, <1>7, <1>6 DEF Tab
    <2>2. /\ tabs'[t].at = "returning" /\ tabs'[t].kind = tabs[t].kind
          /\ tabs'[t].flow = tabs[t].flow
          /\ tabs'[t].by = tabs[t].by /\ tabs'[t].now = tabs[t].now
          /\ tabs'[t].sent = tabs[t].sent
          /\ tabs'[t].answer = answer /\ tabs'[t].said = tabs[t].said
          /\ tabs'[t].why = tabs[t].why \cup (IF answer = "code" THEN {} ELSE {answer})
      BY <1>1, <1>7 DEF Tab
    <2>3. LegsInv(tabs[t])'
      BY <1>1, <1>2, <1>7, <2>2 DEF LegsInv
    <2>4. CodeInv(tabs[t])'
      BY <1>1, <1>2, <1>7, <2>2 DEF LegsInv, CodeInv, Fresh
    <2>5. SettingsInv(tabs[t])'
      BY <1>2, <1>3, <1>7, <2>2 DEF LegsInv, SettingsInv, Fresh, InFlight, OffFor
    <2>6. JarInv(tabs[t])'
      BY <1>2, <1>3, <1>7, <2>2 DEF LegsInv, JarInv, InFlight
    <2>7. TabInv(tabs[t])'
      BY <2>2, <2>3, <2>4, <2>5, <2>6 DEF TabInv, ReasonInv
    <2>8. \/ flows' = flows /\ tabs'[t].flow \in {0, tabs[t].flow}
          \/ flows' = flows + 1 /\ tabs'[t].flow = flows + 1
      BY <1>7, <2>2
    <2> QED BY <1>1, <1>2, <1>3, <1>7, <2>1, <2>7, <2>8, OthersStay DEF LegsInv
  <1> QED BY <1>4, <1>5, <1>7

\* A callback that was answered is sent again.
LEMMA ResendKeeps ==
    ASSUME SignOnInvariant, NEW t \in Tabs, Resend(t)
    PROVE  SignOnInvariant'
  <1>1. /\ tabs[t] \in Tab /\ tabs \in [Tabs -> Tab] /\ flows \in Nat /\ flows + 1 \in Nat
        /\ tabs[t].flow \in Nat /\ tabs[t].flow <= flows
        /\ registered \in Registrations \cup {Off}
        /\ jar["oidc"] \in Nat /\ jar["saml"] \in Nat
    BY TabOf
  <1>2. /\ LegsInv(tabs[t]) /\ CodeInv(tabs[t]) /\ SettingsInv(tabs[t])
        /\ JarInv(tabs[t]) /\ spent \subseteq 1..flows
    BY TabOf
  <1>3. UNCHANGED <<registered, samlSet, jar>>
    BY DEF Resend, SsoSettings
  <1>4. CASE /\ Moves(t, "returning", {"resent"} \cup OffFor(tabs[t].kind, registered, samlSet))
             /\ UNCHANGED <<minted, spent, flows>>
             /\ tabs[t].at \in {"refused", "signed"} /\ tabs[t].answer # "none"
    <2>1. tabs' \in [Tabs -> Tab] /\ \A u \in Tabs \ {t} : tabs'[u] = tabs[u]
      BY <1>1, <1>4 DEF Tab, Stages, Answered, Told, Happenings, Moves, OffFor
    <2>2. /\ tabs'[t].at = "returning" /\ tabs'[t].kind = tabs[t].kind
          /\ tabs'[t].flow = tabs[t].flow
          /\ tabs'[t].by = tabs[t].by /\ tabs'[t].now = tabs[t].now
          /\ tabs'[t].sent = tabs[t].sent
          /\ tabs'[t].answer = tabs[t].answer /\ tabs'[t].said = tabs[t].said
          /\ tabs'[t].why = tabs[t].why \cup ({"resent"} \cup OffFor(tabs[t].kind, registered, samlSet))
      BY <1>1, <1>4 DEF Tab, Moves, OffFor
    <2>3. LegsInv(tabs[t])'
      BY <1>1, <1>2, <1>4, <2>2 DEF LegsInv
    <2>4. CodeInv(tabs[t])'
      BY <1>1, <1>2, <1>4, <2>2 DEF LegsInv, CodeInv, Fresh
    <2>5. SettingsInv(tabs[t])'
      BY <1>2, <1>3, <1>4, <2>2 DEF LegsInv, SettingsInv, Fresh, InFlight, OffFor
    <2>6. JarInv(tabs[t])'
      BY <1>2, <1>3, <1>4, <2>2 DEF LegsInv, JarInv, InFlight
    <2>7. TabInv(tabs[t])'
      BY <2>2, <2>3, <2>4, <2>5, <2>6 DEF TabInv, ReasonInv
    <2>8. \/ flows' = flows /\ tabs'[t].flow \in {0, tabs[t].flow}
          \/ flows' = flows + 1 /\ tabs'[t].flow = flows + 1
      BY <1>4, <2>2
    <2> QED BY <1>1, <1>2, <1>3, <1>4, <2>1, <2>7, <2>8, OthersStay DEF LegsInv
  <1> QED BY <1>4 DEF Resend

\* The callback is held against the cookies that came with it.
LEMMA CallbackArrivesKeeps ==
    ASSUME SignOnInvariant, NEW t \in Tabs, CallbackArrives(t)
    PROVE  SignOnInvariant'
  <1>1. /\ tabs[t] \in Tab /\ tabs \in [Tabs -> Tab] /\ flows \in Nat /\ flows + 1 \in Nat
        /\ tabs[t].flow \in Nat /\ tabs[t].flow <= flows
        /\ registered \in Registrations \cup {Off}
        /\ jar["oidc"] \in Nat /\ jar["saml"] \in Nat
    BY TabOf
  <1>2. /\ LegsInv(tabs[t]) /\ CodeInv(tabs[t]) /\ SettingsInv(tabs[t])
        /\ JarInv(tabs[t]) /\ spent \subseteq 1..flows
    BY TabOf
  <1>3. UNCHANGED <<registered, samlSet, jar>>
    BY DEF CallbackArrives, SsoSettings
  <1>4. /\ tabs[t].at = "returning" /\ tabs[t].kind = "oidc"
        /\ UNCHANGED <<minted, spent, flows>>
        /\ tabs' = [tabs EXCEPT ![t].sent = jar["oidc"], ![t].said = Verdict(tabs[t], jar["oidc"]),
                        ![t].at = IF Verdict(tabs[t], jar["oidc"]) = "nothing"
                                  THEN "finishing" ELSE "replying"]
    BY DEF CallbackArrives, Returns
  <1>5. tabs[t].answer \in {"code", "declined", "blank"}
    BY <1>1, <1>2, <1>4 DEF LegsInv, Tab, Answered
  <1>6. Verdict(tabs[t], jar["oidc"]) = "nothing" =>
          tabs[t].answer = "code" /\ jar["oidc"] = tabs[t].flow /\ "resent" \notin tabs[t].why
    BY <1>2, <1>4, <1>5 DEF Verdict, JarInv
  <1>7. jar["oidc"] \in Nat /\ "nothing" \in Told /\ "finishing" \in Stages
    BY <1>1 DEF Told, Stages
  <1>8. CASE /\ tabs' = [tabs EXCEPT ![t].sent = jar["oidc"],
                               ![t].said = "nothing",
                               ![t].at = "finishing"]
             /\ Verdict(tabs[t], jar["oidc"]) = "nothing"
             /\ UNCHANGED <<minted, spent, flows>>
    <2>1. tabs' \in [Tabs -> Tab] /\ \A u \in Tabs \ {t} : tabs'[u] = tabs[u]
      BY <1>1, <1>8, <1>7 DEF Tab
    <2>2. /\ tabs'[t].at = "finishing" /\ tabs'[t].kind = tabs[t].kind
          /\ tabs'[t].flow = tabs[t].flow
          /\ tabs'[t].by = tabs[t].by /\ tabs'[t].now = tabs[t].now
          /\ tabs'[t].sent = jar["oidc"]
          /\ tabs'[t].answer = tabs[t].answer /\ tabs'[t].said = "nothing"
          /\ tabs'[t].why = tabs[t].why
      BY <1>1, <1>8 DEF Tab
    <2>3. LegsInv(tabs[t])'
      BY <1>1, <1>2, <1>8, <2>2, <1>4, <1>6 DEF LegsInv
    <2>4. CodeInv(tabs[t])'
      BY <1>1, <1>2, <1>8, <2>2, <1>4, <1>6 DEF LegsInv, CodeInv, Fresh
    <2>5. SettingsInv(tabs[t])'
      BY <1>2, <1>3, <1>8, <2>2, <1>4, <1>6 DEF LegsInv, SettingsInv, Fresh, InFlight, OffFor
    <2>6. JarInv(tabs[t])'
      BY <1>2, <1>3, <1>8, <2>2, <1>4, <1>6 DEF LegsInv, JarInv, InFlight
    <2>7. TabInv(tabs[t])'
      BY <2>2, <2>3, <2>4, <2>5, <2>6 DEF TabInv, ReasonInv
    <2>8. \/ flows' = flows /\ tabs'[t].flow \in {0, tabs[t].flow}
          \/ flows' = flows + 1 /\ tabs'[t].flow = flows + 1
      BY <1>8, <2>2
    <2> QED BY <1>1, <1>2, <1>3, <1>8, <2>1, <2>7, <2>8, OthersStay DEF LegsInv
  <1>9. CASE tabs[t].answer = "declined"
    <2>1. OnlyTab(t)
      BY <1>1, <1>3, <1>9, <1>4 DEF OnlyTab, Tab, Stages, Answered, Told, Happenings, Verdict
    <2>2. /\ tabs'[t].at = "replying" /\ tabs'[t].kind = tabs[t].kind
          /\ tabs'[t].flow = tabs[t].flow /\ tabs'[t].answer = tabs[t].answer
          /\ tabs[t].why \subseteq tabs'[t].why
          /\ "resent" \in tabs'[t].why => "resent" \in tabs[t].why
          /\ tabs'[t].said \notin {"go", "session"}
      BY <1>1, <1>9, <1>4 DEF Tab, Verdict
    <2>3. tabs'[t].said # "cannot be verified" => tabs'[t].why \cap Causes(tabs'[t].said) # {}
      BY <1>1, <1>2, <1>9, <1>4 DEF Tab, Causes, LegsInv, JarInv, Verdict
    <2> QED BY <1>1, <1>2, <1>9, <1>4, <2>1, <2>2, <2>3, RefusalKeeps DEF LegsInv
  <1>10. CASE tabs[t].answer = "blank"
    <2>1. OnlyTab(t)
      BY <1>1, <1>3, <1>10, <1>4 DEF OnlyTab, Tab, Stages, Answered, Told, Happenings, Verdict
    <2>2. /\ tabs'[t].at = "replying" /\ tabs'[t].kind = tabs[t].kind
          /\ tabs'[t].flow = tabs[t].flow /\ tabs'[t].answer = tabs[t].answer
          /\ tabs[t].why \subseteq tabs'[t].why
          /\ "resent" \in tabs'[t].why => "resent" \in tabs[t].why
          /\ tabs'[t].said \notin {"go", "session"}
      BY <1>1, <1>10, <1>4 DEF Tab, Verdict
    <2>3. tabs'[t].said # "cannot be verified" => tabs'[t].why \cap Causes(tabs'[t].said) # {}
      BY <1>1, <1>2, <1>10, <1>4 DEF Tab, Causes, LegsInv, JarInv, Verdict
    <2> QED BY <1>1, <1>2, <1>10, <1>4, <2>1, <2>2, <2>3, RefusalKeeps DEF LegsInv
  <1>11. CASE tabs[t].answer = "code" /\ (jar["oidc"] = 0 \/ jar["oidc"] # tabs[t].flow)
    <2>1. OnlyTab(t)
      BY <1>1, <1>3, <1>11, <1>4 DEF OnlyTab, Tab, Stages, Answered, Told, Happenings, Verdict
    <2>2. /\ tabs'[t].at = "replying" /\ tabs'[t].kind = tabs[t].kind
          /\ tabs'[t].flow = tabs[t].flow /\ tabs'[t].answer = tabs[t].answer
          /\ tabs[t].why \subseteq tabs'[t].why
          /\ "resent" \in tabs'[t].why => "resent" \in tabs[t].why
          /\ tabs'[t].said \notin {"go", "session"}
      BY <1>1, <1>11, <1>4 DEF Tab, Verdict
    <2>3. tabs'[t].said # "cannot be verified" => tabs'[t].why \cap Causes(tabs'[t].said) # {}
      BY <1>1, <1>2, <1>11, <1>4 DEF Tab, Causes, LegsInv, JarInv, Verdict
    <2> QED BY <1>1, <1>2, <1>11, <1>4, <2>1, <2>2, <2>3, RefusalKeeps DEF LegsInv
  <1> QED BY <1>4, <1>5, <1>8, <1>9, <1>10, <1>11 DEF Verdict

\* The settings are read again.
LEMMA FinishReadsSettingsKeeps ==
    ASSUME SignOnInvariant, NEW t \in Tabs, FinishReadsSettings(t)
    PROVE  SignOnInvariant'
  <1>1. /\ tabs[t] \in Tab /\ tabs \in [Tabs -> Tab] /\ flows \in Nat /\ flows + 1 \in Nat
        /\ tabs[t].flow \in Nat /\ tabs[t].flow <= flows
        /\ registered \in Registrations \cup {Off}
        /\ jar["oidc"] \in Nat /\ jar["saml"] \in Nat
    BY TabOf
  <1>2. /\ LegsInv(tabs[t]) /\ CodeInv(tabs[t]) /\ SettingsInv(tabs[t])
        /\ JarInv(tabs[t]) /\ spent \subseteq 1..flows
    BY TabOf
  <1>3. UNCHANGED <<registered, samlSet, jar>>
    BY DEF FinishReadsSettings, SsoSettings
  <1>4. CASE /\ tabs' = [tabs EXCEPT ![t].at = "rediscovering",
                               ![t].now = registered]
             /\ tabs[t].at = "finishing"
             /\ UNCHANGED <<minted, spent, flows>>
    <2>1. tabs' \in [Tabs -> Tab] /\ \A u \in Tabs \ {t} : tabs'[u] = tabs[u]
      BY <1>1, <1>4 DEF Tab, Stages, Answered, Told, Happenings
    <2>2. /\ tabs'[t].at = "rediscovering" /\ tabs'[t].kind = tabs[t].kind
          /\ tabs'[t].flow = tabs[t].flow
          /\ tabs'[t].by = tabs[t].by /\ tabs'[t].now = registered
          /\ tabs'[t].sent = tabs[t].sent
          /\ tabs'[t].answer = tabs[t].answer /\ tabs'[t].said = tabs[t].said
          /\ tabs'[t].why = tabs[t].why
      BY <1>1, <1>4 DEF Tab
    <2>3. LegsInv(tabs[t])'
      BY <1>1, <1>2, <1>4, <2>2 DEF LegsInv
    <2>4. CodeInv(tabs[t])'
      BY <1>1, <1>2, <1>4, <2>2 DEF LegsInv, CodeInv, Fresh
    <2>5. SettingsInv(tabs[t])'
      BY <1>2, <1>3, <1>4, <2>2 DEF LegsInv, SettingsInv, Fresh, InFlight, OffFor
    <2>6. JarInv(tabs[t])'
      BY <1>2, <1>3, <1>4, <2>2 DEF LegsInv, JarInv, InFlight
    <2>7. TabInv(tabs[t])'
      BY <2>2, <2>3, <2>4, <2>5, <2>6 DEF TabInv, ReasonInv
    <2>8. \/ flows' = flows /\ tabs'[t].flow \in {0, tabs[t].flow}
          \/ flows' = flows + 1 /\ tabs'[t].flow = flows + 1
      BY <1>4, <2>2
    <2> QED BY <1>1, <1>2, <1>3, <1>4, <2>1, <2>7, <2>8, OthersStay DEF LegsInv
  <1>5. CASE Answers(t, "not configured", {}) /\ registered = Off
               /\ tabs[t].at = "finishing" /\ UNCHANGED <<minted, spent, flows>>
    <2>1. (tabs[t].why \cup {}) \cap Causes("not configured") # {}
      BY <1>2, <1>5 DEF Causes, LegsInv, SettingsInv, OffFor, InFlight
    <2> QED BY <1>2, <1>3, <1>5, <2>1, AnswersKeeps DEF Fails, Told, Happenings, LegsInv
  <1>6. CASE Fails(t, "state unavailable", "outage") /\ tabs[t].at = "finishing"
               /\ UNCHANGED <<minted, spent, flows>>
    <2>1. (tabs[t].why \cup {"outage"}) \cap Causes("state unavailable") # {}
      BY <1>2, <1>6 DEF Causes, LegsInv, SettingsInv, OffFor, InFlight
    <2> QED BY <1>2, <1>3, <1>6, <2>1, AnswersKeeps DEF Fails, Told, Happenings, LegsInv
  <1> QED BY <1>4, <1>5, <1>6 DEF FinishReadsSettings

\* The provider is found again.
LEMMA FinishDiscoversKeeps ==
    ASSUME SignOnInvariant, NEW t \in Tabs, FinishDiscovers(t)
    PROVE  SignOnInvariant'
  <1>1. /\ tabs[t] \in Tab /\ tabs \in [Tabs -> Tab] /\ flows \in Nat /\ flows + 1 \in Nat
        /\ tabs[t].flow \in Nat /\ tabs[t].flow <= flows
        /\ registered \in Registrations \cup {Off}
        /\ jar["oidc"] \in Nat /\ jar["saml"] \in Nat
    BY TabOf
  <1>2. /\ LegsInv(tabs[t]) /\ CodeInv(tabs[t]) /\ SettingsInv(tabs[t])
        /\ JarInv(tabs[t]) /\ spent \subseteq 1..flows
    BY TabOf
  <1>3. UNCHANGED <<registered, samlSet, jar>>
    BY DEF FinishDiscovers, SsoSettings
  <1>4. CASE /\ Moves(t, "exchanging", {})
             /\ tabs[t].at = "rediscovering"
             /\ UNCHANGED <<minted, spent, flows>>
    <2>1. tabs' \in [Tabs -> Tab] /\ \A u \in Tabs \ {t} : tabs'[u] = tabs[u]
      BY <1>1, <1>4 DEF Tab, Stages, Answered, Told, Happenings, Moves
    <2>2. /\ tabs'[t].at = "exchanging" /\ tabs'[t].kind = tabs[t].kind
          /\ tabs'[t].flow = tabs[t].flow
          /\ tabs'[t].by = tabs[t].by /\ tabs'[t].now = tabs[t].now
          /\ tabs'[t].sent = tabs[t].sent
          /\ tabs'[t].answer = tabs[t].answer /\ tabs'[t].said = tabs[t].said
          /\ tabs'[t].why = tabs[t].why \cup {}
      BY <1>1, <1>4 DEF Tab, Moves
    <2>3. LegsInv(tabs[t])'
      BY <1>1, <1>2, <1>4, <2>2 DEF LegsInv
    <2>4. CodeInv(tabs[t])'
      BY <1>1, <1>2, <1>4, <2>2 DEF LegsInv, CodeInv, Fresh
    <2>5. SettingsInv(tabs[t])'
      BY <1>2, <1>3, <1>4, <2>2 DEF LegsInv, SettingsInv, Fresh, InFlight, OffFor
    <2>6. JarInv(tabs[t])'
      BY <1>2, <1>3, <1>4, <2>2 DEF LegsInv, JarInv, InFlight
    <2>7. TabInv(tabs[t])'
      BY <2>2, <2>3, <2>4, <2>5, <2>6 DEF TabInv, ReasonInv
    <2>8. \/ flows' = flows /\ tabs'[t].flow \in {0, tabs[t].flow}
          \/ flows' = flows + 1 /\ tabs'[t].flow = flows + 1
      BY <1>4, <2>2
    <2> QED BY <1>1, <1>2, <1>3, <1>4, <2>1, <2>7, <2>8, OthersStay DEF LegsInv
  <1>5. CASE Fails(t, "discovery", "provider out") /\ tabs[t].at = "rediscovering"
               /\ UNCHANGED <<minted, spent, flows>>
    <2>1. (tabs[t].why \cup {"provider out"}) \cap Causes("discovery") # {}
      BY <1>2, <1>5 DEF Causes, LegsInv, SettingsInv, OffFor, InFlight
    <2> QED BY <1>2, <1>3, <1>5, <2>1, AnswersKeeps DEF Fails, Told, Happenings, LegsInv
  <1> QED BY <1>4, <1>5 DEF FinishDiscovers

\* The code is taken once, from who it was issued to.
LEMMA ExchangeKeeps ==
    ASSUME SignOnInvariant, NEW t \in Tabs, Exchange(t)
    PROVE  SignOnInvariant'
  <1>1. /\ tabs[t] \in Tab /\ tabs \in [Tabs -> Tab] /\ flows \in Nat /\ flows + 1 \in Nat
        /\ tabs[t].flow \in Nat /\ tabs[t].flow <= flows
        /\ registered \in Registrations \cup {Off}
        /\ jar["oidc"] \in Nat /\ jar["saml"] \in Nat
    BY TabOf
  <1>2. /\ LegsInv(tabs[t]) /\ CodeInv(tabs[t]) /\ SettingsInv(tabs[t])
        /\ JarInv(tabs[t]) /\ spent \subseteq 1..flows
    BY TabOf
  <1>3. UNCHANGED <<registered, samlSet, jar>>
    BY DEF Exchange, SsoSettings
  <1>4. \A i \in DOMAIN minted : minted[i] \in spent
    BY DEF SignOnInvariant, MintedInv
  <1>5. Honoured(tabs[t]) => tabs[t].by = tabs[t].now /\ tabs[t].flow \notin spent
    BY DEF Honoured
  <1>6. CASE /\ Moves(t, "verifying", {})
             /\ tabs[t].at = "exchanging"
             /\ Honoured(tabs[t])
             /\ spent' = spent \cup {tabs[t].flow}
             /\ UNCHANGED <<minted, flows>>
    <2>1. tabs' \in [Tabs -> Tab] /\ \A u \in Tabs \ {t} : tabs'[u] = tabs[u]
      BY <1>1, <1>6 DEF Tab, Stages, Answered, Told, Happenings, Moves
    <2>2. /\ tabs'[t].at = "verifying" /\ tabs'[t].kind = tabs[t].kind
          /\ tabs'[t].flow = tabs[t].flow
          /\ tabs'[t].by = tabs[t].by /\ tabs'[t].now = tabs[t].now
          /\ tabs'[t].sent = tabs[t].sent
          /\ tabs'[t].answer = tabs[t].answer /\ tabs'[t].said = tabs[t].said
          /\ tabs'[t].why = tabs[t].why \cup {}
      BY <1>1, <1>6 DEF Tab, Moves
    <2>3. LegsInv(tabs[t])'
      BY <1>1, <1>2, <1>6, <2>2, <1>4, <1>5 DEF LegsInv
    <2>4. CodeInv(tabs[t])'
      BY <1>1, <1>2, <1>6, <2>2, <1>4, <1>5 DEF LegsInv, CodeInv, Fresh
    <2>5. SettingsInv(tabs[t])'
      BY <1>2, <1>3, <1>6, <2>2, <1>4, <1>5 DEF LegsInv, SettingsInv, Fresh, InFlight, OffFor
    <2>6. JarInv(tabs[t])'
      BY <1>2, <1>3, <1>6, <2>2, <1>4, <1>5 DEF LegsInv, JarInv, InFlight
    <2>7. TabInv(tabs[t])'
      BY <2>2, <2>3, <2>4, <2>5, <2>6 DEF TabInv, ReasonInv
    <2>8. \/ flows' = flows /\ tabs'[t].flow \in {0, tabs[t].flow}
          \/ flows' = flows + 1 /\ tabs'[t].flow = flows + 1
      BY <1>6, <2>2
    <2> QED BY <1>1, <1>2, <1>3, <1>6, <2>1, <2>7, <2>8, OthersStay DEF LegsInv
  <1>7. CASE /\ Fails(t, "exchange", "provider out") /\ tabs[t].at = "exchanging"
             /\ UNCHANGED <<minted, flows>>
             /\ spent' = spent \/ spent' = spent \cup {tabs[t].flow}
    <2>1. (tabs[t].why \cup {"provider out"}) \cap Causes("exchange") # {}
      BY <1>2, <1>7 DEF Causes, LegsInv, SettingsInv, OffFor, InFlight
    <2> QED BY <1>2, <1>3, <1>7, <2>1, AnswersKeeps DEF Fails, Told, Happenings, LegsInv
  <1>8. CASE /\ Fails(t, "missing id_token", "provider out") /\ tabs[t].at = "exchanging"
             /\ UNCHANGED <<minted, flows>>
             /\ spent' = spent \/ spent' = spent \cup {tabs[t].flow}
    <2>1. (tabs[t].why \cup {"provider out"}) \cap Causes("missing id_token") # {}
      BY <1>2, <1>8 DEF Causes, LegsInv, SettingsInv, OffFor, InFlight
    <2> QED BY <1>2, <1>3, <1>8, <2>1, AnswersKeeps DEF Fails, Told, Happenings, LegsInv
  <1>9. CASE Answers(t, "exchange", {}) /\ ~Honoured(tabs[t]) /\ tabs[t].at = "exchanging"
               /\ UNCHANGED <<minted, spent, flows>>
    <2>1. (tabs[t].why \cup {}) \cap Causes("exchange") # {}
      BY <1>2, <1>9 DEF Causes, LegsInv, SettingsInv, OffFor, InFlight, Honoured, CodeInv, Fresh
    <2> QED BY <1>2, <1>3, <1>9, <2>1, AnswersKeeps DEF Fails, Told, Happenings, LegsInv
  <1> QED BY <1>6, <1>7, <1>9, <1>8 DEF Exchange

\* A token that is verified makes a session.
LEMMA VerifyKeeps ==
    ASSUME SignOnInvariant, NEW t \in Tabs, Verify(t)
    PROVE  SignOnInvariant'
  <1>1. /\ tabs[t] \in Tab /\ tabs \in [Tabs -> Tab] /\ flows \in Nat /\ flows + 1 \in Nat
        /\ tabs[t].flow \in Nat /\ tabs[t].flow <= flows
        /\ registered \in Registrations \cup {Off}
        /\ jar["oidc"] \in Nat /\ jar["saml"] \in Nat
    BY TabOf
  <1>2. /\ LegsInv(tabs[t]) /\ CodeInv(tabs[t]) /\ SettingsInv(tabs[t])
        /\ JarInv(tabs[t]) /\ spent \subseteq 1..flows
    BY TabOf
  <1>3. UNCHANGED <<registered, samlSet, jar>>
    BY DEF Verify, SsoSettings
  <1>4. CASE /\ Answers(t, "session", {})
             /\ tabs[t].at = "verifying"
             /\ minted' = Append(minted, tabs[t].flow)
             /\ UNCHANGED <<spent, flows>>
    <2>1. tabs' \in [Tabs -> Tab] /\ \A u \in Tabs \ {t} : tabs'[u] = tabs[u]
      BY <1>1, <1>4 DEF Tab, Stages, Answered, Told, Happenings, Answers
    <2>2. /\ tabs'[t].at = "replying" /\ tabs'[t].kind = tabs[t].kind
          /\ tabs'[t].flow = tabs[t].flow
          /\ tabs'[t].by = tabs[t].by /\ tabs'[t].now = tabs[t].now
          /\ tabs'[t].sent = tabs[t].sent
          /\ tabs'[t].answer = tabs[t].answer /\ tabs'[t].said = "session"
          /\ tabs'[t].why = tabs[t].why \cup {}
      BY <1>1, <1>4 DEF Tab, Answers
    <2>3. LegsInv(tabs[t])'
      BY <1>1, <1>2, <1>4, <2>2 DEF LegsInv
    <2>4. CodeInv(tabs[t])'
      BY <1>1, <1>2, <1>4, <2>2 DEF LegsInv, CodeInv, Fresh
    <2>5. SettingsInv(tabs[t])'
      BY <1>2, <1>3, <1>4, <2>2 DEF LegsInv, SettingsInv, Fresh, InFlight, OffFor
    <2>6. JarInv(tabs[t])'
      BY <1>2, <1>3, <1>4, <2>2 DEF LegsInv, JarInv, InFlight
    <2>7. TabInv(tabs[t])'
      BY <2>2, <2>3, <2>4, <2>5, <2>6 DEF TabInv, ReasonInv
    <2>8. \/ flows' = flows /\ tabs'[t].flow \in {0, tabs[t].flow}
          \/ flows' = flows + 1 /\ tabs'[t].flow = flows + 1
      BY <1>4, <2>2
    <2> QED BY <1>1, <1>2, <1>3, <1>4, <2>1, <2>7, <2>8, OthersStay DEF LegsInv
  <1>5. CASE Answers(t, "id_token", {}) /\ ~Verified(tabs[t]) /\ tabs[t].at = "verifying"
               /\ UNCHANGED <<minted, spent, flows>>
    <2>1. (tabs[t].why \cup {}) \cap Causes("id_token") # {}
      BY <1>2, <1>5 DEF Causes, LegsInv, SettingsInv, OffFor, InFlight, Verified, CodeInv
    <2> QED BY <1>2, <1>3, <1>5, <2>1, AnswersKeeps DEF Fails, Told, Happenings, LegsInv
  <1>6. CASE Fails(t, "id_token", "provider out") /\ tabs[t].at = "verifying"
               /\ UNCHANGED <<minted, spent, flows>>
    <2>1. (tabs[t].why \cup {"provider out"}) \cap Causes("id_token") # {}
      BY <1>2, <1>6 DEF Causes, LegsInv, SettingsInv, OffFor, InFlight
    <2> QED BY <1>2, <1>3, <1>6, <2>1, AnswersKeeps DEF Fails, Told, Happenings, LegsInv
  <1> QED BY <1>4, <1>5, <1>6 DEF Verify

\* No assertion is accepted; each is told why.
LEMMA SamlAcsKeeps ==
    ASSUME SignOnInvariant, NEW t \in Tabs, SamlAcs(t)
    PROVE  SignOnInvariant'
  <1>1. /\ tabs[t] \in Tab /\ tabs \in [Tabs -> Tab] /\ flows \in Nat /\ flows + 1 \in Nat
        /\ tabs[t].flow \in Nat /\ tabs[t].flow <= flows
        /\ registered \in Registrations \cup {Off}
        /\ jar["oidc"] \in Nat /\ jar["saml"] \in Nat
    BY TabOf
  <1>2. /\ LegsInv(tabs[t]) /\ CodeInv(tabs[t]) /\ SettingsInv(tabs[t])
        /\ JarInv(tabs[t]) /\ spent \subseteq 1..flows
    BY TabOf
  <1>3. UNCHANGED <<registered, samlSet, jar>>
    BY DEF SamlAcs, SsoSettings
  <1>4. tabs[t].at = "returning" /\ tabs[t].kind = "saml" /\ UNCHANGED <<minted, spent, flows>>
    BY DEF SamlAcs, Returns
  <1>5. tabs[t].answer \in {"code", "blank"}
    BY <1>1, <1>2, <1>4 DEF LegsInv, Tab, Answered
  <1>6. CASE \E sent \in {0, jar["saml"]} :
                tabs' = [tabs EXCEPT ![t].at = "replying", ![t].sent = sent,
                                     ![t].said = SamlVerdict(tabs[t], sent)]
    <2>1. PICK sent \in {0, jar["saml"]} :
             tabs' = [tabs EXCEPT ![t].at = "replying", ![t].sent = sent,
                                  ![t].said = SamlVerdict(tabs[t], sent)]
      BY <1>6
    <2> DEFINE said == SamlVerdict(tabs[t], sent)
    <2>2. /\ said \in {"missing response", "not configured", "request mismatch",
                       "cannot be verified"}
          /\ said # "cannot be verified" => tabs[t].why \cap Causes(said) # {}
      BY <1>1, <1>2, <1>4, <1>5
         DEF SamlVerdict, Causes, LegsInv, SettingsInv, JarInv, OffFor, InFlight
    <2>3. tabs' = [tabs EXCEPT ![t].at = "replying", ![t].sent = sent, ![t].said = said]
      BY <2>1
    <2> HIDE DEF said
    <2>4. OnlyTab(t)
      <3>1. sent \in Nat
        BY <1>1
      <3>2. said \in Told
        BY <2>2 DEF Told
      <3> QED BY <1>1, <1>3, <2>3, <3>1, <3>2 DEF OnlyTab, Tab, Stages
    <2>5. /\ tabs'[t].at = "replying" /\ tabs'[t].kind = tabs[t].kind
          /\ tabs'[t].flow = tabs[t].flow /\ tabs'[t].answer = tabs[t].answer
          /\ tabs'[t].why = tabs[t].why /\ tabs'[t].said = said
      BY <1>1, <2>3 DEF Tab
    <2> QED BY <1>4, <2>2, <2>4, <2>5, RefusalKeeps
  <1>7. CASE Fails(t, IF tabs[t].answer = "blank" THEN "missing response" ELSE "not configured", "outage")
    <2>1. OnlyTab(t)
      BY <1>1, <1>3, <1>7, <1>4, <1>5
         DEF OnlyTab, Tab, Stages, Answered, Told, Happenings, Answers, Fails
    <2>2. /\ tabs'[t].at = "replying" /\ tabs'[t].kind = tabs[t].kind
          /\ tabs'[t].flow = tabs[t].flow /\ tabs'[t].answer = tabs[t].answer
          /\ tabs[t].why \subseteq tabs'[t].why
          /\ "resent" \in tabs'[t].why => "resent" \in tabs[t].why
          /\ tabs'[t].said \notin {"go", "session"}
      BY <1>1, <1>7, <1>4, <1>5 DEF Tab, Answers, Fails
    <2>3. tabs'[t].said # "cannot be verified" => tabs'[t].why \cap Causes(tabs'[t].said) # {}
      BY <1>1, <1>2, <1>7, <1>4, <1>5 DEF Tab, Causes, LegsInv, JarInv, Answers, Fails
    <2> QED BY <1>1, <1>2, <1>7, <1>4, <1>5, <2>1, <2>2, <2>3, RefusalKeeps DEF LegsInv
  <1> QED BY <1>6, <1>7 DEF SamlAcs

\* The steps that reach every tab: none changes a flow.
LEMMA AllKeep ==
    ASSUME SignOnInvariant, tabs' \in [Tabs -> Tab],
           \A u \in Tabs : tabs'[u].flow = tabs[u].flow /\ TabInv(tabs[u])',
           UNCHANGED <<minted, spent, flows>>,
           registered' \in Registrations \cup {Off},
           jar' \in [{"oidc", "saml"} -> Nat]
    PROVE  SignOnInvariant'
  <1>1. SignOnShape' /\ FlowsApart' /\ MintedInv'
    BY DEF SignOnInvariant, SignOnShape, FlowsApart, MintedInv
  <1> QED BY <1>1 DEF SignOnInvariant

\* A tab that something happens to is where it was.
LEMMA HearsKeeps ==
    ASSUME SignOnInvariant, NEW t \in Tabs, OnlyHears(t), UNCHANGED <<minted, spent>>
    PROVE  LegsInv(tabs[t])' /\ CodeInv(tabs[t])' /\ ReasonInv(tabs[t])'
  <1>1. LegsInv(tabs[t]) /\ CodeInv(tabs[t]) /\ ReasonInv(tabs[t])
    BY TabOf
  <1>2. LegsInv(tabs[t])'
    BY <1>1 DEF OnlyHears, LegsInv
  <1>3. CodeInv(tabs[t])'
    BY <1>1 DEF OnlyHears, CodeInv, Fresh
  <1>4. ReasonInv(tabs[t])'
    BY <1>1 DEF OnlyHears, ReasonInv
  <1> QED BY <1>2, <1>3, <1>4

\* The jar takes another flow, or none; the tab that has lost its own hears of it.
LEMMA JarKeeps ==
    ASSUME SignOnInvariant, NEW t \in Tabs, OnlyHears(t),
           UNCHANGED <<minted, spent, registered, samlSet>>,
           NEW kind \in {"oidc", "saml"}, NEW n, jar' = [jar EXCEPT ![kind] = n],
           n # 0 => n # tabs[t].flow,
           tabs[t].kind = kind /\ InFlight(tabs[t]) /\ tabs[t].flow # 0
             /\ tabs[t].flow = jar[kind] /\ n # jar[kind] =>
                 tabs'[t].why \cap {"overtaken", "expired"} # {}
    PROVE  TabInv(tabs[t])'
  <1>1. /\ LegsInv(tabs[t]) /\ SettingsInv(tabs[t]) /\ JarInv(tabs[t])
        /\ jar \in [{"oidc", "saml"} -> Nat] /\ tabs[t].kind \in {"oidc", "saml"}
    BY TabOf DEF SignOnInvariant, SignOnShape, Tab
  <1>2. SettingsInv(tabs[t])'
    BY <1>1 DEF OnlyHears, SettingsInv, Fresh, InFlight
  <1>3. JarInv(tabs[t])'
    <2>1. CASE tabs[t].kind # kind
      <3>1. jar'[tabs[t].kind] = jar[tabs[t].kind]
        BY <1>1, <2>1
      <3> QED BY <1>1, <3>1 DEF OnlyHears, JarInv, InFlight
    <2>2. CASE tabs[t].kind = kind
      <3>1. jar'[tabs[t].kind] = n
        BY <1>1, <2>2
      <3>2. tabs[t].at \in {"provider", "returning"} => InFlight(tabs[t]) /\ tabs[t].flow # 0
        BY <1>1 DEF InFlight, LegsInv
      <3>3. tabs'[t].at \in {"provider", "returning"} =>
               n = tabs'[t].flow \/ tabs'[t].why \cap {"overtaken", "expired", "resent"} # {}
        BY <1>1, <2>2, <3>2 DEF OnlyHears, JarInv
      <3>4. tabs'[t].answer # "none" => tabs'[t].flow # 0
        BY <1>1 DEF OnlyHears, LegsInv
      <3>5. tabs'[t].answer # "none" /\ ("resent" \in tabs'[t].why \/ ~InFlight(tabs'[t])) =>
               n # tabs'[t].flow
        BY <3>4 DEF OnlyHears
      <3> QED BY <3>1, <3>3, <3>5 DEF OnlyHears, JarInv
    <2> QED BY <2>1, <2>2
  <1> QED BY <1>2, <1>3, HearsKeeps DEF TabInv

\* The reply of one tab takes the jar: it puts its flow there, or ends and takes all away.
LEMMA ReplyKeeps ==
    ASSUME SignOnInvariant, NEW t \in Tabs, ReplyArrives(t)
    PROVE  SignOnInvariant'
  <1> DEFINE kind == tabs[t].kind
             n == CookiesAfter(tabs[t])
             own == IF tabs[t].said = "go" THEN [tabs[t] EXCEPT !.at = "provider"]
                                           ELSE Ended(tabs[t])
             others == [tabs EXCEPT ![t] = own]
             Loses(tab) == tab.kind = kind /\ InFlight(tab) /\ tab.flow # 0
                             /\ tab.flow = jar[kind] /\ n # jar[kind]
  <1>1. /\ tabs \in [Tabs -> Tab] /\ tabs[t] \in Tab /\ kind \in {"oidc", "saml"}
        /\ LegsInv(tabs[t]) /\ CodeInv(tabs[t]) /\ SettingsInv(tabs[t])
        /\ tabs[t].flow \in Nat /\ jar \in [{"oidc", "saml"} -> Nat]
    BY TabOf DEF SignOnInvariant, SignOnShape, Tab
  <1>2. /\ tabs[t].at = "replying" /\ jar' = [jar EXCEPT ![kind] = n]
        /\ tabs' = [u \in Tabs |-> IF Loses(others[u])
                                   THEN [others[u] EXCEPT !.why = @ \cup {"overtaken"}]
                                   ELSE others[u]]
    BY DEF ReplyArrives, JarBecomes
  <1>3. UNCHANGED <<registered, samlSet, minted, spent, flows>>
    BY DEF ReplyArrives, SsoSettings
  <1>4. n \in Nat /\ (n # 0 => tabs[t].said = "go" /\ n = tabs[t].flow)
    BY <1>1 DEF CookiesAfter
  <1>5. jar' \in [{"oidc", "saml"} -> Nat] /\ jar'[kind] = n
    BY <1>1, <1>2, <1>4
  <1>6. own \in Tab /\ own.flow = tabs[t].flow /\ ~Loses(own)
    <2>1. CASE tabs[t].said = "go"
      BY <1>1, <2>1 DEF CookiesAfter, Tab, Stages
    <2>2. CASE tabs[t].said # "go"
      <3>1. own = [at |-> IF tabs[t].said = "session" THEN "signed" ELSE "refused",
                   kind |-> kind, flow |-> tabs[t].flow, by |-> tabs[t].by, now |-> Off,
                   sent |-> 0, answer |-> tabs[t].answer, said |-> "nothing",
                   why |-> tabs[t].why \cap {"resent", "blank", "declined"}]
        BY <2>2 DEF Ended, AtLogin
      <3>2. own \in Tab
        <4>1. (IF tabs[t].said = "session" THEN "signed" ELSE "refused") \in Stages
          BY DEF Stages
        <4>2. /\ tabs[t].by \in Registrations \cup {Off} /\ tabs[t].answer \in Answered
              /\ tabs[t].why \cap {"resent", "blank", "declined"} \in SUBSET Happenings
          BY <1>1 DEF Tab
        <4>3. "nothing" \in Told
          BY DEF Told
        <4> QED BY <1>1, <3>1, <4>1, <4>2, <4>3 DEF Tab
      <3>3. own.flow = tabs[t].flow /\ ~InFlight(own)
        BY <3>1 DEF InFlight
      <3> HIDE DEF own
      <3> QED BY <3>2, <3>3
    <2> QED BY <2>1, <2>2
  <1>7. tabs'[t] = own /\ TabInv(tabs[t])'
    <2>1. tabs'[t] = own
      <3> HIDE DEF own, n
      <3>1. others[t] = own
        BY <1>1
      <3> HIDE DEF others
      <3> QED BY <1>2, <1>6, <3>1
    <2>2. CASE tabs[t].said = "go"
      <3>1. /\ tabs'[t].at = "provider" /\ tabs'[t].kind = kind /\ tabs'[t].flow = tabs[t].flow
            /\ tabs'[t].by = tabs[t].by /\ tabs'[t].answer = tabs[t].answer
            /\ tabs'[t].said = "go" /\ tabs'[t].why = tabs[t].why
        BY <1>1, <2>1, <2>2 DEF Tab
      <3>2. jar'[kind] = tabs[t].flow
        BY <1>5, <2>2 DEF CookiesAfter
      <3>3. LegsInv(tabs[t])'
        BY <1>1, <1>2, <2>2, <3>1 DEF LegsInv
      <3>4. CodeInv(tabs[t])'
        BY <1>1, <1>2, <1>3, <2>2, <3>1 DEF CodeInv, Fresh
      <3>5. SettingsInv(tabs[t])'
        BY <1>1, <1>2, <1>3, <2>2, <3>1 DEF SettingsInv, Fresh, InFlight
      <3>6. JarInv(tabs[t])'
        BY <1>1, <1>2, <2>2, <3>1, <3>2, <3>3 DEF JarInv, InFlight, LegsInv
      <3> HIDE DEF own
      <3> QED BY <2>1, <3>1, <3>3, <3>4, <3>5, <3>6 DEF TabInv, ReasonInv
    <2>3. CASE tabs[t].said # "go"
      <3>1. /\ tabs'[t].at \in {"signed", "refused"} /\ tabs'[t].kind = kind
            /\ tabs'[t].flow = tabs[t].flow /\ tabs'[t].answer = tabs[t].answer
            /\ tabs'[t].said = "nothing"
            /\ tabs'[t].why = tabs[t].why \cap {"resent", "blank", "declined"}
        BY <1>1, <2>1, <2>3 DEF Ended, AtLogin
      <3>2. jar'[kind] = 0
        BY <1>5, <2>3 DEF CookiesAfter
      <3>3. LegsInv(tabs[t])'
        BY <1>1, <1>2, <2>3, <3>1 DEF LegsInv
      <3>4. CodeInv(tabs[t])' /\ SettingsInv(tabs[t])'
        BY <3>1 DEF CodeInv, SettingsInv, Fresh, InFlight
      <3>5. JarInv(tabs[t])'
        BY <3>1, <3>2, <3>3 DEF JarInv, LegsInv
      <3> HIDE DEF own
      <3> QED BY <2>1, <3>1, <3>3, <3>4, <3>5 DEF TabInv, ReasonInv
    <2> QED BY <2>1, <2>2, <2>3
  <1>8. ASSUME NEW u \in Tabs, u # t
        PROVE  /\ OnlyHears(u) /\ (Loses(tabs[u]) => "overtaken" \in tabs'[u].why)
               /\ (n # 0 => n # tabs[u].flow)
    <2> HIDE DEF own, n
    <2>1. others[u] = tabs[u] /\ tabs[u] \in Tab
      BY <1>1, <1>8
    <2> HIDE DEF others
    <2>2. \/ Loses(tabs[u]) /\ tabs'[u] = [tabs[u] EXCEPT !.why = @ \cup {"overtaken"}]
          \/ ~Loses(tabs[u]) /\ tabs'[u] = tabs[u]
      BY <1>2, <2>1
    <2>3. OnlyHears(u) /\ (Loses(tabs[u]) => "overtaken" \in tabs'[u].why)
      <3> HIDE DEF Loses
      <3>1. CASE tabs'[u] = [tabs[u] EXCEPT !.why = @ \cup {"overtaken"}]
        <4>1. tabs'[u] \in Tab
          BY <2>1, <3>1 DEF Tab, Happenings
        <4>2. /\ tabs'[u].at = tabs[u].at /\ tabs'[u].kind = tabs[u].kind
              /\ tabs'[u].flow = tabs[u].flow /\ tabs'[u].by = tabs[u].by
              /\ tabs'[u].now = tabs[u].now /\ tabs'[u].sent = tabs[u].sent
              /\ tabs'[u].answer = tabs[u].answer /\ tabs'[u].said = tabs[u].said
              /\ tabs'[u].why = tabs[u].why \cup {"overtaken"}
          BY <2>1, <3>1 DEF Tab
        <4> QED BY <4>1, <4>2 DEF OnlyHears
      <3>2. CASE ~Loses(tabs[u]) /\ tabs'[u] = tabs[u]
        BY <2>1, <3>2 DEF OnlyHears
      <3> QED BY <2>2, <3>1, <3>2
    <2>4. n # 0 => n # tabs[u].flow
      BY <1>4, <1>8 DEF SignOnInvariant, FlowsApart
    <2> QED BY <2>3, <2>4
  <1>9. ASSUME NEW u \in Tabs, u # t PROVE TabInv(tabs[u])'
    <2> HIDE DEF n
    <2> QED BY <1>1, <1>2, <1>3, <1>8, <1>9, JarKeeps
  <1>10. tabs' \in [Tabs -> Tab]
    <2> HIDE DEF own, n, others, Loses
    <2>1. \A u \in Tabs : tabs'[u] \in Tab
      BY <1>6, <1>7, <1>8 DEF OnlyHears
    <2> QED BY <1>2, <2>1
  <1>11. \A u \in Tabs : tabs'[u].flow = tabs[u].flow
    <2> HIDE DEF own, n, others, Loses
    <2> QED BY <1>6, <1>7, <1>8 DEF OnlyHears
  <1>12. registered' \in Registrations \cup {Off}
    BY <1>3, TabOf
  <1> HIDE DEF own, n, others, Loses
  <1>13. \A u \in Tabs : TabInv(tabs[u])'
    BY <1>7, <1>9
  <1> QED BY <1>3, <1>5, <1>10, <1>11, <1>12, <1>13, AllKeep

\* The cookies of a kind expire.
LEMMA ExpireKeeps ==
    ASSUME SignOnInvariant, CookiesExpire
    PROVE  SignOnInvariant'
  <1>1. PICK kind \in {"oidc", "saml"} :
          /\ jar' = [jar EXCEPT ![kind] = 0]
          /\ tabs' = [u \in Tabs |->
                 IF /\ tabs[u].kind = kind /\ InFlight(tabs[u])
                    /\ tabs[u].flow # 0 /\ tabs[u].flow = jar[kind] /\ 0 # jar[kind]
                 THEN [tabs[u] EXCEPT !.why = @ \cup {"expired"}]
                 ELSE tabs[u]]
    BY DEF CookiesExpire, JarBecomes
  <1>2. UNCHANGED <<registered, samlSet, minted, spent, flows>>
    BY DEF CookiesExpire, SsoSettings
  <1>3. /\ tabs \in [Tabs -> Tab] /\ jar \in [{"oidc", "saml"} -> Nat]
        /\ registered \in Registrations \cup {Off}
    BY DEF SignOnInvariant, SignOnShape
  <1>4. ASSUME NEW u \in Tabs
        PROVE  /\ OnlyHears(u)
               /\ tabs[u].kind = kind /\ InFlight(tabs[u]) /\ tabs[u].flow # 0
                    /\ tabs[u].flow = jar[kind] /\ 0 # jar[kind] => "expired" \in tabs'[u].why
    <2>1. tabs[u] \in Tab
      BY <1>3
    <2> QED BY <1>1, <2>1 DEF OnlyHears, Tab, Happenings
  <1>5. \A u \in Tabs : TabInv(tabs[u])'
    BY <1>1, <1>2, <1>4, JarKeeps
  <1>6. tabs' \in [Tabs -> Tab] /\ \A u \in Tabs : tabs'[u].flow = tabs[u].flow
    <2>1. \A u \in Tabs : tabs'[u] \in Tab /\ tabs'[u].flow = tabs[u].flow
      BY <1>4 DEF OnlyHears
    <2> QED BY <1>1, <2>1
  <1>7. jar' \in [{"oidc", "saml"} -> Nat]
    BY <1>1, <1>3
  <1> QED BY <1>2, <1>3, <1>5, <1>6, <1>7, AllKeep

\* An edit of the settings falls into every sign-in under way.
LEMMA EditKeeps ==
    ASSUME SignOnInvariant, EditSettings
    PROVE  SignOnInvariant'
  <1>1. /\ tabs' = [t \in Tabs |->
               IF InFlight(tabs[t])
               THEN [tabs[t] EXCEPT !.why = @ \cup {"edited"}
                                              \cup OffFor(tabs[t].kind, registered', samlSet')]
               ELSE tabs[t]]
        /\ registered' \in Registrations \cup {Off}
        /\ UNCHANGED <<jar, minted, spent, flows>>
    BY TabOf DEF EditSettings, SignOnInvariant, SignOnShape
  <1>2. tabs \in [Tabs -> Tab] /\ jar \in [{"oidc", "saml"} -> Nat]
    BY DEF SignOnInvariant, SignOnShape
  <1>3. ASSUME NEW u \in Tabs
        PROVE  /\ OnlyHears(u)
               /\ InFlight(tabs[u]) => /\ "edited" \in tabs'[u].why
                                       /\ OffFor(tabs[u].kind, registered', samlSet') \subseteq tabs'[u].why
    <2>1. tabs[u] \in Tab
      BY <1>2
    <2>2. OffFor(tabs[u].kind, registered', samlSet') \subseteq {"off"}
      BY DEF OffFor
    <2> QED BY <1>1, <2>1, <2>2 DEF OnlyHears, Tab, Happenings
  <1>4. ASSUME NEW u \in Tabs PROVE TabInv(tabs[u])'
    <2>1. JarInv(tabs[u]) /\ OnlyHears(u)
      BY <1>3, TabOf
    <2>2. JarInv(tabs[u])'
      BY <1>1, <2>1 DEF OnlyHears, JarInv, InFlight
    <2>3. SettingsInv(tabs[u])'
      BY <1>3, <2>1 DEF OnlyHears, SettingsInv, InFlight, Fresh
    <2> QED BY <1>1, <2>1, <2>2, <2>3, HearsKeeps DEF TabInv
  <1>5. tabs' \in [Tabs -> Tab] /\ \A u \in Tabs : tabs'[u].flow = tabs[u].flow
    <2>1. \A u \in Tabs : tabs'[u] \in Tab /\ tabs'[u].flow = tabs[u].flow
      BY <1>3 DEF OnlyHears
    <2> QED BY <1>1, <2>1
  <1> QED BY <1>1, <1>2, <1>4, <1>5, AllKeep

\* Every step of a sign-in keeps the invariant.
LEMMA SignOnStep == SignOnInvariant /\ [SignOnNext]_signOnVars => SignOnInvariant'
  <1> SUFFICES ASSUME SignOnInvariant, [SignOnNext]_signOnVars PROVE SignOnInvariant'
    OBVIOUS
  <1>1. ASSUME NEW t \in Tabs,
               \/ \E kind \in {"oidc", "saml"} : Start(t, kind)
               \/ StartReadsSettings(t) \/ StartDiscovers(t) \/ SamlStarts(t)
               \/ ReplyArrives(t) \/ ProviderAnswers(t) \/ Resend(t)
               \/ CallbackArrives(t) \/ FinishReadsSettings(t) \/ FinishDiscovers(t)
               \/ Exchange(t) \/ Verify(t) \/ SamlAcs(t)
        PROVE  SignOnInvariant'
    BY <1>1, StartKeeps, StartReadsSettingsKeeps, StartDiscoversKeeps, SamlStartsKeeps,
       ReplyKeeps, ProviderAnswersKeeps, ResendKeeps, CallbackArrivesKeeps,
       FinishReadsSettingsKeeps, FinishDiscoversKeeps, ExchangeKeeps, VerifyKeeps, SamlAcsKeeps
  <1>2. CASE UNCHANGED signOnVars
    <2>1. /\ tabs' = tabs /\ jar' = jar /\ registered' = registered /\ samlSet' = samlSet
          /\ UNCHANGED <<minted, spent, flows>>
      BY <1>2 DEF signOnVars
    <2>2. ASSUME NEW u \in Tabs PROVE TabInv(tabs[u])'
      <3>1. OnlyHears(u) /\ SettingsInv(tabs[u]) /\ JarInv(tabs[u])
        BY <2>1, TabOf DEF OnlyHears
      <3>2. SettingsInv(tabs[u])' /\ JarInv(tabs[u])'
        BY <2>1, <3>1 DEF SettingsInv, JarInv, Fresh
      <3> QED BY <2>1, <3>1, <3>2, HearsKeeps DEF TabInv
    <2> QED BY <2>1, <2>2, AllKeep DEF SignOnInvariant, SignOnShape
  <1> QED BY <1>1, <1>2, ExpireKeeps, EditKeeps DEF SignOnNext

\* What the invariant says of a session, of an ended flow and of a refusal.
LEMMA SignOnMeans == SignOnInvariant => SignOnHolds
  <1> SUFFICES ASSUME SignOnInvariant PROVE SignOnHolds
    OBVIOUS
  <1>1. SessionsAreEarned
    BY DEF SignOnInvariant, MintedInv, TabInv, CodeInv, SessionsAreEarned
  <1>2. FlowsEndOnce
    BY DEF SignOnInvariant, TabInv, JarInv, FlowsEndOnce
  <1>3. RefusalsAreTrue
    BY DEF SignOnInvariant, TabInv, ReasonInv, RefusalsAreTrue
  <1> QED BY <1>1, <1>2, <1>3 DEF SignOnHolds
-----------------------------------------------------------------------------
(* The dashboard. *)

\* A step of the dashboard is one of the sign-in, or leaves it alone.
LEMMA DashboardSignsOn == [DashboardNext]_dashboardVars => [SignOnNext]_signOnVars
  BY DEF DashboardNext, PageTurn, SignOnTurn, KeysTurn, dashboardVars

\* The same for the managed keys.
LEMMA DashboardAsksForKeys == [DashboardNext]_dashboardVars => [KeysNext]_keyVars
  BY DEF DashboardNext, PageTurn, SignOnTurn, KeysTurn, dashboardVars

\* A session comes from a code that was issued to who presents it, one from a
\* flow; an ended flow is never finished again; and who is sent back is told what
\* did happen: the handlers of services/auth-actix/src/sso_routes.rs, for every
\* interleaving of any number of tabs, edits, outages and expiries.
THEOREM SigningInIsEarned == DashboardSpec => []SignOnHolds
  <1>1. DashboardInit => SignOnInvariant
    BY SignOnInitially DEF DashboardInit
  <1>2. SignOnInvariant /\ [DashboardNext]_dashboardVars => SignOnInvariant'
    BY SignOnStep, DashboardSignsOn
  <1>3. SignOnInvariant => SignOnHolds
    BY SignOnMeans
  <1> QED BY <1>1, <1>2, <1>3, PTL DEF DashboardSpec

\* A call reaches a provider with a key that was active while it was under way,
\* or because the setting asks for none, and then behind the flag of the gateway
\* with a key that was active a verdict's life before; a call with a key is turned
\* away only if the key was not active then.  That is authorize_inner, auth's
\* cache and enforce_api_key, for any callers and however long the answers take.
THEOREM ManagedKeysDecide == DashboardSpec => []KeysHold
  <1>1. DashboardInit => KeysInv
    BY KeysInitially DEF DashboardInit
  <1>2. KeysInv /\ [DashboardNext]_dashboardVars => KeysInv'
    BY KeysStep, DashboardAsksForKeys
  <1>3. KeysInv => KeysHold
    BY KeysMean
  <1> QED BY <1>1, <1>2, <1>3, PTL DEF DashboardSpec

-----------------------------------------------------------------------------
(* The pages as data: what every one of them keeps to. *)

\* What of a control the page's steps go by.
Has(c, name, at, needs, changed, reloaded, first, found) ==
    /\ c.name = name /\ c.at = at /\ c.needs = needs /\ c.changes = changed
    /\ c.reloads = reloaded /\ c.clearsFirst = first /\ c.finds = found

\* A control fetches again the list it changes, keeps what was typed until it
\* is answered unless it is the named tunnel, and finds what a control of the
\* page waits for.
ControlSound(p, c) ==
    /\ c.changes \subseteq c.reloads
    /\ c.needs = "text" /\ c.clearsFirst => c.name = "enable named tunnel"
    /\ \A n \in c.finds : \E d \in p.controls : d.name = n /\ d.needs = "found"

\* A control is known by its name on the page.
PageSound(p) ==
    /\ \A c, d \in p.controls : c.name = d.name => c = d
    /\ \A c \in p.controls : ControlSound(p, c)

\* The page of routes/keys.rs is sound.
LEMMA KeysPageSound == PageSound(KeysPage)
  <1>1. PICK e1 :
          e1 = [Form("create key", "keys") EXCEPT !.reads = TRUE, !.tells = "page"]
    OBVIOUS
  <1>2. Has(e1, "create key", "page", "text", {"keys"}, {"keys"}, FALSE, {})
    BY <1>1 DEF Has, Form, Control
  <1>3. CreateKey = {e1}
    BY <1>1 DEF CreateKey
  <1>4. PICK e2 : e2 = OnRow("toggle key", "keys")  OBVIOUS
  <1>5. Has(e2, "toggle key", "keys", "nothing", {"keys"}, {"keys"}, FALSE, {})
    BY <1>4 DEF Has, OnRow, Control
  <1>6. KeyRow = {e2}
    BY <1>4 DEF KeyRow
  <1>7. KeysPage.controls = {e1, e2}
    BY <1>3, <1>6 DEF KeysPage
  <1>8. ASSUME NEW c \in KeysPage.controls, NEW d \in KeysPage.controls, c.name = d.name
        PROVE  c = d
    <2>1. CASE c = e1
      BY <1>7, <1>8, <2>1, <1>2, <1>5 DEF Has
    <2>2. CASE c = e2
      BY <1>7, <1>8, <2>2, <1>2, <1>5 DEF Has
    <2> QED
      BY <1>7, <1>8, <2>1, <2>2
  <1>9. ASSUME NEW c \in KeysPage.controls PROVE ControlSound(KeysPage, c)
    <2>1. CASE c = e1
      BY <1>2, <2>1 DEF Has, ControlSound
    <2>2. CASE c = e2
      BY <1>5, <2>2 DEF Has, ControlSound
    <2> QED
      BY <1>7, <1>9, <2>1, <2>2
  <1> QED BY <1>8, <1>9 DEF PageSound

\* The page of routes/combos.rs is sound.
LEMMA CombosPageSound == PageSound(CombosPage)
  <1>1. PICK e1 : e1 = Form("create combo", "combos")  OBVIOUS
  <1>2. Has(e1, "create combo", "page", "text", {"combos"}, {"combos"}, FALSE, {})
    BY <1>1 DEF Has, Form, Control
  <1>3. ComboForm = {e1}
    BY <1>1 DEF ComboForm
  <1>4. PICK e2 : e2 = [RowForm("edit combo", "combos") EXCEPT !.save = "combo card"]  OBVIOUS
  <1>5. PICK e3 : e3 = [OnRow("delete combo", "combos") EXCEPT !.save = "combo card"]  OBVIOUS
  <1>6. Has(e2, "edit combo", "combos", "text", {"combos"}, {"combos"}, FALSE, {})
    BY <1>4 DEF Has, RowForm, OnRow, Control
  <1>7. Has(e3, "delete combo", "combos", "nothing", {"combos"}, {"combos"}, FALSE, {})
    BY <1>5 DEF Has, RowForm, OnRow, Control
  <1>8. ComboCard = {e2, e3}
    BY <1>4, <1>5 DEF ComboCard
  <1>9. CombosPage.controls = {e1, e2, e3}
    BY <1>3, <1>8 DEF CombosPage
  <1>10. ASSUME NEW c \in CombosPage.controls, NEW d \in CombosPage.controls, c.name = d.name
        PROVE  c = d
    <2>1. CASE c = e1
      BY <1>9, <1>10, <2>1, <1>2, <1>6, <1>7 DEF Has
    <2>2. CASE c = e2
      BY <1>9, <1>10, <2>2, <1>2, <1>6, <1>7 DEF Has
    <2>3. CASE c = e3
      BY <1>9, <1>10, <2>3, <1>2, <1>6, <1>7 DEF Has
    <2> QED
      BY <1>9, <1>10, <2>1, <2>2, <2>3
  <1>11. ASSUME NEW c \in CombosPage.controls PROVE ControlSound(CombosPage, c)
    <2>1. CASE c = e1
      BY <1>2, <2>1 DEF Has, ControlSound
    <2>2. CASE c = e2
      BY <1>6, <2>2 DEF Has, ControlSound
    <2>3. CASE c = e3
      BY <1>7, <2>3 DEF Has, ControlSound
    <2> QED
      BY <1>9, <1>11, <2>1, <2>2, <2>3
  <1> QED BY <1>10, <1>11 DEF PageSound

\* The page of routes/users.rs is sound.
LEMMA UsersPageSound == PageSound(UsersPage)
  <1>1. PICK e1 : e1 = OnRow("change user", "users")  OBVIOUS
  <1>2. Has(e1, "change user", "users", "nothing", {"users"}, {"users"}, FALSE, {})
    BY <1>1 DEF Has, OnRow, Control
  <1>3. UserRow = {e1}
    BY <1>1 DEF UserRow
  <1>4. PICK e2 : e2 = DialogForm("create user", "users")  OBVIOUS
  <1>5. Has(e2, "create user", "dialog", "text", {"users"}, {"users"}, FALSE, {})
    BY <1>4 DEF Has, DialogForm, Form, Control
  <1>6. CreateUserDialog = {e2}
    BY <1>4 DEF CreateUserDialog
  <1>7. PICK e3 : e3 = [DialogForm("set password", "users") EXCEPT !.perRow = TRUE]  OBVIOUS
  <1>8. Has(e3, "set password", "dialog", "text", {"users"}, {"users"}, FALSE, {})
    BY <1>7 DEF Has, DialogForm, Form, Control
  <1>9. PasswordDialog = {e3}
    BY <1>7 DEF PasswordDialog
  <1>10. PICK e4 :
          e4 = [DialogForm("delete user", "users") EXCEPT !.perRow = TRUE, !.needs = "nothing", !.clears = FALSE]
    OBVIOUS
  <1>11. Has(e4, "delete user", "dialog", "nothing", {"users"}, {"users"}, FALSE, {})
    BY <1>10 DEF Has, DialogForm, Form, Control
  <1>12. DeleteUserDialog = {e4}
    BY <1>10 DEF DeleteUserDialog
  <1>13. UsersPage.controls = {e1, e2, e3, e4}
    BY <1>3, <1>6, <1>9, <1>12 DEF UsersPage
  <1>14. ASSUME NEW c \in UsersPage.controls, NEW d \in UsersPage.controls, c.name = d.name
        PROVE  c = d
    <2>1. CASE c = e1
      BY <1>13, <1>14, <2>1, <1>2, <1>5, <1>8, <1>11 DEF Has
    <2>2. CASE c = e2
      BY <1>13, <1>14, <2>2, <1>2, <1>5, <1>8, <1>11 DEF Has
    <2>3. CASE c = e3
      BY <1>13, <1>14, <2>3, <1>2, <1>5, <1>8, <1>11 DEF Has
    <2>4. CASE c = e4
      BY <1>13, <1>14, <2>4, <1>2, <1>5, <1>8, <1>11 DEF Has
    <2> QED
      BY <1>13, <1>14, <2>1, <2>2, <2>3, <2>4
  <1>15. ASSUME NEW c \in UsersPage.controls PROVE ControlSound(UsersPage, c)
    <2>1. CASE c = e1
      BY <1>2, <2>1 DEF Has, ControlSound
    <2>2. CASE c = e2
      BY <1>5, <2>2 DEF Has, ControlSound
    <2>3. CASE c = e3
      BY <1>8, <2>3 DEF Has, ControlSound
    <2>4. CASE c = e4
      BY <1>11, <2>4 DEF Has, ControlSound
    <2> QED
      BY <1>13, <1>15, <2>1, <2>2, <2>3, <2>4
  <1> QED BY <1>14, <1>15 DEF PageSound

\* The page of routes/settings.rs is sound.
LEMMA SettingsPageSound == PageSound(SettingsPage)
  <1>1. PICK e1 :
          e1 = [InPanel("save settings", "settings") EXCEPT !.needs = "nothing", !.saveOnPage = TRUE]
    OBVIOUS
  <1>2. Has(e1, "save settings", "settings", "nothing", {"settings"}, {"settings"}, FALSE, {})
    BY <1>1 DEF Has, InPanel, Form, Control
  <1>3. SettingsForms = {e1}
    BY <1>1 DEF SettingsForms
  <1>4. PICK e2 : e2 = [Control("migrate") EXCEPT !.tells = "here"]  OBVIOUS
  <1>5. Has(e2, "migrate", "page", "nothing", {}, {}, FALSE, {})
    BY <1>4 DEF Has, Control
  <1>6. MigrateCard = {e2}
    BY <1>4 DEF MigrateCard
  <1>7. SettingsPage.controls = {e1, e2}
    BY <1>3, <1>6 DEF SettingsPage
  <1>8. ASSUME NEW c \in SettingsPage.controls, NEW d \in SettingsPage.controls, c.name = d.name
        PROVE  c = d
    <2>1. CASE c = e1
      BY <1>7, <1>8, <2>1, <1>2, <1>5 DEF Has
    <2>2. CASE c = e2
      BY <1>7, <1>8, <2>2, <1>2, <1>5 DEF Has
    <2> QED
      BY <1>7, <1>8, <2>1, <2>2
  <1>9. ASSUME NEW c \in SettingsPage.controls PROVE ControlSound(SettingsPage, c)
    <2>1. CASE c = e1
      BY <1>2, <2>1 DEF Has, ControlSound
    <2>2. CASE c = e2
      BY <1>5, <2>2 DEF Has, ControlSound
    <2> QED
      BY <1>7, <1>9, <2>1, <2>2
  <1> QED BY <1>8, <1>9 DEF PageSound

\* The page of routes/sso.rs is sound.
LEMMA SsoPageSound == PageSound(SsoPage)
  <1>1. PICK e1 : e1 = InPanel("save oidc", "settings")  OBVIOUS
  <1>2. PICK e2 :
          e2 = [Control("test oidc") EXCEPT !.at = "settings", !.reads = TRUE, !.tells = "here"]
    OBVIOUS
  <1>3. Has(e1, "save oidc", "settings", "text", {"settings"}, {"settings"}, FALSE, {})
    BY <1>1 DEF Has, InPanel, Form, Control
  <1>4. Has(e2, "test oidc", "settings", "nothing", {}, {}, FALSE, {})
    BY <1>2 DEF Has, InPanel, Form, Control
  <1>5. OidcForm = {e1, e2}
    BY <1>1, <1>2 DEF OidcForm
  <1>6. PICK e3 : e3 = InPanel("save saml", "settings")  OBVIOUS
  <1>7. Has(e3, "save saml", "settings", "text", {"settings"}, {"settings"}, FALSE, {})
    BY <1>6 DEF Has, InPanel, Form, Control
  <1>8. SamlForm = {e3}
    BY <1>6 DEF SamlForm
  <1>9. SsoPage.controls = {e1, e2, e3}
    BY <1>5, <1>8 DEF SsoPage
  <1>10. ASSUME NEW c \in SsoPage.controls, NEW d \in SsoPage.controls, c.name = d.name
        PROVE  c = d
    <2>1. CASE c = e1
      BY <1>9, <1>10, <2>1, <1>3, <1>4, <1>7 DEF Has
    <2>2. CASE c = e2
      BY <1>9, <1>10, <2>2, <1>3, <1>4, <1>7 DEF Has
    <2>3. CASE c = e3
      BY <1>9, <1>10, <2>3, <1>3, <1>4, <1>7 DEF Has
    <2> QED
      BY <1>9, <1>10, <2>1, <2>2, <2>3
  <1>11. ASSUME NEW c \in SsoPage.controls PROVE ControlSound(SsoPage, c)
    <2>1. CASE c = e1
      BY <1>3, <2>1 DEF Has, ControlSound
    <2>2. CASE c = e2
      BY <1>4, <2>2 DEF Has, ControlSound
    <2>3. CASE c = e3
      BY <1>7, <2>3 DEF Has, ControlSound
    <2> QED
      BY <1>9, <1>11, <2>1, <2>2, <2>3
  <1> QED BY <1>10, <1>11 DEF PageSound

\* The page of routes/providers.rs, one provider's page is sound.
LEMMA ProviderPageSound == PageSound(ProviderPage)
  <1>1. PICK e1 : e1 = Form("add connection", "connections")  OBVIOUS
  <1>2. Has(e1, "add connection", "page", "text", {"connections"}, {"connections"}, FALSE, {})
    BY <1>1 DEF Has, Form, Control
  <1>3. AddConnection = {e1}
    BY <1>1 DEF AddConnection
  <1>4. PICK e2 :
          e2 = [OnRow("toggle connection", "connections") EXCEPT !.save = "connection"]
    OBVIOUS
  <1>5. PICK e3 :
          e3 = [OnRow("delete connection", "connections") EXCEPT !.save = "connection"]
    OBVIOUS
  <1>6. PICK e4 :
          e4 = [OnRow("test connection", "connections") EXCEPT !.changes = {}, !.reloads = {}, !.reads = TRUE, !.tells = "here"]
    OBVIOUS
  <1>7. Has(e2, "toggle connection", "connections", "nothing", {"connections"}, {"connections"}, FALSE, {})
    BY <1>4 DEF Has, OnRow, Control
  <1>8. Has(e3, "delete connection", "connections", "nothing", {"connections"}, {"connections"}, FALSE, {})
    BY <1>5 DEF Has, OnRow, Control
  <1>9. Has(e4, "test connection", "connections", "nothing", {}, {}, FALSE, {})
    BY <1>6 DEF Has, OnRow, Control
  <1>10. ConnectionRow = {e2, e3, e4}
    BY <1>4, <1>5, <1>6 DEF ConnectionRow
  <1>11. ProviderPage.controls = {e1, e2, e3, e4}
    BY <1>3, <1>10 DEF ProviderPage
  <1>12. ASSUME NEW c \in ProviderPage.controls, NEW d \in ProviderPage.controls, c.name = d.name
        PROVE  c = d
    <2>1. CASE c = e1
      BY <1>11, <1>12, <2>1, <1>2, <1>7, <1>8, <1>9 DEF Has
    <2>2. CASE c = e2
      BY <1>11, <1>12, <2>2, <1>2, <1>7, <1>8, <1>9 DEF Has
    <2>3. CASE c = e3
      BY <1>11, <1>12, <2>3, <1>2, <1>7, <1>8, <1>9 DEF Has
    <2>4. CASE c = e4
      BY <1>11, <1>12, <2>4, <1>2, <1>7, <1>8, <1>9 DEF Has
    <2> QED
      BY <1>11, <1>12, <2>1, <2>2, <2>3, <2>4
  <1>13. ASSUME NEW c \in ProviderPage.controls PROVE ControlSound(ProviderPage, c)
    <2>1. CASE c = e1
      BY <1>2, <2>1 DEF Has, ControlSound
    <2>2. CASE c = e2
      BY <1>7, <2>2 DEF Has, ControlSound
    <2>3. CASE c = e3
      BY <1>8, <2>3 DEF Has, ControlSound
    <2>4. CASE c = e4
      BY <1>9, <2>4 DEF Has, ControlSound
    <2> QED
      BY <1>11, <1>13, <2>1, <2>2, <2>3, <2>4
  <1> QED BY <1>12, <1>13 DEF PageSound

\* The page of routes/provider_nodes.rs is sound.
LEMMA NodesPageSound == PageSound(NodesPage)
  <1>1. PICK e1 : e1 = DialogForm("create node", "nodes")  OBVIOUS
  <1>2. Has(e1, "create node", "dialog", "text", {"nodes"}, {"nodes"}, FALSE, {})
    BY <1>1 DEF Has, DialogForm, Form, Control
  <1>3. CreateNodeDialog = {e1}
    BY <1>1 DEF CreateNodeDialog
  <1>4. PICK e2 :
          e2 = [Asked("edit node", "nodes") EXCEPT !.needs = "text", !.clears = TRUE]
    OBVIOUS
  <1>5. Has(e2, "edit node", "asked", "text", {"nodes"}, {"nodes"}, FALSE, {})
    BY <1>4 DEF Has, Asked, Control
  <1>6. EditNodeDialog = {e2}
    BY <1>4 DEF EditNodeDialog
  <1>7. PICK e3 : e3 = Asked("delete node", "nodes")  OBVIOUS
  <1>8. Has(e3, "delete node", "asked", "nothing", {"nodes"}, {"nodes"}, FALSE, {})
    BY <1>7 DEF Has, Asked, Control
  <1>9. DeleteNodeDialog = {e3}
    BY <1>7 DEF DeleteNodeDialog
  <1>10. NodesPage.controls = {e1, e2, e3}
    BY <1>3, <1>6, <1>9 DEF NodesPage
  <1>11. ASSUME NEW c \in NodesPage.controls, NEW d \in NodesPage.controls, c.name = d.name
        PROVE  c = d
    <2>1. CASE c = e1
      BY <1>10, <1>11, <2>1, <1>2, <1>5, <1>8 DEF Has
    <2>2. CASE c = e2
      BY <1>10, <1>11, <2>2, <1>2, <1>5, <1>8 DEF Has
    <2>3. CASE c = e3
      BY <1>10, <1>11, <2>3, <1>2, <1>5, <1>8 DEF Has
    <2> QED
      BY <1>10, <1>11, <2>1, <2>2, <2>3
  <1>12. ASSUME NEW c \in NodesPage.controls PROVE ControlSound(NodesPage, c)
    <2>1. CASE c = e1
      BY <1>2, <2>1 DEF Has, ControlSound
    <2>2. CASE c = e2
      BY <1>5, <2>2 DEF Has, ControlSound
    <2>3. CASE c = e3
      BY <1>8, <2>3 DEF Has, ControlSound
    <2> QED
      BY <1>10, <1>12, <2>1, <2>2, <2>3
  <1> QED BY <1>11, <1>12 DEF PageSound

\* The page of routes/models.rs is sound.
LEMMA ModelsPageSound == PageSound(ModelsPage)
  <1>1. PICK e1 :
          e1 = [Control("test model") EXCEPT !.at = "catalogue", !.perRow = TRUE, !.reads = TRUE, !.tells = "here"]
    OBVIOUS
  <1>2. Has(e1, "test model", "catalogue", "nothing", {}, {}, FALSE, {})
    BY <1>1 DEF Has, Control
  <1>3. ModelEntry = {e1}
    BY <1>1 DEF ModelEntry
  <1>4. PICK e2 : e2 = OfModels(InPanel("hold back", "disabled"))  OBVIOUS
  <1>5. Has(e2, "hold back", "disabled", "text", {"disabled"}, ModelLists, FALSE, {})
    BY <1>4 DEF Has, OfModels, InPanel, Form, Control
  <1>6. DisabledBody = {e2}
    BY <1>4 DEF DisabledBody
  <1>7. PICK e3 : e3 = OfModels(OnRow("enable all", "disabled"))  OBVIOUS
  <1>8. Has(e3, "enable all", "disabled", "nothing", {"disabled"}, ModelLists, FALSE, {})
    BY <1>7 DEF Has, OfModels, OnRow, Control
  <1>9. DisabledProvider = {e3}
    BY <1>7 DEF DisabledProvider
  <1>10. PICK e4 : e4 = OfModels(OnRow("enable one", "disabled"))  OBVIOUS
  <1>11. Has(e4, "enable one", "disabled", "nothing", {"disabled"}, ModelLists, FALSE, {})
    BY <1>10 DEF Has, OfModels, OnRow, Control
  <1>12. DisabledId = {e4}
    BY <1>10 DEF DisabledId
  <1>13. PICK e5 : e5 = OfModels(InPanel("add custom", "custom"))  OBVIOUS
  <1>14. Has(e5, "add custom", "custom", "text", {"custom"}, ModelLists, FALSE, {})
    BY <1>13 DEF Has, OfModels, InPanel, Form, Control
  <1>15. CustomBody = {e5}
    BY <1>13 DEF CustomBody
  <1>16. PICK e6 : e6 = OfModels(OnRow("remove custom", "custom"))  OBVIOUS
  <1>17. Has(e6, "remove custom", "custom", "nothing", {"custom"}, ModelLists, FALSE, {})
    BY <1>16 DEF Has, OfModels, OnRow, Control
  <1>18. CustomRow = {e6}
    BY <1>16 DEF CustomRow
  <1>19. PICK e7 : e7 = OfModels(InPanel("set alias", "aliases"))  OBVIOUS
  <1>20. Has(e7, "set alias", "aliases", "text", {"aliases"}, ModelLists, FALSE, {})
    BY <1>19 DEF Has, OfModels, InPanel, Form, Control
  <1>21. AliasBody = {e7}
    BY <1>19 DEF AliasBody
  <1>22. PICK e8 : e8 = OfModels(OnRow("remove alias", "aliases"))  OBVIOUS
  <1>23. Has(e8, "remove alias", "aliases", "nothing", {"aliases"}, ModelLists, FALSE, {})
    BY <1>22 DEF Has, OfModels, OnRow, Control
  <1>24. AliasRow = {e8}
    BY <1>22 DEF AliasRow
  <1>25. ModelsPage.controls = {e1, e2, e3, e4, e5, e6, e7, e8}
    BY <1>3, <1>6, <1>9, <1>12, <1>15, <1>18, <1>21, <1>24 DEF ModelsPage
  <1>26. ASSUME NEW c \in ModelsPage.controls, NEW d \in ModelsPage.controls, c.name = d.name
        PROVE  c = d
    <2>1. CASE c = e1
      BY <1>25, <1>26, <2>1, <1>2, <1>5, <1>8, <1>11, <1>14, <1>17, <1>20, <1>23 DEF Has
    <2>2. CASE c = e2
      BY <1>25, <1>26, <2>2, <1>2, <1>5, <1>8, <1>11, <1>14, <1>17, <1>20, <1>23 DEF Has
    <2>3. CASE c = e3
      BY <1>25, <1>26, <2>3, <1>2, <1>5, <1>8, <1>11, <1>14, <1>17, <1>20, <1>23 DEF Has
    <2>4. CASE c = e4
      BY <1>25, <1>26, <2>4, <1>2, <1>5, <1>8, <1>11, <1>14, <1>17, <1>20, <1>23 DEF Has
    <2>5. CASE c = e5
      BY <1>25, <1>26, <2>5, <1>2, <1>5, <1>8, <1>11, <1>14, <1>17, <1>20, <1>23 DEF Has
    <2>6. CASE c = e6
      BY <1>25, <1>26, <2>6, <1>2, <1>5, <1>8, <1>11, <1>14, <1>17, <1>20, <1>23 DEF Has
    <2>7. CASE c = e7
      BY <1>25, <1>26, <2>7, <1>2, <1>5, <1>8, <1>11, <1>14, <1>17, <1>20, <1>23 DEF Has
    <2>8. CASE c = e8
      BY <1>25, <1>26, <2>8, <1>2, <1>5, <1>8, <1>11, <1>14, <1>17, <1>20, <1>23 DEF Has
    <2> QED
      BY <1>25, <1>26, <2>1, <2>2, <2>3, <2>4, <2>5, <2>6, <2>7, <2>8
  <1>27. ASSUME NEW c \in ModelsPage.controls PROVE ControlSound(ModelsPage, c)
    <2>1. CASE c = e1
      BY <1>2, <2>1 DEF Has, ControlSound, ModelLists
    <2>2. CASE c = e2
      BY <1>5, <2>2 DEF Has, ControlSound, ModelLists
    <2>3. CASE c = e3
      BY <1>8, <2>3 DEF Has, ControlSound, ModelLists
    <2>4. CASE c = e4
      BY <1>11, <2>4 DEF Has, ControlSound, ModelLists
    <2>5. CASE c = e5
      BY <1>14, <2>5 DEF Has, ControlSound, ModelLists
    <2>6. CASE c = e6
      BY <1>17, <2>6 DEF Has, ControlSound, ModelLists
    <2>7. CASE c = e7
      BY <1>20, <2>7 DEF Has, ControlSound, ModelLists
    <2>8. CASE c = e8
      BY <1>23, <2>8 DEF Has, ControlSound, ModelLists
    <2> QED
      BY <1>25, <1>27, <2>1, <2>2, <2>3, <2>4, <2>5, <2>6, <2>7, <2>8
  <1> QED BY <1>26, <1>27 DEF PageSound

\* The page of routes/pricing.rs is sound.
LEMMA PricingPageSound == PageSound(PricingPage)
  <1>1. PICK e1 : e1 = DialogForm("add override", "prices")  OBVIOUS
  <1>2. Has(e1, "add override", "dialog", "text", {"prices"}, {"prices"}, FALSE, {})
    BY <1>1 DEF Has, DialogForm, Form, Control
  <1>3. AddOverride = {e1}
    BY <1>1 DEF AddOverride
  <1>4. PICK e2 : e2 = [RowForm("edit price", "prices") EXCEPT !.save = "price row"]  OBVIOUS
  <1>5. PICK e3 : e3 = [OnRow("reset price", "prices") EXCEPT !.save = "price row"]  OBVIOUS
  <1>6. Has(e2, "edit price", "prices", "text", {"prices"}, {"prices"}, FALSE, {})
    BY <1>4 DEF Has, RowForm, OnRow, Control
  <1>7. Has(e3, "reset price", "prices", "nothing", {"prices"}, {"prices"}, FALSE, {})
    BY <1>5 DEF Has, RowForm, OnRow, Control
  <1>8. PriceRowView = {e2, e3}
    BY <1>4, <1>5 DEF PriceRowView
  <1>9. PricingPage.controls = {e1, e2, e3}
    BY <1>3, <1>8 DEF PricingPage
  <1>10. ASSUME NEW c \in PricingPage.controls, NEW d \in PricingPage.controls, c.name = d.name
        PROVE  c = d
    <2>1. CASE c = e1
      BY <1>9, <1>10, <2>1, <1>2, <1>6, <1>7 DEF Has
    <2>2. CASE c = e2
      BY <1>9, <1>10, <2>2, <1>2, <1>6, <1>7 DEF Has
    <2>3. CASE c = e3
      BY <1>9, <1>10, <2>3, <1>2, <1>6, <1>7 DEF Has
    <2> QED
      BY <1>9, <1>10, <2>1, <2>2, <2>3
  <1>11. ASSUME NEW c \in PricingPage.controls PROVE ControlSound(PricingPage, c)
    <2>1. CASE c = e1
      BY <1>2, <2>1 DEF Has, ControlSound
    <2>2. CASE c = e2
      BY <1>6, <2>2 DEF Has, ControlSound
    <2>3. CASE c = e3
      BY <1>7, <2>3 DEF Has, ControlSound
    <2> QED
      BY <1>9, <1>11, <2>1, <2>2, <2>3
  <1> QED BY <1>10, <1>11 DEF PageSound

\* The page of routes/proxy_pools.rs is sound.
LEMMA PoolsPageSound == PageSound(PoolsPage)
  <1>1. PICK e1 : e1 = DialogForm("create pool", "pools")  OBVIOUS
  <1>2. Has(e1, "create pool", "dialog", "text", {"pools"}, {"pools"}, FALSE, {})
    BY <1>1 DEF Has, DialogForm, Form, Control
  <1>3. CreatePoolDialog = {e1}
    BY <1>1 DEF CreatePoolDialog
  <1>4. PICK e2 :
          e2 = [OnRow("test pool", "pools") EXCEPT !.save = "pool card", !.changes = {}, !.flag = TRUE, !.tells = "here"]
    OBVIOUS
  <1>5. PICK e3 : e3 = [OnRow("toggle pool", "pools") EXCEPT !.save = "pool card"]  OBVIOUS
  <1>6. PICK e4 :
          e4 = [OnRow("delete pool", "pools") EXCEPT !.save = "pool card", !.needs = "confirmation", !.takesBack = TRUE, !.clears = TRUE]
    OBVIOUS
  <1>7. Has(e2, "test pool", "pools", "nothing", {}, {"pools"}, FALSE, {})
    BY <1>4 DEF Has, OnRow, Control
  <1>8. Has(e3, "toggle pool", "pools", "nothing", {"pools"}, {"pools"}, FALSE, {})
    BY <1>5 DEF Has, OnRow, Control
  <1>9. Has(e4, "delete pool", "pools", "confirmation", {"pools"}, {"pools"}, FALSE, {})
    BY <1>6 DEF Has, OnRow, Control
  <1>10. PoolCard = {e2, e3, e4}
    BY <1>4, <1>5, <1>6 DEF PoolCard
  <1>11. PICK e5 : e5 = [Form("deploy relay", "pools") EXCEPT !.tells = "here"]  OBVIOUS
  <1>12. Has(e5, "deploy relay", "page", "text", {"pools"}, {"pools"}, FALSE, {})
    BY <1>11 DEF Has, Form, Control
  <1>13. DeployCard = {e5}
    BY <1>11 DEF DeployCard
  <1>14. PoolsPage.controls = {e1, e2, e3, e4, e5}
    BY <1>3, <1>10, <1>13 DEF PoolsPage
  <1>15. ASSUME NEW c \in PoolsPage.controls, NEW d \in PoolsPage.controls, c.name = d.name
        PROVE  c = d
    <2>1. CASE c = e1
      BY <1>14, <1>15, <2>1, <1>2, <1>7, <1>8, <1>9, <1>12 DEF Has
    <2>2. CASE c = e2
      BY <1>14, <1>15, <2>2, <1>2, <1>7, <1>8, <1>9, <1>12 DEF Has
    <2>3. CASE c = e3
      BY <1>14, <1>15, <2>3, <1>2, <1>7, <1>8, <1>9, <1>12 DEF Has
    <2>4. CASE c = e4
      BY <1>14, <1>15, <2>4, <1>2, <1>7, <1>8, <1>9, <1>12 DEF Has
    <2>5. CASE c = e5
      BY <1>14, <1>15, <2>5, <1>2, <1>7, <1>8, <1>9, <1>12 DEF Has
    <2> QED
      BY <1>14, <1>15, <2>1, <2>2, <2>3, <2>4, <2>5
  <1>16. ASSUME NEW c \in PoolsPage.controls PROVE ControlSound(PoolsPage, c)
    <2>1. CASE c = e1
      BY <1>2, <2>1 DEF Has, ControlSound
    <2>2. CASE c = e2
      BY <1>7, <2>2 DEF Has, ControlSound
    <2>3. CASE c = e3
      BY <1>8, <2>3 DEF Has, ControlSound
    <2>4. CASE c = e4
      BY <1>9, <2>4 DEF Has, ControlSound
    <2>5. CASE c = e5
      BY <1>12, <2>5 DEF Has, ControlSound
    <2> QED
      BY <1>14, <1>16, <2>1, <2>2, <2>3, <2>4, <2>5
  <1> QED BY <1>15, <1>16 DEF PageSound

\* The page of routes/headroom.rs is sound.
LEMMA HeadroomPageSound == PageSound(HeadroomPage)
  <1>1. PICK e1 : e1 = Action("start", "status", HeadroomLists)  OBVIOUS
  <1>2. PICK e2 : e2 = Action("stop", "status", HeadroomLists)  OBVIOUS
  <1>3. PICK e3 : e3 = Action("restart", "status", HeadroomLists)  OBVIOUS
  <1>4. Has(e1, "start", "page", "nothing", {"status"}, HeadroomLists, FALSE, {})
    BY <1>1 DEF Has, Action, Button, Control
  <1>5. Has(e2, "stop", "page", "nothing", {"status"}, HeadroomLists, FALSE, {})
    BY <1>2 DEF Has, Action, Button, Control
  <1>6. Has(e3, "restart", "page", "nothing", {"status"}, HeadroomLists, FALSE, {})
    BY <1>3 DEF Has, Action, Button, Control
  <1>7. HeadroomPanel = {e1, e2, e3}
    BY <1>1, <1>2, <1>3 DEF HeadroomPanel
  <1>8. PICK e4 :
          e4 = [Action("install extras", "extras", HeadroomLists) EXCEPT !.needs = "text"]
    OBVIOUS
  <1>9. PICK e5 :
          e5 = [Action("remove extras", "extras", HeadroomLists) EXCEPT !.needs = "text"]
    OBVIOUS
  <1>10. Has(e4, "install extras", "page", "text", {"extras"}, HeadroomLists, FALSE, {})
    BY <1>8 DEF Has, Action, Button, Control
  <1>11. Has(e5, "remove extras", "page", "text", {"extras"}, HeadroomLists, FALSE, {})
    BY <1>9 DEF Has, Action, Button, Control
  <1>12. ExtrasForm = {e4, e5}
    BY <1>8, <1>9 DEF ExtrasForm
  <1>13. HeadroomPage.controls = {e1, e2, e3, e4, e5}
    BY <1>7, <1>12 DEF HeadroomPage
  <1>14. ASSUME NEW c \in HeadroomPage.controls, NEW d \in HeadroomPage.controls, c.name = d.name
        PROVE  c = d
    <2>1. CASE c = e1
      BY <1>13, <1>14, <2>1, <1>4, <1>5, <1>6, <1>10, <1>11 DEF Has
    <2>2. CASE c = e2
      BY <1>13, <1>14, <2>2, <1>4, <1>5, <1>6, <1>10, <1>11 DEF Has
    <2>3. CASE c = e3
      BY <1>13, <1>14, <2>3, <1>4, <1>5, <1>6, <1>10, <1>11 DEF Has
    <2>4. CASE c = e4
      BY <1>13, <1>14, <2>4, <1>4, <1>5, <1>6, <1>10, <1>11 DEF Has
    <2>5. CASE c = e5
      BY <1>13, <1>14, <2>5, <1>4, <1>5, <1>6, <1>10, <1>11 DEF Has
    <2> QED
      BY <1>13, <1>14, <2>1, <2>2, <2>3, <2>4, <2>5
  <1>15. ASSUME NEW c \in HeadroomPage.controls PROVE ControlSound(HeadroomPage, c)
    <2>1. CASE c = e1
      BY <1>4, <2>1 DEF Has, ControlSound, HeadroomLists
    <2>2. CASE c = e2
      BY <1>5, <2>2 DEF Has, ControlSound, HeadroomLists
    <2>3. CASE c = e3
      BY <1>6, <2>3 DEF Has, ControlSound, HeadroomLists
    <2>4. CASE c = e4
      BY <1>10, <2>4 DEF Has, ControlSound, HeadroomLists
    <2>5. CASE c = e5
      BY <1>11, <2>5 DEF Has, ControlSound, HeadroomLists
    <2> QED
      BY <1>13, <1>15, <2>1, <2>2, <2>3, <2>4, <2>5
  <1> QED BY <1>14, <1>15 DEF PageSound

\* The page of routes/pxpipe.rs is sound.
LEMMA PxpipePageSound == PageSound(PxpipePage)
  <1>1. PICK e1 : e1 = Action("start", "status", PxpipeLists)  OBVIOUS
  <1>2. PICK e2 : e2 = Action("stop", "status", PxpipeLists)  OBVIOUS
  <1>3. PICK e3 : e3 = Action("restart", "status", PxpipeLists)  OBVIOUS
  <1>4. PICK e4 : e4 = Action("install", "status", PxpipeLists)  OBVIOUS
  <1>5. Has(e1, "start", "page", "nothing", {"status"}, PxpipeLists, FALSE, {})
    BY <1>1 DEF Has, Action, Button, Control
  <1>6. Has(e2, "stop", "page", "nothing", {"status"}, PxpipeLists, FALSE, {})
    BY <1>2 DEF Has, Action, Button, Control
  <1>7. Has(e3, "restart", "page", "nothing", {"status"}, PxpipeLists, FALSE, {})
    BY <1>3 DEF Has, Action, Button, Control
  <1>8. Has(e4, "install", "page", "nothing", {"status"}, PxpipeLists, FALSE, {})
    BY <1>4 DEF Has, Action, Button, Control
  <1>9. PxpipePanel = {e1, e2, e3, e4}
    BY <1>1, <1>2, <1>3, <1>4 DEF PxpipePanel
  <1>10. PxpipePage.controls = {e1, e2, e3, e4}
    BY <1>9 DEF PxpipePage
  <1>11. ASSUME NEW c \in PxpipePage.controls, NEW d \in PxpipePage.controls, c.name = d.name
        PROVE  c = d
    <2>1. CASE c = e1
      BY <1>10, <1>11, <2>1, <1>5, <1>6, <1>7, <1>8 DEF Has
    <2>2. CASE c = e2
      BY <1>10, <1>11, <2>2, <1>5, <1>6, <1>7, <1>8 DEF Has
    <2>3. CASE c = e3
      BY <1>10, <1>11, <2>3, <1>5, <1>6, <1>7, <1>8 DEF Has
    <2>4. CASE c = e4
      BY <1>10, <1>11, <2>4, <1>5, <1>6, <1>7, <1>8 DEF Has
    <2> QED
      BY <1>10, <1>11, <2>1, <2>2, <2>3, <2>4
  <1>12. ASSUME NEW c \in PxpipePage.controls PROVE ControlSound(PxpipePage, c)
    <2>1. CASE c = e1
      BY <1>5, <2>1 DEF Has, ControlSound, PxpipeLists
    <2>2. CASE c = e2
      BY <1>6, <2>2 DEF Has, ControlSound, PxpipeLists
    <2>3. CASE c = e3
      BY <1>7, <2>3 DEF Has, ControlSound, PxpipeLists
    <2>4. CASE c = e4
      BY <1>8, <2>4 DEF Has, ControlSound, PxpipeLists
    <2> QED
      BY <1>10, <1>12, <2>1, <2>2, <2>3, <2>4
  <1> QED BY <1>11, <1>12 DEF PageSound

\* The page of routes/tunnel.rs is sound.
LEMMA TunnelPageSound == PageSound(TunnelPage)
  <1>1. PICK e1 : e1 = Confirmed(Tunnelled("enable quick tunnel", "cloudflare"))  OBVIOUS
  <1>2. PICK e2 : e2 = Tunnelled("disable tunnel", "cloudflare")  OBVIOUS
  <1>3. Has(e1, "enable quick tunnel", "status", "confirmation", {"status"}, {"status"}, TRUE, {})
    BY <1>1 DEF Has, Confirmed, Tunnelled, Control
  <1>4. Has(e2, "disable tunnel", "status", "nothing", {"status"}, {"status"}, FALSE, {})
    BY <1>2 DEF Has, Confirmed, Tunnelled, Control
  <1>5. CloudflareCard = {e1, e2}
    BY <1>1, <1>2 DEF CloudflareCard
  <1>6. PICK e3 :
          e3 = [Tunnelled("enable named tunnel", "cloudflare") EXCEPT !.needs = "text", !.clearsFirst = TRUE]
    OBVIOUS
  <1>7. Has(e3, "enable named tunnel", "status", "text", {"status"}, {"status"}, TRUE, {})
    BY <1>6 DEF Has, Tunnelled, Control
  <1>8. NamedTunnel = {e3}
    BY <1>6 DEF NamedTunnel
  <1>9. PICK e4 : e4 = Confirmed(Tunnelled("enable funnel", "tailscale"))  OBVIOUS
  <1>10. PICK e5 : e5 = Tunnelled("disable funnel", "tailscale")  OBVIOUS
  <1>11. Has(e4, "enable funnel", "status", "confirmation", {"status"}, {"status"}, TRUE, {})
    BY <1>9 DEF Has, Confirmed, Tunnelled, Control
  <1>12. Has(e5, "disable funnel", "status", "nothing", {"status"}, {"status"}, FALSE, {})
    BY <1>10 DEF Has, Confirmed, Tunnelled, Control
  <1>13. TailscaleCard = {e4, e5}
    BY <1>9, <1>10 DEF TailscaleCard
  <1>14. TunnelPage.controls = {e1, e2, e3, e4, e5}
    BY <1>5, <1>8, <1>13 DEF TunnelPage
  <1>15. ASSUME NEW c \in TunnelPage.controls, NEW d \in TunnelPage.controls, c.name = d.name
        PROVE  c = d
    <2>1. CASE c = e1
      BY <1>14, <1>15, <2>1, <1>3, <1>4, <1>7, <1>11, <1>12 DEF Has
    <2>2. CASE c = e2
      BY <1>14, <1>15, <2>2, <1>3, <1>4, <1>7, <1>11, <1>12 DEF Has
    <2>3. CASE c = e3
      BY <1>14, <1>15, <2>3, <1>3, <1>4, <1>7, <1>11, <1>12 DEF Has
    <2>4. CASE c = e4
      BY <1>14, <1>15, <2>4, <1>3, <1>4, <1>7, <1>11, <1>12 DEF Has
    <2>5. CASE c = e5
      BY <1>14, <1>15, <2>5, <1>3, <1>4, <1>7, <1>11, <1>12 DEF Has
    <2> QED
      BY <1>14, <1>15, <2>1, <2>2, <2>3, <2>4, <2>5
  <1>16. ASSUME NEW c \in TunnelPage.controls PROVE ControlSound(TunnelPage, c)
    <2>1. CASE c = e1
      BY <1>3, <2>1 DEF Has, ControlSound
    <2>2. CASE c = e2
      BY <1>4, <2>2 DEF Has, ControlSound
    <2>3. CASE c = e3
      BY <1>7, <2>3 DEF Has, ControlSound
    <2>4. CASE c = e4
      BY <1>11, <2>4 DEF Has, ControlSound
    <2>5. CASE c = e5
      BY <1>12, <2>5 DEF Has, ControlSound
    <2> QED
      BY <1>14, <1>16, <2>1, <2>2, <2>3, <2>4, <2>5
  <1> QED BY <1>15, <1>16 DEF PageSound

\* The page of routes/oauth_import.rs is sound.
LEMMA ImportPageSound == PageSound(ImportPage)
  <1>1. PICK e1 :
          e1 = [Form("import", "providers") EXCEPT !.reads = TRUE, !.tells = "here"]
    OBVIOUS
  <1>2. Has(e1, "import", "page", "text", {"providers"}, {"providers"}, FALSE, {})
    BY <1>1 DEF Has, Form, Control
  <1>3. ImportForm = {e1}
    BY <1>1 DEF ImportForm
  <1>4. PICK e2 :
          e2 = [Form("import cliproxy", "providers") EXCEPT !.reads = TRUE, !.tells = "here"]
    OBVIOUS
  <1>5. Has(e2, "import cliproxy", "page", "text", {"providers"}, {"providers"}, FALSE, {})
    BY <1>4 DEF Has, Form, Control
  <1>6. CliProxyForm = {e2}
    BY <1>4 DEF CliProxyForm
  <1>7. PICK e3 :
          e3 = [Form("import in bulk", "providers") EXCEPT !.reads = TRUE, !.tells = "here"]
    OBVIOUS
  <1>8. Has(e3, "import in bulk", "page", "text", {"providers"}, {"providers"}, FALSE, {})
    BY <1>7 DEF Has, Form, Control
  <1>9. BulkImportForm = {e3}
    BY <1>7 DEF BulkImportForm
  <1>10. PICK e4 : e4 = Finder("look for cursor", "import cursor")  OBVIOUS
  <1>11. PICK e5 : e5 = FoundImport("import cursor")  OBVIOUS
  <1>12. Has(e4, "look for cursor", "page", "nothing", {}, {}, FALSE, {"import cursor"})
    BY <1>10 DEF Has, Finder, FoundImport, Form, Control
  <1>13. Has(e5, "import cursor", "page", "found", {"providers"}, {"providers"}, FALSE, {})
    BY <1>11 DEF Has, Finder, FoundImport, Form, Control
  <1>14. CursorAutoPanel = {e4, e5}
    BY <1>10, <1>11 DEF CursorAutoPanel
  <1>15. PICK e6 : e6 = Finder("look for kiro", "import kiro")  OBVIOUS
  <1>16. PICK e7 : e7 = FoundImport("import kiro")  OBVIOUS
  <1>17. Has(e6, "look for kiro", "page", "nothing", {}, {}, FALSE, {"import kiro"})
    BY <1>15 DEF Has, Finder, FoundImport, Form, Control
  <1>18. Has(e7, "import kiro", "page", "found", {"providers"}, {"providers"}, FALSE, {})
    BY <1>16 DEF Has, Finder, FoundImport, Form, Control
  <1>19. KiroAutoPanel = {e6, e7}
    BY <1>15, <1>16 DEF KiroAutoPanel
  <1>20. ImportPage.controls = {e1, e2, e3, e4, e5, e6, e7}
    BY <1>3, <1>6, <1>9, <1>14, <1>19 DEF ImportPage
  <1>21. ASSUME NEW c \in ImportPage.controls, NEW d \in ImportPage.controls, c.name = d.name
        PROVE  c = d
    <2>1. CASE c = e1
      BY <1>20, <1>21, <2>1, <1>2, <1>5, <1>8, <1>12, <1>13, <1>17, <1>18 DEF Has
    <2>2. CASE c = e2
      BY <1>20, <1>21, <2>2, <1>2, <1>5, <1>8, <1>12, <1>13, <1>17, <1>18 DEF Has
    <2>3. CASE c = e3
      BY <1>20, <1>21, <2>3, <1>2, <1>5, <1>8, <1>12, <1>13, <1>17, <1>18 DEF Has
    <2>4. CASE c = e4
      BY <1>20, <1>21, <2>4, <1>2, <1>5, <1>8, <1>12, <1>13, <1>17, <1>18 DEF Has
    <2>5. CASE c = e5
      BY <1>20, <1>21, <2>5, <1>2, <1>5, <1>8, <1>12, <1>13, <1>17, <1>18 DEF Has
    <2>6. CASE c = e6
      BY <1>20, <1>21, <2>6, <1>2, <1>5, <1>8, <1>12, <1>13, <1>17, <1>18 DEF Has
    <2>7. CASE c = e7
      BY <1>20, <1>21, <2>7, <1>2, <1>5, <1>8, <1>12, <1>13, <1>17, <1>18 DEF Has
    <2> QED
      BY <1>20, <1>21, <2>1, <2>2, <2>3, <2>4, <2>5, <2>6, <2>7
  <1>22. ASSUME NEW c \in ImportPage.controls PROVE ControlSound(ImportPage, c)
    <2>1. CASE c = e1
      BY <1>2, <2>1 DEF Has, ControlSound
    <2>2. CASE c = e2
      BY <1>5, <2>2 DEF Has, ControlSound
    <2>3. CASE c = e3
      BY <1>8, <2>3 DEF Has, ControlSound
    <2>4. CASE c = e4
      <3>1. e5 \in ImportPage.controls /\ e5.name = "import cursor" /\ e5.needs = "found"
        BY <1>20, <1>13 DEF Has
      <3>2. c.finds = {"import cursor"} /\ c.changes = {} /\ c.needs = "nothing"
        BY <1>12, <2>4 DEF Has
      <3> QED BY <3>1, <3>2 DEF ControlSound
    <2>5. CASE c = e5
      BY <1>13, <2>5 DEF Has, ControlSound
    <2>6. CASE c = e6
      <3>1. e7 \in ImportPage.controls /\ e7.name = "import kiro" /\ e7.needs = "found"
        BY <1>20, <1>18 DEF Has
      <3>2. c.finds = {"import kiro"} /\ c.changes = {} /\ c.needs = "nothing"
        BY <1>17, <2>6 DEF Has
      <3> QED BY <3>1, <3>2 DEF ControlSound
    <2>7. CASE c = e7
      BY <1>18, <2>7 DEF Has, ControlSound
    <2> QED
      BY <1>20, <1>22, <2>1, <2>2, <2>3, <2>4, <2>5, <2>6, <2>7
  <1> QED BY <1>21, <1>22 DEF PageSound

\* The page of routes/cli_tools.rs is sound.
LEMMA ToolsPageSound == PageSound(ToolsPage)
  <1>1. PICK e1 : e1 = [OnRow("apply", "tools") EXCEPT !.tells = "page"]  OBVIOUS
  <1>2. PICK e2 : e2 = [OnRow("revoke", "tools") EXCEPT !.tells = "page"]  OBVIOUS
  <1>3. Has(e1, "apply", "tools", "nothing", {"tools"}, {"tools"}, FALSE, {})
    BY <1>1 DEF Has, OnRow, Control
  <1>4. Has(e2, "revoke", "tools", "nothing", {"tools"}, {"tools"}, FALSE, {})
    BY <1>2 DEF Has, OnRow, Control
  <1>5. ApplyForm = {e1, e2}
    BY <1>1, <1>2 DEF ApplyForm
  <1>6. ToolsPage.controls = {e1, e2}
    BY <1>5 DEF ToolsPage
  <1>7. ASSUME NEW c \in ToolsPage.controls, NEW d \in ToolsPage.controls, c.name = d.name
        PROVE  c = d
    <2>1. CASE c = e1
      BY <1>6, <1>7, <2>1, <1>3, <1>4 DEF Has
    <2>2. CASE c = e2
      BY <1>6, <1>7, <2>2, <1>3, <1>4 DEF Has
    <2> QED
      BY <1>6, <1>7, <2>1, <2>2
  <1>8. ASSUME NEW c \in ToolsPage.controls PROVE ControlSound(ToolsPage, c)
    <2>1. CASE c = e1
      BY <1>3, <2>1 DEF Has, ControlSound
    <2>2. CASE c = e2
      BY <1>4, <2>2 DEF Has, ControlSound
    <2> QED
      BY <1>6, <1>8, <2>1, <2>2
  <1> QED BY <1>7, <1>8 DEF PageSound

\* So is every page there is.
LEMMA EveryPageSound == ASSUME NEW p \in DOMAIN Pages PROVE PageSound(Pages[p])
  <1>1. PageSound(OverviewPage) /\ PageSound(CatalogPage) /\ PageSound(ProvidersPage)
        /\ PageSound(UsagePage) /\ PageSound(ConversationPage)
    BY DEF PageSound, OverviewPage, CatalogPage, ProvidersPage, UsagePage, ConversationPage
  <1> QED
    BY <1>1, KeysPageSound, CombosPageSound, UsersPageSound, SettingsPageSound, SsoPageSound,
       ProviderPageSound, NodesPageSound, ModelsPageSound, PricingPageSound, PoolsPageSound,
       HeadroomPageSound, PxpipePageSound, TunnelPageSound, ImportPageSound, ToolsPageSound
    DEF Pages
-----------------------------------------------------------------------------
(* The page: loads, writes and what was typed. *)

\* The names of the page's controls.
Names == {c.name : c \in Pages[page].controls}

\* The variables of the page have their types.
PageTyped == PageTypeOK /\ asked \in Nat

\* The dialog on screen is one of the page's; writes are of its controls.
Named ==
    /\ open # Closed => \E c \in Dialogs : open.ctl = c.name
    /\ \A w \in writes :
          /\ w.ctl \in Names /\ w.place.ctl = w.ctl
          /\ w.version \in 0..db

\* The newest load that is not in yet will show what the page was told of, and
\* what it showed when it came does.
CaughtUp ==
    /\ heard <= db /\ lastAsked <= asked
    /\ lastAsked = asked \/ \E l \in loads : l.asked = asked
    /\ \A l \in loads : l.asked = asked /\ l.read => l.seen >= heard
    /\ lastAsked = asked /\ Ready /\ ~overtaken => shown.version >= heard

\* The invariant of the page.
PageInv == PageTyped /\ Named /\ CaughtUp

\* A control is found by its name.
LEMMA CtlOf ==
    ASSUME page \in DOMAIN Pages, NEW c \in Pages[page].controls
    PROVE  Ctl(c.name) = c /\ c.name \in Names
  <1>1. PageSound(Pages[page])  BY EveryPageSound
  <1> QED BY <1>1 DEF PageSound, Ctl, Names

\* A name of the page names one of its controls.
LEMMA CtlNamed ==
    ASSUME page \in DOMAIN Pages, NEW n \in Names
    PROVE  Ctl(n) \in Pages[page].controls /\ Ctl(n).name = n
  <1>1. PICK c \in Pages[page].controls : n = c.name  BY DEF Names
  <1> QED BY <1>1, CtlOf

\* Every control of the open page is sound.
LEMMA CtlSound ==
    ASSUME page \in DOMAIN Pages, NEW c \in Pages[page].controls
    PROVE  ControlSound(Pages[page], c)
  BY EveryPageSound DEF PageSound

\* The page starts with its first load under way.
LEMMA PageInitially == PageInit => PageInv
  <1> SUFFICES ASSUME PageInit PROVE PageInv OBVIOUS
  <1>1. PageTyped
    <2>1. used \subseteq {c.name : c \in Pages[page].controls}
      BY DEF PageInit, SomeOf
    <2>2. loads \subseteq [asked : 1..asked, read : BOOLEAN, seen : 0..db] /\ asked \in Nat
      <3>1. [asked |-> 1, read |-> FALSE, seen |-> 0] \in [asked : 1..1, read : BOOLEAN, seen : 0..0]
        OBVIOUS
      <3> QED BY <3>1 DEF PageInit
    <2>3. shown.is = "loading" /\ shown.version \in 0..db
      BY DEF PageInit
    <2>4. prepared = {} /\ open = Closed /\ page \in DOMAIN Pages /\ list \in Pages[page].lists
          /\ overtaken \in BOOLEAN
      BY DEF PageInit
    <2>5. {db, drawn, opened, steps, heard, lastAsked} \subseteq Nat
      BY DEF PageInit
    <2> QED BY <2>1, <2>2, <2>3, <2>4, <2>5 DEF PageTyped, PageTypeOK
  <1>2. Named  BY DEF Named, PageInit
  <1>3. CaughtUp  BY DEF CaughtUp, PageInit, Ready
  <1> QED BY <1>1, <1>2, <1>3 DEF PageInv

\* The list is read: what the load has seen is what the list is now.
LEMMA ReadKeeps == ASSUME PageInv, NEW l \in loads, ListIsRead(l) PROVE PageInv'
  <1> DEFINE k == [l EXCEPT !.read = TRUE, !.seen = db]
  <1>1. l \in [asked : 1..asked, read : BOOLEAN, seen : 0..db] /\ db \in Nat /\ asked \in Nat
    BY DEF PageInv, PageTyped, PageTypeOK
  <1>2. k \in [asked : 1..asked, read : BOOLEAN, seen : 0..db] /\ k.asked = l.asked /\ k.seen = db
    <2>1. k.asked = l.asked /\ k.read = TRUE /\ k.seen = db
      BY <1>1
    <2>2. db \in 0..db  BY <1>1
    <2> QED BY <1>1, <2>1, <2>2
  <1>3. loads' = (loads \ {l}) \cup {k}
    BY DEF ListIsRead
  <1> HIDE DEF k
  <1>4. PageTyped'
    BY <1>2, <1>3 DEF PageInv, PageTyped, PageTypeOK, ListIsRead, Closed
  <1>5. Named'
    BY DEF PageInv, Named, ListIsRead, Closed, Dialogs, Controls, Names
  <1>6. CaughtUp'
    BY <1>1, <1>2, <1>3 DEF PageInv, CaughtUp, ListIsRead, Ready
  <1> QED BY <1>4, <1>5, <1>6 DEF PageInv

\* A load arrives, in whatever order.
LEMMA ArrivalKeeps == ASSUME PageInv, NEW l \in loads, ListArrives(l) PROVE PageInv'
  <1>1. l \in [asked : 1..asked, read : BOOLEAN, seen : 0..db] /\ db \in Nat /\ asked \in Nat
        /\ lastAsked \in Nat /\ heard \in Nat /\ drawn \in Nat
    BY DEF PageInv, PageTyped, PageTypeOK
  <1>2. \/ l.read /\ shown'.is = "ready" /\ shown'.version = l.seen
        \/ shown'.is = "failed" /\ shown'.version \in 0..db
    <2>1. CASE l.read /\ shown' = [is |-> "ready", version |-> l.seen]
      BY <2>1
    <2>2. CASE shown' = [shown EXCEPT !.is = "failed"]
      BY <2>2 DEF PageInv, PageTyped, PageTypeOK
    <2> QED BY <2>1, <2>2 DEF ListArrives
  <1>4. PageTyped'
    <2>1. shown'.is \in {"loading", "failed", "ready"} /\ shown'.version \in 0..db'
      BY <1>1, <1>2 DEF ListArrives
    <2>2. {db, drawn, opened, steps, heard, lastAsked}' \subseteq Nat
      BY <1>1 DEF PageInv, PageTyped, PageTypeOK, ListArrives
    <2>3. {p.place.ctl : p \in prepared'} \subseteq {c.name : c \in Pages[page].controls}
      BY DEF PageInv, PageTyped, PageTypeOK, ListArrives, PreparedElsewhere
    <2>4. overtaken' \in BOOLEAN
      BY DEF ListArrives
    <2>5. loads' \subseteq [asked : 1..asked, read : BOOLEAN, seen : 0..db]
      BY DEF PageInv, PageTyped, PageTypeOK, ListArrives
    <2> QED BY <2>1, <2>2, <2>3, <2>4, <2>5 DEF PageInv, PageTyped, PageTypeOK, ListArrives, Closed
  <1>5. Named'
    BY DEF PageInv, Named, ListArrives, Closed, Dialogs, Controls, Names
  <1>6. CaughtUp'
    BY <1>1, <1>2 DEF PageInv, CaughtUp, ListArrives, Ready
  <1> QED BY <1>4, <1>5, <1>6 DEF PageInv

\* The list is asked for again: the newest load has yet to read it.
LEMMA AskingIsBehind ==
    ASSUME PageInv, Asking, NEW h \in Nat, h <= db,
           db' = db, heard' = h, UNCHANGED <<lastAsked, overtaken>>
    PROVE  CaughtUp' /\ loads' \subseteq [asked : 1..asked', read : BOOLEAN, seen : 0..db]
           /\ asked' \in Nat /\ shown'.is = "loading" /\ shown'.version \in 0..db
  <1>1. loads \subseteq [asked : 1..asked, read : BOOLEAN, seen : 0..db] /\ db \in Nat /\ asked \in Nat
        /\ lastAsked \in Nat /\ heard \in Nat /\ shown.version \in 0..db /\ lastAsked <= asked
    BY DEF PageInv, PageTyped, PageTypeOK, CaughtUp
  <1>2. PICK k : k = [asked |-> asked + 1, read |-> FALSE, seen |-> 0] OBVIOUS
  <1>3. k.asked = asked + 1 /\ k.read = FALSE /\ k \in [asked : 1..asked + 1, read : BOOLEAN, seen : 0..db]
    BY <1>1, <1>2
  <1>4. loads' = loads \cup {k} /\ asked' = asked + 1
    BY <1>2 DEF Asking
  <1>5. shown'.is = "loading" /\ shown'.version \in 0..db
    <2>1. shown' = [shown EXCEPT !.is = "loading"]  BY DEF Asking
    <2>2. shown'.version = shown.version  BY <2>1
    <2>3. shown'.is = "loading" 
       BY <2>1 DEF PageInv, PageTyped, PageTypeOK
    <2> QED BY <2>2, <2>3, <1>1
  <1>6. loads' \subseteq [asked : 1..asked', read : BOOLEAN, seen : 0..db] 
    BY <1>1, <1>3, <1>4
  <1>7. CaughtUp'
    BY <1>1, <1>3, <1>4, <1>5 DEF CaughtUp, Ready
  <1> QED BY <1>1, <1>4, <1>5, <1>6, <1>7

\* The same, for one variable at a time.
OpenSound(o) ==
    /\ o = Closed \/ (o.ctl \in used /\ o.row \in Rows \cup {NoRow})
    /\ o # Closed => \E c \in Dialogs : o.ctl = c.name
WritesSound(s) == \A w \in s : w.ctl \in Names /\ w.place.ctl = w.ctl /\ w.version \in 0..db
PreparedSound(s) == \A p \in s : p.place.ctl \in Names

\* The parts of the invariant that most steps go by.
LEMMA PageParts ==
    ASSUME PageInv
    PROVE  /\ page \in DOMAIN Pages
           /\ OpenSound(open) /\ WritesSound(writes) /\ PreparedSound(prepared)
           /\ db \in Nat /\ asked \in Nat /\ heard \in Nat /\ lastAsked \in Nat /\ opened \in Nat
           /\ steps \in Nat /\ drawn \in Nat
  BY DEF PageInv, PageTyped, PageTypeOK, Named, OpenSound, WritesSound, PreparedSound, Names

\* A step that leaves the list and its loads alone.
LEMMA ListAside ==
    ASSUME PageInv, UNCHANGED <<page, list, used, db, shown, drawn, loads, asked, heard, lastAsked, overtaken>>,
           opened' \in Nat, steps' \in Nat,
           OpenSound(open'), WritesSound(writes'), PreparedSound(prepared')
    PROVE  PageInv'
  <1>1. Names' = Names /\ Dialogs' = Dialogs  BY DEF Names, Dialogs, Controls
  <1>2. PageTyped'
    BY DEF PageInv, PageTyped, PageTypeOK, OpenSound, PreparedSound, Names, Closed
  <1>3. Named'
    BY <1>1 DEF PageInv, Named, OpenSound, WritesSound, Closed
  <1>4. CaughtUp'
    BY DEF PageInv, CaughtUp, Ready
  <1> QED BY <1>2, <1>3, <1>4 DEF PageInv

\* Steps are counted.
LEMMA StepIsNat == ASSUME steps \in Nat, StepTaken PROVE steps' \in Nat
  BY DEF StepTaken

\* The controls in use are controls of the page.
LEMMA ControlsAreThere ==
    ASSUME page \in DOMAIN Pages, NEW c \in Controls
    PROVE  c \in Pages[page].controls /\ c.name \in used /\ c.name \in Names
  BY DEF Controls, Names

\* OpenDialog keeps the invariant.
LEMMA OpenKeeps ==
    ASSUME PageInv, NEW c \in Dialogs, NEW r \in RowsOf(c), OpenDialog(c, r)
    PROVE  PageInv'
  <1>1. c \in Controls  BY DEF Dialogs
  <1>2. r \in Rows \cup {NoRow}  BY DEF RowsOf
  <1>3. OpenSound(open')
    BY <1>1, <1>2, PageParts, ControlsAreThere DEF OpenDialog, OpenSound
  <1>4. steps' \in Nat /\ opened' \in Nat
    BY PageParts, StepIsNat DEF OpenDialog
  <1> QED BY <1>3, <1>4, ListAside, PageParts DEF OpenDialog

\* So does CancelDialog.
LEMMA CancelKeeps == ASSUME PageInv, CancelDialog PROVE PageInv'
  <1>1. OpenSound(open')  BY DEF CancelDialog, OpenSound
  <1>2. PreparedSound(prepared')
    BY PageParts DEF CancelDialog, PreparedSound
  <1> QED BY <1>1, <1>2, ListAside, PageParts DEF CancelDialog

\* So does typing.
LEMMA PrepareKeeps ==
    ASSUME PageInv, NEW c \in Controls, NEW r \in RowsOf(c), Prepare(c, r)
    PROVE  PageInv'
  <1>1. PreparedSound(prepared')
    <2>1. PICK p : p = [place |-> Place(c, r), for |-> r]  OBVIOUS
    <2>2. p.place.ctl = c.name  BY <2>1 DEF Place
    <2>3. prepared' = prepared \cup {p}  BY <2>1 DEF Prepare
    <2> QED BY <2>2, <2>3, PageParts, ControlsAreThere DEF PreparedSound
  <1> QED BY <1>1, ListAside, PageParts, StepIsNat DEF Prepare

\* So does taking it back.
LEMMA TakeBackKeeps ==
    ASSUME PageInv, NEW c \in Controls, NEW r \in RowsOf(c), TakeBack(c, r)
    PROVE  PageInv'
  <1>1. PreparedSound(prepared')
    BY PageParts DEF PreparedSound, TakeBack
  <1> QED BY <1>1, ListAside, PageParts DEF TakeBack

\* So does sending: the write is of the control, from its place.
LEMMA SendKeeps ==
    ASSUME PageInv, NEW c \in Controls, NEW r \in RowsOf(c), Send(c, r)
    PROVE  PageInv'
  <1>1. PreparedSound(prepared')
    BY PageParts DEF PreparedSound, Send
  <1>2. PICK w : w = [ctl |-> c.name, row |-> r, place |-> Place(c, r),
                               signal |-> Signal(c, r), flag |-> Flag(c, r),
                               line |-> Line(c, r),
                               state |-> "sent", version |-> 0]  OBVIOUS
  <1>3. w.ctl = c.name /\ w.place.ctl = c.name /\ w.version = 0
    BY <1>2 DEF Place
  <1>4. writes' = writes \cup {w}  BY <1>2 DEF Send
  <1>5. WritesSound(writes')
    BY <1>3, <1>4, PageParts, ControlsAreThere DEF WritesSound
  <1> QED BY <1>1, <1>5, ListAside, PageParts, StepIsNat DEF Send

\* So does a refusal.
LEMMA RefusedKeeps == ASSUME PageInv, NEW w \in writes, WriteIsRefused(w) PROVE PageInv'
  <1>1. PICK v : v = [w EXCEPT !.state = "refused"]  OBVIOUS
  <1>2. v.ctl = w.ctl /\ v.place = w.place /\ v.version = w.version  BY <1>1
  <1>3. writes' = (writes \ {w}) \cup {v}  BY <1>1 DEF WriteIsRefused
  <1>4. WritesSound(writes')
    BY <1>2, <1>3, PageParts DEF WritesSound
  <1> QED BY <1>4, ListAside, PageParts DEF WriteIsRefused

\* So does asking again for a list that failed.
LEMMA RetryKeeps == ASSUME PageInv, Retry PROVE PageInv'
  <1>1. heard \in Nat /\ heard <= db  BY PageParts DEF PageInv, CaughtUp
  <1>2. CaughtUp' /\ loads' \subseteq [asked : 1..asked', read : BOOLEAN, seen : 0..db]
        /\ asked' \in Nat /\ shown'.is = "loading" /\ shown'.version \in 0..db
    BY <1>1, AskingIsBehind DEF Retry
  <1>3. PageTyped'
    BY <1>2, PageParts, StepIsNat DEF PageInv, PageTyped, PageTypeOK, Retry, Closed
  <1>4. Named'
    BY DEF PageInv, Named, Retry, Closed, Dialogs, Controls, Names
  <1> QED BY <1>2, <1>3, <1>4 DEF PageInv

\* The list changes on the server: no load is newer than it.
LEMMA ListChanges ==
    ASSUME PageInv, UNCHANGED <<page, list, used, shown, drawn, loads, asked, open, opened, prepared,
                                heard, lastAsked, overtaken>>,
           db' \in {db, db + 1}, steps' \in Nat,
           \A w \in writes' : w.ctl \in Names /\ w.place.ctl = w.ctl /\ w.version \in 0..db'
    PROVE  PageInv'
  <1>1. Names' = Names /\ Dialogs' = Dialogs  BY DEF Names, Dialogs, Controls
  <1>2. db \in Nat /\ db' \in Nat /\ db <= db'
    BY PageParts
  <1>3. loads' \subseteq [asked : 1..asked, read : BOOLEAN, seen : 0..db']
    <2>1. loads \subseteq [asked : 1..asked, read : BOOLEAN, seen : 0..db]
      BY DEF PageInv, PageTyped, PageTypeOK
    <2>2. 0..db \subseteq 0..db'  BY <1>2
    <2> QED BY <2>1, <2>2
  <1>4. shown'.is \in {"loading", "failed", "ready"} /\ shown'.version \in 0..db'
    BY <1>2 DEF PageInv, PageTyped, PageTypeOK
  <1>5. {db, drawn, opened, steps, heard, lastAsked}' \subseteq Nat
    BY <1>2, PageParts
  <1>6. PageTyped'
    BY <1>3, <1>4, <1>5 DEF PageInv, PageTyped, PageTypeOK, Closed
  <1>7. Named'
    BY <1>1 DEF PageInv, Named, Closed
  <1>8. CaughtUp'
    BY <1>2, PageParts DEF PageInv, CaughtUp, Ready
  <1> QED BY <1>6, <1>7, <1>8 DEF PageInv

\* Somebody else's change keeps the invariant.
LEMMA EditElsewhereKeeps == ASSUME PageInv, EditedElsewhere PROVE PageInv'
  <1>1. \A w \in writes' : w.ctl \in Names /\ w.place.ctl = w.ctl /\ w.version \in 0..db'
    BY PageParts DEF EditedElsewhere, WritesSound
  <1> QED BY <1>1, ListChanges, PageParts, StepIsNat DEF EditedElsewhere

\* So does the change of a write that is taken.
LEMMA TakenKeeps == ASSUME PageInv, NEW w \in writes, WriteIsTaken(w) PROVE PageInv'
  <1>1. PICK v : v = [w EXCEPT !.state = "accepted", !.version = db']  OBVIOUS
  <1>2. v.ctl = w.ctl /\ v.place = w.place  BY <1>1
  <1>3. v.version = db' \/ v.version = w.version  BY <1>1
  <1>4. writes' = (writes \ {w}) \cup {v}  BY <1>1 DEF WriteIsTaken
  <1>5. db' \in {db, db + 1}  BY DEF WriteIsTaken
  <1>6. \A u \in writes' : u.ctl \in Names /\ u.place.ctl = u.ctl /\ u.version \in 0..db'
    BY <1>2, <1>3, <1>4, <1>5, PageParts DEF WritesSound
  <1>7. UNCHANGED <<page, list, used, shown, drawn, loads, asked, open, opened, prepared, heard,
                    lastAsked, overtaken>> /\ steps' \in Nat
    BY PageParts DEF WriteIsTaken
  <1> QED BY <1>5, <1>6, <1>7, ListChanges

\* Whether the answer counts as a success, and whether it fetches the list.
Successful(w, end) == Succeeds(Ctl(w.ctl), end)
Reloads(w, end) ==
    LET c == Ctl(w.ctl) IN
    list \in c.reloads /\ (Successful(w, end) \/ (c.reloadsAnyway /\ end # "lost"))

\* What a control's success finds is for a control of the page.
LEMMA FoundNamed ==
    ASSUME PageInv, NEW w \in writes, NEW n \in Ctl(w.ctl).finds
    PROVE  n \in Names /\ Ctl(n).needs = "found"
  <1>1. Ctl(w.ctl) \in Pages[page].controls  BY CtlNamed, PageParts DEF WritesSound
  <1>2. PICK d \in Pages[page].controls : d.name = n /\ d.needs = "found"
    BY <1>1, CtlSound, PageParts DEF ControlSound
  <1> QED BY <1>2, CtlOf, PageParts

\* An answer keeps the invariant: the news of a change come with a new load.
LEMMA AnswerKeeps ==
    ASSUME PageInv, NEW w \in writes, NEW end \in Ends(w), AnswerArrives(w, end)
    PROVE  PageInv'
  <1> DEFINE c == Ctl(w.ctl)
  <1>1. c \in Pages[page].controls  BY CtlNamed, PageParts DEF WritesSound
  <1>2. OpenSound(open')
    <2>1. open' = Closed \/ open' = open  BY DEF AnswerArrives
    <2> QED BY <2>1, PageParts DEF OpenSound
  <1>3. WritesSound(writes')  BY PageParts DEF AnswerArrives, WritesSound
  <1>4. PreparedSound(prepared')
    <2> DEFINE found == {[place |-> [ctl |-> n, life |-> 0, row |-> NoRow], for |-> NoRow] : n \in c.finds}
    <2>1. prepared' \subseteq prepared \cup found
      BY DEF AnswerArrives
    <2>2. ASSUME NEW p \in found PROVE p.place.ctl \in Names
      <3>1. PICK n \in c.finds : p = [place |-> [ctl |-> n, life |-> 0, row |-> NoRow], for |-> NoRow]
        OBVIOUS
      <3>2. p.place.ctl = n  BY <3>1
      <3> QED BY <3>2, FoundNamed
    <2> HIDE DEF found
    <2> QED BY <2>1, <2>2, PageParts DEF PreparedSound
  <1>5. heard' \in Nat /\ heard' <= db
    <2>1. heard' = heard \/ heard' = w.version  BY DEF AnswerArrives
    <2> QED BY <2>1, PageParts DEF PageInv, CaughtUp, WritesSound
  <1>6. UNCHANGED <<page, list, used, db, drawn, opened, lastAsked, overtaken, steps>>
    BY DEF AnswerArrives
  <1>7. CASE Reloads(w, end)
    <2>1. Asking
      BY <1>7 DEF AnswerArrives, Reloads, Successful
    <2>2. CaughtUp' /\ loads' \subseteq [asked : 1..asked', read : BOOLEAN, seen : 0..db]
          /\ asked' \in Nat /\ shown'.is = "loading" /\ shown'.version \in 0..db
      BY <2>1, <1>5, <1>6, AskingIsBehind
    <2>3. PageTyped'
      BY <1>2, <1>4, <1>5, <1>6, <2>2, PageParts
      DEF PageInv, PageTyped, PageTypeOK, Closed, OpenSound, PreparedSound, Names
    <2>4. Named'
      BY <1>2, <1>3, <1>6 DEF PageInv, Named, Closed, Dialogs, Controls, Names, OpenSound, WritesSound
    <2> QED BY <2>2, <2>3, <2>4 DEF PageInv
  <1>8. CASE ~Reloads(w, end)
    <2>1. UNCHANGED <<shown, loads, asked>>
      BY <1>8 DEF AnswerArrives, Reloads, Successful
    <2>2. heard' = heard
      <3>1. list \in c.changes => list \in c.reloads
        BY <1>1, CtlSound, PageParts DEF ControlSound
      <3> QED BY <1>8, <3>1 DEF AnswerArrives, Reloads, Successful
    <2>3. opened' \in Nat /\ steps' \in Nat  BY <1>6, PageParts
    <2> QED BY <2>1, <2>2, <2>3, <1>2, <1>3, <1>4, <1>6, ListAside
  <1> QED BY <1>7, <1>8

-----------------------------------------------------------------------------
(* Induction, and the history a turn is sent with. *)

\* The order the induction is over.
LEMMA LessIsWellFounded == IsWellFoundedOn({ss \in Nat \X Nat : ss[1] < ss[2]}, Nat)
  <1>1. OpToRel(<, Nat) = {ss \in Nat \X Nat : ss[1] < ss[2]}  BY DEF OpToRel
  <1> QED BY <1>1, NatLessThanWellFounded

\* Induction over the naturals, for a set.
LEMMA ByInduction ==
    ASSUME NEW S, 0 \in S, \A n \in Nat : n \in S => n + 1 \in S
    PROVE  \A n \in Nat : n \in S
  <1> SUFFICES ASSUME Nat \ S # {} PROVE FALSE
    OBVIOUS
  <1> DEFINE less == {ss \in Nat \X Nat : ss[1] < ss[2]}
             rest == Nat \ S
  <1>1. PICK x \in rest : \A y \in rest : <<y, x>> \notin less
    <2>1. IsWellFoundedOn(less, Nat)  BY LessIsWellFounded
    <2>2. rest \subseteq Nat /\ rest # {}  OBVIOUS
    <2> HIDE DEF less, rest
    <2> QED BY <2>1, <2>2, WFMin
  <1>2. x - 1 \in rest /\ <<x - 1, x>> \in less
    <2>1. x # 0 /\ x \in Nat  OBVIOUS
    <2>2. x - 1 \in Nat /\ x - 1 < x  BY <2>1
    <2> QED BY <2>1, <2>2
  <1> QED BY <1>1, <1>2

\* The history as it is computed, one message at a time.
Kept(s, n, h) ==
    h = [k \in 0..n |-> IF k = 0 THEN <<>>
                        ELSE IF s[k].is \in {"said", "answered"}
                             THEN Append(h[k - 1], s[k]) ELSE h[k - 1]]

\* There is such a function, however long the transcript is.
LEMMA KeptExists == ASSUME NEW s, NEW n \in Nat PROVE \E h : Kept(s, n, h)
  <1> DEFINE S == {m \in Nat : \E h : Kept(s, m, h)}
  <1>1. 0 \in S
    <2>1. Kept(s, 0, [k \in 0..0 |-> <<>>])  BY DEF Kept
    <2> QED BY <2>1
  <1>2. ASSUME NEW m \in Nat, m \in S PROVE m + 1 \in S
    <2>1. PICK h : Kept(s, m, h)  BY <1>2
    <2> DEFINE last == IF s[m + 1].is \in {"said", "answered"} THEN Append(h[m], s[m + 1]) ELSE h[m]
               g == [k \in 0..(m + 1) |-> IF k = m + 1 THEN last ELSE h[k]]
    <2>2. \A k \in 0..m : h[k] = IF k = 0 THEN <<>>
                        ELSE IF s[k].is \in {"said", "answered"}
                             THEN Append(h[k - 1], s[k]) ELSE h[k - 1]
      BY <2>1 DEF Kept
    <2>3. \A k \in 0..m : g[k] = h[k]  OBVIOUS
    <2>4. g[m + 1] = last  OBVIOUS
    <2> DEFINE F(k) == IF k = 0 THEN <<>>
                        ELSE IF s[k].is \in {"said", "answered"}
                             THEN Append(g[k - 1], s[k]) ELSE g[k - 1]
    <2>5. ASSUME NEW k \in 0..(m + 1) PROVE g[k] = F(k)
      <3>1. CASE k = m + 1
        <4>1. k # 0 /\ k - 1 = m /\ m \in 0..m  BY <3>1
        <4>2. g[k - 1] = h[m]  BY <4>1, <2>3
        <4> HIDE DEF g
        <4> QED BY <3>1, <4>1, <4>2, <2>4
      <3>2. CASE k # m + 1
        <4>1. k \in 0..m  BY <3>2
        <4>2. k # 0 => k - 1 \in 0..m  BY <4>1
        <4>3. k # 0 => g[k - 1] = h[k - 1]  BY <4>2, <2>3
        <4> HIDE DEF g
        <4> QED BY <4>1, <4>3, <2>2, <2>3
      <3> QED BY <3>1, <3>2
    <2>6. g = [k \in 0..(m + 1) |-> g[k]]  OBVIOUS
    <2>7. Kept(s, m + 1, g)
      <3> HIDE DEF g
      <3> QED BY <2>5, <2>6 DEF Kept
    <2> QED BY <2>7
  <1> HIDE DEF S
  <1>3. n \in S  BY <1>1, <1>2, ByInduction
  <1> QED BY <1>3 DEF S

\* The history of a transcript is its last value.
LEMMA HistoryIs ==
    ASSUME NEW s, Len(s) \in Nat
    PROVE  \E h : Kept(s, Len(s), h) /\ History(s) = h[Len(s)]
  <1> DEFINE h == CHOOSE h : Kept(s, Len(s), h)
  <1>1. Kept(s, Len(s), h)  BY KeptExists
  <1>2. History(s) = h[Len(s)]  BY DEF History, Kept
  <1> QED BY <1>1, <1>2

\* Its values are sequences of the transcript's messages.
LEMMA KeptIsSeq ==
    ASSUME NEW T, NEW s \in Seq(T), NEW h, Kept(s, Len(s), h)
    PROVE  \A k \in 0..Len(s) : h[k] \in Seq(T)
  <1> DEFINE S == {k \in Nat : k <= Len(s) => h[k] \in Seq(T)}
  <1>0. Len(s) \in Nat  OBVIOUS
  <1>1. 0 \in S
    BY <1>0 DEF Kept
  <1>2. ASSUME NEW k \in Nat, k \in S PROVE k + 1 \in S
    <2>1. CASE k + 1 <= Len(s)
      <3>1. h[k] \in Seq(T)  BY <1>0, <1>2, <2>1
      <3>2. s[k + 1] \in T  BY <1>0, <2>1
      <3>3. k + 1 \in 0..Len(s) /\ k + 1 # 0 /\ (k + 1) - 1 = k  BY <1>0, <2>1
      <3>4. h[k + 1] = IF s[k + 1].is \in {"said", "answered"} THEN Append(h[k], s[k + 1]) ELSE h[k]
        BY <3>3 DEF Kept
      <3>5. h[k + 1] \in Seq(T)  BY <3>1, <3>2, <3>4
      <3> QED BY <3>5
    <2>2. CASE ~(k + 1 <= Len(s))  BY <2>2
    <2> QED BY <2>1, <2>2
  <1> HIDE DEF S
  <1>3. \A k \in Nat : k \in S  BY <1>1, <1>2, ByInduction
  <1> QED BY <1>0, <1>3 DEF S

\* What is sent for a new turn ends with what the user said.
LEMMA HistoryEnds ==
    ASSUME NEW T, NEW s \in Seq(T), NEW u \in T, NEW b \in T, u.is = "said", b.is = "streaming"
    PROVE  LET sent == History(s \o <<u, b>>) IN
           /\ sent \in Seq(T) /\ sent # <<>> /\ Last(sent) = u
  <1> DEFINE t == s \o <<u, b>>
  <1>1. t \in Seq(T) /\ Len(t) = Len(s) + 2 /\ t[Len(s) + 1] = u /\ t[Len(s) + 2] = b
        /\ Len(s) \in Nat
    OBVIOUS
  <1> HIDE DEF t
  <1>2. PICK h : Kept(t, Len(t), h) /\ History(t) = h[Len(t)]
    BY <1>1, HistoryIs
  <1>3. h[Len(s)] \in Seq(T)
    BY <1>1, <1>2, KeptIsSeq
  <1>4. \A k \in 1..Len(t) :
           h[k] = IF t[k].is \in {"said", "answered"} THEN Append(h[k - 1], t[k]) ELSE h[k - 1]
    <2>1. \A k \in 0..Len(t) :
             h[k] = IF k = 0 THEN <<>>
                    ELSE IF t[k].is \in {"said", "answered"} THEN Append(h[k - 1], t[k]) ELSE h[k - 1]
      BY <1>2 DEF Kept
    <2>2. \A k \in 1..Len(t) : k \in 0..Len(t) /\ k # 0
      BY <1>1
    <2> QED BY <2>1, <2>2
  <1>5. h[Len(s) + 1] = Append(h[Len(s)], u)
    <2>1. Len(s) + 1 \in 1..Len(t) /\ (Len(s) + 1) - 1 = Len(s)  BY <1>1
    <2> QED BY <1>1, <1>4, <2>1
  <1>6. h[Len(s) + 2] = h[Len(s) + 1]
    <2>1. Len(s) + 2 \in 1..Len(t) /\ (Len(s) + 2) - 1 = Len(s) + 1  BY <1>1
    <2> QED BY <1>1, <1>4, <2>1
  <1>7. History(t) = Append(h[Len(s)], u)  BY <1>1, <1>2, <1>5, <1>6
  <1>8. Append(h[Len(s)], u) \in Seq(T) /\ Append(h[Len(s)], u) # <<>>
        /\ Last(Append(h[Len(s)], u)) = u
    BY <1>3 DEF Last
  <1> QED BY <1>7, <1>8 DEF t

\* A message, a request and the invariant of the chat: bubbles are named by their
\* place, and one that waits is the one of the turn under way.
Said == [id : Nat, role : {"user", "assistant"}, of : Nat,
         is : {"said", "streaming", "answered", "empty", "failed"}, answer : Nat]
Request == [n : Nat, bubble : Nat, sent : Seq(Said)]
ChatInv ==
    /\ messages \in Seq(Said) /\ generating \in BOOLEAN /\ turn \in Nat
    /\ \A i \in DOMAIN messages :
          /\ messages[i].id = i - 1
          /\ messages[i].answer \in {0, messages[i].of}
          /\ messages[i].answer # 0 => messages[i].role = "assistant"
          /\ messages[i].is = "streaming" =>
                \E t \in turns : t.bubble = messages[i].id /\ t.n = messages[i].of
    /\ turns \subseteq Request
    /\ \A t \in turns :
          /\ t.sent # <<>> /\ Last(t.sent).of = t.n /\ Last(t.sent).role = "user"
          /\ \A i \in DOMAIN messages :
                messages[i].id = t.bubble => messages[i].of = t.n /\ messages[i].role = "assistant"
    /\ generating \/ turns = {}
    /\ turns = {} \/ \E t \in turns : turns = {t}

\* The chat starts empty.
LEMMA ChatInitially == ChatInit => ChatInv
  <1> SUFFICES ASSUME ChatInit PROVE ChatInv  OBVIOUS
  <1>1. messages \in Seq(Said) /\ DOMAIN messages = {}  BY DEF ChatInit
  <1> QED BY <1>1 DEF ChatInit, ChatInv

\* The invariant gives the property.
LEMMA ChatAnswersInTurn == ChatInv => AnswerLandsInItsTurn
  <1> SUFFICES ASSUME ChatInv PROVE AnswerLandsInItsTurn  OBVIOUS
  <1>1. Cardinality(turns) <= 1
    <2>1. CASE turns = {}
      BY <2>1, FS_EmptySet
    <2>2. CASE \E t \in turns : turns = {t}
      <3>1. PICK t : turns = {t}  BY <2>2
      <3>2. Cardinality({t}) = 1  BY FS_Singleton
      <3> QED BY <3>1, <3>2
    <2> QED BY <2>1, <2>2 DEF ChatInv
  <1>2. ASSUME NEW i \in DOMAIN messages
        PROVE  /\ messages[i].answer \in {0, messages[i].of}
               /\ messages[i].answer # 0 => messages[i].role = "assistant"
               /\ messages[i].is = "streaming" => \E t \in turns : t.n = messages[i].of
    BY DEF ChatInv
  <1>3. ASSUME NEW t \in turns
        PROVE  t.sent # <<>> /\ Last(t.sent).of = t.n /\ Last(t.sent).role = "user"
    BY DEF ChatInv
  <1> QED BY <1>1, <1>2, <1>3 DEF AnswerLandsInItsTurn

\* A turn begins: none is under way and no bubble waits.
LEMMA SendMessageKeeps == ASSUME ChatInv, SendMessage PROVE ChatInv'
  <1> DEFINE n == turn + 1
             L == Len(messages)
  <1>1. PICK u : u = Bubble(L, "user", n, "said")  OBVIOUS
  <1>2. PICK b : b = Bubble(L + 1, "assistant", n, "streaming")  OBVIOUS
  <1>3. messages \in Seq(Said) /\ L \in Nat /\ n \in Nat /\ turn \in Nat
        /\ DOMAIN messages = 1..L
    BY DEF ChatInv
  <1>4. u \in Said /\ b \in Said
    BY <1>1, <1>2, <1>3 DEF Said, Bubble
  <1>5. /\ u.id = L /\ u.of = n /\ u.is = "said" /\ u.answer = 0 /\ u.role = "user"
        /\ b.id = L + 1 /\ b.of = n /\ b.is = "streaming" /\ b.answer = 0 /\ b.role = "assistant"
    BY <1>1, <1>2 DEF Bubble
  <1>6. messages' = messages \o <<u, b>>
    BY <1>1, <1>2 DEF SendMessage, Appended
  <1>7. History(messages') \in Seq(Said) /\ History(messages') # <<>> /\ Last(History(messages')) = u
    BY <1>3, <1>4, <1>5, <1>6, HistoryEnds
  <1>8. PICK t : t = [n |-> n, bubble |-> L + 1, sent |-> History(messages')]  OBVIOUS
  <1>9. t \in Request /\ t.n = n /\ t.bubble = L + 1 /\ t.sent = History(messages')
    BY <1>3, <1>7, <1>8 DEF Request
  <1>10. turns = {} /\ turns' = {t}
    BY <1>8 DEF SendMessage, ChatInv
  <1>11. /\ messages' \in Seq(Said)
         /\ DOMAIN messages' = 1..(L + 2)
         /\ \A i \in 1..L : messages'[i] = messages[i]
         /\ messages'[L + 1] = u /\ messages'[L + 2] = b
    BY <1>3, <1>4, <1>6
  <1>12. generating' = TRUE /\ turn' = n  BY DEF SendMessage
  <1> HIDE DEF n, L
  <1>13. ASSUME NEW i \in DOMAIN messages'
         PROVE  /\ messages'[i].id = i - 1
                /\ messages'[i].answer \in {0, messages'[i].of}
                /\ messages'[i].answer # 0 => messages'[i].role = "assistant"
                /\ messages'[i].is = "streaming" =>
                      \E q \in turns' : q.bubble = messages'[i].id /\ q.n = messages'[i].of
                /\ messages'[i].id = t.bubble => messages'[i].of = t.n /\ messages'[i].role = "assistant"
    <2>1. CASE i \in 1..L
      <3>1. messages'[i] = messages[i] /\ i \in DOMAIN messages  BY <2>1, <1>3, <1>11
      <3>2. messages[i].is # "streaming"  BY <3>1, <1>10 DEF ChatInv
      <3>3. messages[i].id = i - 1 /\ i - 1 # L + 1  BY <3>1, <2>1, <1>3 DEF ChatInv
      <3> QED BY <3>1, <3>2, <3>3, <1>9 DEF ChatInv
    <2>2. CASE i = L + 1
      <3>1. L = i - 1 /\ L # L + 1  BY <1>3, <2>2
      <3> QED BY <2>2, <3>1, <1>5, <1>9, <1>11
    <2>3. CASE i = L + 2
      <3>1. L + 1 = i - 1  BY <1>3, <2>3
      <3> QED BY <2>3, <3>1, <1>5, <1>9, <1>10, <1>11
    <2> QED BY <1>3, <1>11, <2>1, <2>2, <2>3
  <1>14. Last(t.sent).of = t.n /\ Last(t.sent).role = "user" /\ t.sent # <<>>
    BY <1>5, <1>7, <1>9
  <1> QED
    BY <1>3, <1>9, <1>10, <1>11, <1>12, <1>13, <1>14 DEF ChatInv

\* The transcript is cleared, the turn goes on.
LEMMA ClearKeeps == ASSUME ChatInv, ClearConversation PROVE ChatInv'
  <1>1. messages' \in Seq(Said) /\ DOMAIN messages' = {}  BY DEF ClearConversation
  <1> QED BY <1>1 DEF ChatInv, ClearConversation

\* The turn ends: only its own bubble takes the answer, if it is still there.
LEMMA TurnEndsKeeps == ASSUME ChatInv, NEW t \in turns, TurnEnds(t) PROVE ChatInv'
  <1>1. PICK is \in {"answered", "empty", "failed"} :
           messages' = [i \in DOMAIN messages |->
                          IF messages[i].id = t.bubble
                          THEN [messages[i] EXCEPT !.is = is, !.answer = t.n]
                          ELSE messages[i]]
    BY DEF TurnEnds
  <1>2. messages \in Seq(Said) /\ DOMAIN messages = 1..Len(messages) /\ Len(messages) \in Nat
        /\ \A i \in DOMAIN messages : messages[i] \in Said
    BY DEF ChatInv
  <1>3. turns = {t} /\ turns' = {} /\ t.n \in Nat
    BY DEF ChatInv, TurnEnds, Request
  <1>4. ASSUME NEW i \in DOMAIN messages, messages[i].id = t.bubble
        PROVE  /\ messages'[i] \in Said /\ messages'[i].id = messages[i].id
               /\ messages'[i].of = messages[i].of /\ messages'[i].role = messages[i].role
               /\ messages'[i].is = is /\ messages'[i].answer = t.n
    <2>1. messages'[i] = [messages[i] EXCEPT !.is = is, !.answer = t.n]  BY <1>1, <1>4
    <2> QED BY <1>2, <1>3, <2>1 DEF Said
  <1>5. ASSUME NEW i \in DOMAIN messages, messages[i].id # t.bubble
        PROVE  messages'[i] = messages[i]
    BY <1>1, <1>5
  <1>6. messages' \in Seq(Said) /\ DOMAIN messages' = DOMAIN messages
    <2>1. DOMAIN messages' = 1..Len(messages)  BY <1>1, <1>2
    <2>2. \A i \in 1..Len(messages) : messages'[i] \in Said  BY <1>2, <1>4, <1>5
    <2>3. messages' = [i \in 1..Len(messages) |-> messages'[i]]  BY <1>1, <1>2
    <2>4. messages' \in [1..Len(messages) -> Said]  BY <2>2, <2>3
    <2> QED BY <1>2, <2>1, <2>4
  <1>7. ASSUME NEW i \in DOMAIN messages'
        PROVE  /\ messages'[i].id = i - 1
               /\ messages'[i].answer \in {0, messages'[i].of}
               /\ messages'[i].answer # 0 => messages'[i].role = "assistant"
               /\ messages'[i].is # "streaming"
    <2>1. CASE messages[i].id = t.bubble
      <3>1. messages[i].of = t.n /\ messages[i].role = "assistant" /\ messages[i].id = i - 1
        BY <1>6, <2>1 DEF ChatInv
      <3> QED BY <1>4, <1>6, <2>1, <3>1
    <2>2. CASE messages[i].id # t.bubble
      <3>1. messages'[i] = messages[i]  BY <1>5, <1>6, <2>2
      <3>2. messages[i].is # "streaming"  BY <1>3, <1>6, <2>2 DEF ChatInv
      <3> QED BY <1>6, <3>1, <3>2 DEF ChatInv
    <2> QED BY <2>1, <2>2
  <1>8. generating' = FALSE /\ turn' \in Nat  BY DEF TurnEnds, ChatInv
  <1> QED BY <1>3, <1>6, <1>7, <1>8 DEF ChatInv

\* Steps of others leave the chat alone.
LEMMA ChatStays == ASSUME ChatInv, UNCHANGED chatVars PROVE ChatInv'
  BY DEF ChatInv, chatVars

\* Every step of the chat keeps its invariant.
LEMMA ChatStepKeeps == ASSUME ChatInv, ChatNext PROVE ChatInv'
  BY SendMessageKeeps, ClearKeeps, TurnEndsKeeps DEF ChatNext

\* Steps of others leave the page alone.
LEMMA PageStays == ASSUME PageInv, UNCHANGED pageVars PROVE PageInv'
  <1>1. Names' = Names /\ Dialogs' = Dialogs  BY DEF Names, Dialogs, Controls, pageVars
  <1> QED BY <1>1 DEF PageInv, PageTyped, PageTypeOK, Named, CaughtUp, Ready, Closed, pageVars

\* Every step of the page keeps its invariant.
LEMMA PageStepKeeps == ASSUME PageInv, PageNext PROVE PageInv'
  BY ReadKeeps, ArrivalKeeps, RetryKeeps, EditElsewhereKeeps, CancelKeeps, OpenKeeps, PrepareKeeps,
     TakeBackKeeps, SendKeeps, TakenKeeps, RefusedKeeps, AnswerKeeps DEF PageNext

\* Every step of the dashboard keeps both.
LEMMA DashboardStepKeeps ==
    ASSUME PageInv, ChatInv, [DashboardNext]_dashboardVars
    PROVE  PageInv' /\ ChatInv'
  <1>1. CASE PageTurn
    BY <1>1, PageStepKeeps, ChatStepKeeps, PageStays, ChatStays DEF PageTurn
  <1>2. CASE SignOnTurn
    BY <1>2, PageStays, ChatStays DEF SignOnTurn
  <1>3. CASE KeysTurn
    BY <1>3, PageStays, ChatStays DEF KeysTurn
  <1>4. CASE UNCHANGED dashboardVars
    BY <1>4, PageStays, ChatStays DEF dashboardVars
  <1> QED BY <1>1, <1>2, <1>3, <1>4 DEF DashboardNext

\* Both hold throughout.
LEMMA PageAndChatHold == DashboardSpec => [](PageInv /\ ChatInv)
  <1>1. DashboardInit => PageInv /\ ChatInv
    BY PageInitially, ChatInitially DEF DashboardInit
  <1>2. PageInv /\ ChatInv /\ [DashboardNext]_dashboardVars => (PageInv /\ ChatInv)'
    BY DashboardStepKeeps
  <1> QED BY <1>1, <1>2, PTL DEF DashboardSpec

\* Whatever the order of loads, answers and other users' changes, a page
\* whose loads are in shows the change it was told of, unless the load shown was
\* overtaken; and every answer of the chat lands in the turn that asked for it.
THEOREM PageShowsWhatIs == DashboardSpec => []ShowsWhatIs
  <1>1. PageInv => ScreenCatchesUp
    <2> SUFFICES ASSUME PageInv, loads = {}, Ready, ~overtaken PROVE shown.version >= heard
      BY DEF ScreenCatchesUp
    <2> QED BY DEF PageInv, CaughtUp
  <1>2. PageInv /\ ChatInv => ShowsWhatIs
    BY <1>1, ChatAnswersInTurn DEF ShowsWhatIs
  <1> QED BY <1>2, PageAndChatHold, PTL

-----------------------------------------------------------------------------
(* What was typed. *)

\* The reasons for which what was typed may go.
Excused(p) ==
    LET c == Ctl(p.place.ctl) IN
    c.needs = "text" /\ c.name # "enable named tunnel" =>
        \/ \E w \in writes \ writes' : w.ctl = c.name /\ w.state = "accepted"
        \/ c.at = list /\ <<shown, drawn, asked>> # <<shown, drawn, asked>>'
        \/ c.takesBack
        \/ c.at = "asked" /\ open' = Closed

\* What lies in a control's place is that control's.
LEMMA PlaceOf ==
    ASSUME page \in DOMAIN Pages, NEW c \in Controls, NEW r, NEW p, p.place = Place(c, r)
    PROVE  Ctl(p.place.ctl) = c
  <1>1. p.place.ctl = c.name  BY DEF Place
  <1> QED BY <1>1, CtlOf, ControlsAreThere

\* A list that arrives takes what was typed under it.
LEMMA RedrawExcuses ==
    ASSUME PageInv, NEW l \in loads, ListArrives(l), NEW p \in prepared \ prepared'
    PROVE  Excused(p)
  <1>1. Ctl(p.place.ctl).at = list
    BY DEF ListArrives, PreparedElsewhere, UnderList
  <1>2. drawn' # drawn
    BY PageParts DEF ListArrives
  <1> QED BY <1>1, <1>2 DEF Excused

\* A dialog that is closed takes what was typed in it, if it was made for the occasion.
LEMMA CancelExcuses ==
    ASSUME PageInv, CancelDialog, NEW p \in prepared \ prepared'
    PROVE  Excused(p)
  <1>1. Ctl(open.ctl).at # "dialog" /\ p.place.ctl = open.ctl /\ open # Closed /\ open' = Closed
    BY DEF CancelDialog
  <1>2. PICK c \in Dialogs : open.ctl = c.name
    BY <1>1 DEF PageInv, Named
  <1>3. Ctl(open.ctl) = c /\ c.at = "asked"
    BY <1>1, <1>2, CtlOf, ControlsAreThere, PageParts DEF Dialogs
  <1> QED BY <1>1, <1>3 DEF Excused

\* So does a form that can be closed.
LEMMA TakeBackExcuses ==
    ASSUME PageInv, NEW c \in Controls, NEW r \in RowsOf(c), TakeBack(c, r),
           NEW p \in prepared \ prepared'
    PROVE  Excused(p)
  <1>1. p.place = Place(c, r) /\ c.takesBack
    BY DEF TakeBack, Prepared
  <1> QED BY <1>1, PlaceOf, PageParts DEF Excused

\* Sending takes the named tunnel's token and nothing else that was typed.
LEMMA SendExcuses ==
    ASSUME PageInv, NEW c \in Controls, NEW r \in RowsOf(c), Send(c, r),
           NEW p \in prepared \ prepared'
    PROVE  Excused(p)
  <1>1. CASE p.place = Place(c, r) /\ c.clearsFirst
    <2>1. Ctl(p.place.ctl) = c  BY <1>1, PlaceOf, PageParts
    <2>2. c.needs = "text" => c.name = "enable named tunnel"
      BY <1>1, CtlSound, ControlsAreThere, PageParts DEF ControlSound
    <2> QED BY <2>1, <2>2 DEF Excused
  <1>2. CASE p.place.ctl \in c.finds
    <2>1. PICK d \in Pages[page].controls : d.name = p.place.ctl /\ d.needs = "found"
      BY <1>2, CtlSound, ControlsAreThere, PageParts DEF ControlSound
    <2>2. Ctl(p.place.ctl) = d  BY <2>1, CtlOf, PageParts
    <2> QED BY <2>1, <2>2 DEF Excused
  <1> QED BY <1>1, <1>2 DEF Send

\* An answer takes what was typed only when it is a success, or with the list.
LEMMA AnswerExcuses ==
    ASSUME PageInv, NEW w \in writes, NEW end \in Ends(w), AnswerArrives(w, end),
           NEW p \in prepared \ prepared'
    PROVE  Excused(p)
  <1> DEFINE c == Ctl(w.ctl)
             leaves == Successful(w, end) /\ c.closes /\ open.ctl = c.name
  <1>1. c.name = w.ctl /\ w.place.ctl = w.ctl
    BY CtlNamed, PageParts DEF WritesSound
  <1>2. w \in writes \ writes'
    BY DEF AnswerArrives
  <1>3. Successful(w, end) => w.state = "accepted"
    BY DEF Successful, Succeeds, Ends
  <1>4. CASE Successful(w, end) /\ (p.place = w.place \/ p.place.ctl = c.name)
    <2>1. Ctl(p.place.ctl) = c  BY <1>1, <1>4
    <2> QED BY <2>1, <1>1, <1>2, <1>3, <1>4 DEF Excused
  <1>5. CASE Reloads(w, end) /\ UnderList(p.place.ctl)
    <2>1. asked' # asked
      <3>1. Asking  BY <1>5 DEF AnswerArrives, Reloads, Successful
      <3> QED BY <3>1, PageParts DEF Asking
    <2> QED BY <2>1, <1>5 DEF Excused, UnderList
  <1>6. \/ Successful(w, end) /\ (p.place = w.place \/ p.place.ctl = c.name)
        \/ Reloads(w, end) /\ UnderList(p.place.ctl)
    BY DEF AnswerArrives, Reloads, Successful, PreparedElsewhere
  <1> QED BY <1>4, <1>5, <1>6

\* No step of the page takes what was typed without one of the reasons.
LEMMA PageStepExcuses ==
    ASSUME PageInv, PageNext, NEW p \in prepared \ prepared'
    PROVE  Excused(p)
  <1>1. ASSUME NEW l \in loads, ListIsRead(l) PROVE FALSE  BY <1>1 DEF ListIsRead
  <1>2. ASSUME Retry \/ EditedElsewhere PROVE FALSE  BY <1>2 DEF Retry, EditedElsewhere
  <1>3. ASSUME NEW c \in Controls, NEW r \in RowsOf(c), OpenDialog(c, r) \/ Prepare(c, r)
        PROVE  FALSE
    BY <1>3 DEF OpenDialog, Prepare
  <1>4. ASSUME NEW w \in writes, WriteIsTaken(w) \/ WriteIsRefused(w) PROVE FALSE
    BY <1>4 DEF WriteIsTaken, WriteIsRefused
  <1>5. Dialogs \subseteq Controls  BY DEF Dialogs
  <1> QED
    BY <1>1, <1>2, <1>3, <1>4, <1>5, RedrawExcuses, CancelExcuses, TakeBackExcuses, SendExcuses,
       AnswerExcuses DEF PageNext

\* On every page, for any rows and any number of requests under way, what
\* was typed is lost for one of the stated reasons only.
THEOREM TypedStaysTyped == DashboardSpec => TypedIsKept
  <1>1. ASSUME PageInv, [DashboardNext]_dashboardVars
        PROVE  [\A p \in prepared \ prepared' : Excused(p)]_dashboardVars
    <2> SUFFICES ASSUME NEW p \in prepared \ prepared' PROVE Excused(p)
      OBVIOUS
    <2>1. PageNext
      BY <1>1 DEF DashboardNext, PageTurn, SignOnTurn, KeysTurn, dashboardVars, pageVars
    <2> QED BY <1>1, <2>1, PageStepExcuses
  <1>2. DashboardSpec => [][\A p \in prepared \ prepared' : Excused(p)]_dashboardVars
    BY <1>1, PageAndChatHold, PTL DEF DashboardSpec
  <1> QED BY <1>2 DEF TypedIsKept, Excused
=============================================================================
