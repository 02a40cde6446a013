----------------------- MODULE RuntimeServiceProofs ------------------------
(***************************************************************************)
(* What the parts of the runtime promise, for any number of requests,      *)
(* models, callers and versions of a combo: first an inductive invariant   *)
(* for each part by itself, then, at the end, the theorems, for the        *)
(* service in which each part runs among the others.                       *)
(***************************************************************************)
EXTENDS RuntimeService, TLAPS, FiniteSetTheorems

-----------------------------------------------------------------------------
(***************************************************************************)
(* The rotation of a refresh token for any number of requests, rotations    *)
(* and faults: the stored token never goes back, and it is the provider's    *)
(* newest once nothing is in flight, unless something was lost on the way.    *)
(*                                                                         *)
(* Neither follows from one step: a request may settle an outcome that       *)
(* another one exchanged and cached long before.  What makes that safe is     *)
(* that requests in flight together are at most one rotation apart           *)
(* (InStep), and that one that renews is never ahead of another (Together).   *)
(***************************************************************************)

Renewing == {"lookup", "exchange", "put", "settle"}
Fetched == {"put", "settle"}

Shape ==
    /\ valid \in Tokens /\ stored \in Tokens /\ due \in BOOLEAN
    /\ phase \in [Requests -> Renewing \cup {"idle", "call"}]
    /\ token \in [Requests -> Tokens]
    /\ DOMAIN result = Requests /\ DOMAIN cache = Tokens
    /\ faults \in Nat

\* An outcome for token t is the next one, which the provider gave out, or none.
OutcomeFor(t, o) ==
    \/ o \in {None, Rejected, Transient}
    \/ t + 1 \in Tokens /\ t + 1 <= valid /\ o = Ok(t + 1)

OutcomesInv ==
    /\ \A t \in Tokens : OutcomeFor(t, cache[t])
    /\ \A r \in Requests : phase[r] \in Fetched => OutcomeFor(token[r], result[r])

\* The store is at the token of every request in flight, or one past it.
InStep ==
    \A r \in Requests : phase[r] # "idle" => token[r] <= stored /\ stored <= token[r] + 1

\* Nobody that renews holds a newer token than anybody else in flight.
Together ==
    \A r, q \in Requests :
        phase[r] \in Renewing /\ phase[q] # "idle" => token[r] <= token[q]

\* While a token is due, everybody in flight has that one.
DueInv == due => \A r \in Requests : phase[r] # "idle" => token[r] = stored

\* What the provider gave out is stored, or somebody is about to store it.
Carried ==
    /\ stored <= valid
    /\ faults = 0 /\ stored # valid =>
           \E r \in Requests : phase[r] \in Fetched /\ result[r] = Ok(valid) /\ valid = token[r] + 1

RefreshInv == Shape /\ OutcomesInv /\ InStep /\ Together /\ DueInv /\ Carried

\* OutcomeThe kinds tell outcomes apart.
LEMMA OutcomeKinds ==
    /\ None.kind = "none" /\ Rejected.kind = "rejected" /\ Transient.kind = "transient"
    /\ \A t : Ok(t).kind = "ok" /\ Ok(t).token = t
  BY DEF None, Rejected, Transient, Ok

\* The first token is stored and valid, and nobody is in flight.
LEMMA RefreshInitially == RefreshInit => RefreshInv
  <1> SUFFICES ASSUME RefreshInit PROVE RefreshInv
    OBVIOUS
  <1>1. Shape
    <2>1. valid \in Tokens /\ stored \in Tokens /\ faults \in Nat
      BY RefreshAssumption DEF RefreshInit, Tokens
    <2>2. token \in [Requests -> Tokens] /\ phase \in [Requests -> Renewing \cup {"idle", "call"}]
      BY RefreshAssumption DEF RefreshInit, Tokens
    <2>3. DOMAIN result = Requests /\ DOMAIN cache = Tokens
      BY DEF RefreshInit
    <2>4. due \in BOOLEAN
      BY Zenon DEF RefreshInit
    <2> QED BY <2>1, <2>2, <2>3, <2>4 DEF Shape
  <1>2. \A r \in Requests : phase[r] = "idle"
    BY DEF RefreshInit
  <1>3. OutcomesInv
    BY <1>2 DEF RefreshInit, OutcomesInv, OutcomeFor, Fetched
  <1>4. InStep /\ Together /\ DueInv /\ Carried
    BY <1>2 DEF RefreshInit, InStep, Together, DueInv, Carried, Renewing
  <1> QED BY <1>1, <1>3, <1>4 DEF RefreshInv

\* What the invariant says of a moment when nobody is in flight.
LEMMA InvKeepsRotation == RefreshInv => RotationNotLost
  BY DEF RefreshInv, Carried, RotationNotLost, Quiet, Fetched

\* A token becomes due only while nobody is in flight.
LEMMA BecomesDueStep ==
    ASSUME RefreshInv, BecomesDue
    PROVE  RefreshInv' /\ stored <= stored'
  <1> USE DEF BecomesDue, Quiet
  <1>1. Shape'
    BY RefreshAssumption, OutcomeKinds
    DEF RefreshInv, Shape, Renewing, Fetched, Tokens, OutcomesInv, OutcomeFor
  <1>2. OutcomesInv'
    BY RefreshAssumption, OutcomeKinds
    DEF RefreshInv, Shape, Renewing, Fetched, Tokens, OutcomesInv, OutcomeFor
  <1>3. InStep'
    BY RefreshAssumption, OutcomeKinds
    DEF RefreshInv, Shape, Renewing, Fetched, Tokens, InStep, Together, OutcomesInv, OutcomeFor, DueInv
  <1>4. Together'
    BY RefreshAssumption, OutcomeKinds
    DEF RefreshInv, Shape, Renewing, Fetched, Tokens, InStep, Together, DueInv
  <1>5. DueInv'
    BY RefreshAssumption, OutcomeKinds
    DEF RefreshInv, Shape, Renewing, Fetched, Tokens, InStep, DueInv
  <1>6. Carried'
    BY RefreshAssumption, OutcomeKinds
    DEF RefreshInv, Shape, Renewing, Fetched, Tokens, InStep, Together, OutcomesInv, OutcomeFor, Carried
  <1>7. stored <= stored'
    BY RefreshAssumption, OutcomeKinds
    DEF RefreshInv, Shape, Renewing, Fetched, Tokens, InStep, OutcomesInv, OutcomeFor
  <1> QED BY <1>1, <1>2, <1>3, <1>4, <1>5, <1>6, <1>7 DEF RefreshInv

\* A new request takes the stored token, which nobody in flight is past.
LEMMA SelectStep ==
    ASSUME RefreshInv, NEW r \in Requests, Select(r)
    PROVE  RefreshInv' /\ stored <= stored'
  <1> USE DEF Select, Goto
  <1>1. Shape'
    BY RefreshAssumption, OutcomeKinds
    DEF RefreshInv, Shape, Renewing, Fetched, Tokens, OutcomesInv, OutcomeFor
  <1>2. OutcomesInv'
    BY RefreshAssumption, OutcomeKinds
    DEF RefreshInv, Shape, Renewing, Fetched, Tokens, OutcomesInv, OutcomeFor
  <1>3. InStep'
    BY RefreshAssumption, OutcomeKinds
    DEF RefreshInv, Shape, Renewing, Fetched, Tokens, InStep, Together, OutcomesInv, OutcomeFor, DueInv
  <1>4. Together'
    BY RefreshAssumption, OutcomeKinds
    DEF RefreshInv, Shape, Renewing, Fetched, Tokens, InStep, Together, DueInv
  <1>5. DueInv'
    BY RefreshAssumption, OutcomeKinds
    DEF RefreshInv, Shape, Renewing, Fetched, Tokens, InStep, DueInv
  <1>6. Carried'
    BY RefreshAssumption, OutcomeKinds
    DEF RefreshInv, Shape, Renewing, Fetched, Tokens, InStep, Together, OutcomesInv, OutcomeFor, Carried
  <1>7. stored <= stored'
    BY RefreshAssumption, OutcomeKinds
    DEF RefreshInv, Shape, Renewing, Fetched, Tokens, InStep, OutcomesInv, OutcomeFor
  <1> QED BY <1>1, <1>2, <1>3, <1>4, <1>5, <1>6, <1>7 DEF RefreshInv

\* A cached outcome is one for the token it is found under.
LEMMA LookupStep ==
    ASSUME RefreshInv, NEW r \in Requests, Lookup(r)
    PROVE  RefreshInv' /\ stored <= stored'
  <1> USE DEF Lookup, Goto
  <1>1. Shape'
    BY RefreshAssumption, OutcomeKinds
    DEF RefreshInv, Shape, Renewing, Fetched, Tokens, OutcomesInv, OutcomeFor
  <1>2. OutcomesInv'
    BY RefreshAssumption, OutcomeKinds
    DEF RefreshInv, Shape, Renewing, Fetched, Tokens, OutcomesInv, OutcomeFor
  <1>3. InStep'
    BY RefreshAssumption, OutcomeKinds
    DEF RefreshInv, Shape, Renewing, Fetched, Tokens, InStep, Together, OutcomesInv, OutcomeFor, DueInv
  <1>4. Together'
    BY RefreshAssumption, OutcomeKinds
    DEF RefreshInv, Shape, Renewing, Fetched, Tokens, InStep, Together, DueInv
  <1>5. DueInv'
    BY RefreshAssumption, OutcomeKinds
    DEF RefreshInv, Shape, Renewing, Fetched, Tokens, InStep, DueInv
  <1>6. Carried'
    BY RefreshAssumption, OutcomeKinds
    DEF RefreshInv, Shape, Renewing, Fetched, Tokens, InStep, Together, OutcomesInv, OutcomeFor, Carried
  <1>7. stored <= stored'
    BY RefreshAssumption, OutcomeKinds
    DEF RefreshInv, Shape, Renewing, Fetched, Tokens, InStep, OutcomesInv, OutcomeFor
  <1> QED BY <1>1, <1>2, <1>3, <1>4, <1>5, <1>6, <1>7 DEF RefreshInv

\* The provider rotates for the newest token only, and the request carries the next.
LEMMA ExchangeStep ==
    ASSUME RefreshInv, NEW r \in Requests, Exchange(r)
    PROVE  RefreshInv' /\ stored <= stored'
  <1> USE DEF Exchange, Goto, Receive
  <1>1. Shape'
    BY RefreshAssumption, OutcomeKinds
    DEF RefreshInv, Shape, Renewing, Fetched, Tokens, OutcomesInv, OutcomeFor
  <1>2. OutcomesInv'
    BY RefreshAssumption, OutcomeKinds
    DEF RefreshInv, Shape, Renewing, Fetched, Tokens, OutcomesInv, OutcomeFor
  <1>3. InStep'
    BY RefreshAssumption, OutcomeKinds
    DEF RefreshInv, Shape, Renewing, Fetched, Tokens, InStep, Together, OutcomesInv, OutcomeFor, DueInv
  <1>4. Together'
    BY RefreshAssumption, OutcomeKinds
    DEF RefreshInv, Shape, Renewing, Fetched, Tokens, InStep, Together, DueInv
  <1>5. DueInv'
    BY RefreshAssumption, OutcomeKinds
    DEF RefreshInv, Shape, Renewing, Fetched, Tokens, InStep, DueInv
  <1>6. Carried'
    BY RefreshAssumption, OutcomeKinds
    DEF RefreshInv, Shape, Renewing, Fetched, Tokens, InStep, Together, OutcomesInv, OutcomeFor, Carried
  <1>7. stored <= stored'
    BY RefreshAssumption, OutcomeKinds
    DEF RefreshInv, Shape, Renewing, Fetched, Tokens, InStep, OutcomesInv, OutcomeFor
  <1> QED BY <1>1, <1>2, <1>3, <1>4, <1>5, <1>6, <1>7 DEF RefreshInv

\* A lost answer is a fault: from here on the store may stay behind.
LEMMA ExchangeLostStep ==
    ASSUME RefreshInv, NEW r \in Requests, ExchangeLost(r)
    PROVE  RefreshInv' /\ stored <= stored'
  <1> USE DEF ExchangeLost, Goto, Receive
  <1>1. Shape'
    BY RefreshAssumption, OutcomeKinds
    DEF RefreshInv, Shape, Renewing, Fetched, Tokens, OutcomesInv, OutcomeFor
  <1>2. OutcomesInv'
    BY RefreshAssumption, OutcomeKinds
    DEF RefreshInv, Shape, Renewing, Fetched, Tokens, OutcomesInv, OutcomeFor
  <1>3. InStep'
    BY RefreshAssumption, OutcomeKinds
    DEF RefreshInv, Shape, Renewing, Fetched, Tokens, InStep, Together, OutcomesInv, OutcomeFor, DueInv
  <1>4. Together'
    BY RefreshAssumption, OutcomeKinds
    DEF RefreshInv, Shape, Renewing, Fetched, Tokens, InStep, Together, DueInv
  <1>5. DueInv'
    BY RefreshAssumption, OutcomeKinds
    DEF RefreshInv, Shape, Renewing, Fetched, Tokens, InStep, DueInv
  <1>6. Carried'
    BY RefreshAssumption, OutcomeKinds
    DEF RefreshInv, Shape, Renewing, Fetched, Tokens, InStep, Together, OutcomesInv, OutcomeFor, Carried
  <1>7. stored <= stored'
    BY RefreshAssumption, OutcomeKinds
    DEF RefreshInv, Shape, Renewing, Fetched, Tokens, InStep, OutcomesInv, OutcomeFor
  <1> QED BY <1>1, <1>2, <1>3, <1>4, <1>5, <1>6, <1>7 DEF RefreshInv

\* The outcome kept under a token is the one of its exchange.
LEMMA PutStep ==
    ASSUME RefreshInv, NEW r \in Requests, Put(r)
    PROVE  RefreshInv' /\ stored <= stored'
  <1> USE DEF Put, Goto
  <1>1. Shape'
    BY RefreshAssumption, OutcomeKinds
    DEF RefreshInv, Shape, Renewing, Fetched, Tokens, OutcomesInv, OutcomeFor
  <1>2. OutcomesInv'
    BY RefreshAssumption, OutcomeKinds
    DEF RefreshInv, Shape, Renewing, Fetched, Tokens, OutcomesInv, OutcomeFor
  <1>3. InStep'
    BY RefreshAssumption, OutcomeKinds
    DEF RefreshInv, Shape, Renewing, Fetched, Tokens, InStep, Together, OutcomesInv, OutcomeFor, DueInv
  <1>4. Together'
    BY RefreshAssumption, OutcomeKinds
    DEF RefreshInv, Shape, Renewing, Fetched, Tokens, InStep, Together, DueInv
  <1>5. DueInv'
    BY RefreshAssumption, OutcomeKinds
    DEF RefreshInv, Shape, Renewing, Fetched, Tokens, InStep, DueInv
  <1>6. Carried'
    BY RefreshAssumption, OutcomeKinds
    DEF RefreshInv, Shape, Renewing, Fetched, Tokens, InStep, Together, OutcomesInv, OutcomeFor, Carried
  <1>7. stored <= stored'
    BY RefreshAssumption, OutcomeKinds
    DEF RefreshInv, Shape, Renewing, Fetched, Tokens, InStep, OutcomesInv, OutcomeFor
  <1> QED BY <1>1, <1>2, <1>3, <1>4, <1>5, <1>6, <1>7 DEF RefreshInv

\* An expired outcome is none.
LEMMA CacheExpiresStep ==
    ASSUME RefreshInv, NEW t \in Tokens, CacheExpires(t)
    PROVE  RefreshInv' /\ stored <= stored'
  <1> USE DEF CacheExpires
  <1>1. Shape'
    BY RefreshAssumption, OutcomeKinds
    DEF RefreshInv, Shape, Renewing, Fetched, Tokens, OutcomesInv, OutcomeFor
  <1>2. OutcomesInv'
    BY RefreshAssumption, OutcomeKinds
    DEF RefreshInv, Shape, Renewing, Fetched, Tokens, OutcomesInv, OutcomeFor
  <1>3. InStep'
    BY RefreshAssumption, OutcomeKinds
    DEF RefreshInv, Shape, Renewing, Fetched, Tokens, InStep, Together, OutcomesInv, OutcomeFor, DueInv
  <1>4. Together'
    BY RefreshAssumption, OutcomeKinds
    DEF RefreshInv, Shape, Renewing, Fetched, Tokens, InStep, Together, DueInv
  <1>5. DueInv'
    BY RefreshAssumption, OutcomeKinds
    DEF RefreshInv, Shape, Renewing, Fetched, Tokens, InStep, DueInv
  <1>6. Carried'
    BY RefreshAssumption, OutcomeKinds
    DEF RefreshInv, Shape, Renewing, Fetched, Tokens, InStep, Together, OutcomesInv, OutcomeFor, Carried
  <1>7. stored <= stored'
    BY RefreshAssumption, OutcomeKinds
    DEF RefreshInv, Shape, Renewing, Fetched, Tokens, InStep, OutcomesInv, OutcomeFor
  <1> QED BY <1>1, <1>2, <1>3, <1>4, <1>5, <1>6, <1>7 DEF RefreshInv

\* The token stored is the next after one that everybody in flight has or is past.
LEMMA SettleStep ==
    ASSUME RefreshInv, NEW r \in Requests, Settle(r)
    PROVE  RefreshInv' /\ stored <= stored'
  <1> USE DEF Settle, Goto, StoreTokens
  <1>1. Shape'
    <2>1. OutcomeFor(token[r], result[r])
      BY DEF RefreshInv, OutcomesInv, Fetched
    <2>2. stored' \in Tokens /\ due' \in BOOLEAN
      <3>1. CASE result[r].kind = "ok"
        BY <3>1, <2>1, OutcomeKinds DEF OutcomeFor
      <3>2. CASE result[r].kind # "ok"
        BY <3>2 DEF RefreshInv, Shape
      <3> QED BY <3>1, <3>2
    <2> QED BY <2>2 DEF RefreshInv, Shape, Renewing
  <1>2. OutcomesInv'
    BY RefreshAssumption, OutcomeKinds
    DEF RefreshInv, Shape, Renewing, Fetched, Tokens, OutcomesInv, OutcomeFor
  <1>3. InStep'
    <2> SUFFICES ASSUME NEW q \in Requests, phase'[q] # "idle"
                 PROVE  token[q] <= stored' /\ stored' <= token[q] + 1
      BY DEF InStep
    <2>1. /\ phase[q] # "idle" /\ phase[r] = "settle"
          /\ token[q] \in Nat /\ token[r] \in Nat /\ stored \in Nat
      BY DEF RefreshInv, Shape, Tokens
    <2>2. /\ token[q] <= stored /\ stored <= token[q] + 1 /\ stored <= token[r] + 1
          /\ token[r] <= token[q]
      BY <2>1 DEF RefreshInv, InStep, Together, Renewing
    <2>3. CASE result[r].kind = "ok"
      <3>1. OutcomeFor(token[r], result[r])
        BY DEF RefreshInv, OutcomesInv, Fetched
      <3>2. stored' = token[r] + 1
        BY <2>3, <3>1, OutcomeKinds DEF OutcomeFor
      <3> QED BY <2>1, <2>2, <3>2
    <2>4. CASE result[r].kind # "ok"
      BY <2>2, <2>4
    <2> QED BY <2>3, <2>4
  <1>4. Together'
    BY RefreshAssumption, OutcomeKinds
    DEF RefreshInv, Shape, Renewing, Fetched, Tokens, InStep, Together, DueInv
  <1>5. DueInv'
    BY RefreshAssumption, OutcomeKinds
    DEF RefreshInv, Shape, Renewing, Fetched, Tokens, InStep, DueInv
  <1>6. Carried'
    BY RefreshAssumption, OutcomeKinds
    DEF RefreshInv, Shape, Renewing, Fetched, Tokens, InStep, Together, OutcomesInv, OutcomeFor, Carried
  <1>7. stored <= stored'
    BY RefreshAssumption, OutcomeKinds
    DEF RefreshInv, Shape, Renewing, Fetched, Tokens, InStep, OutcomesInv, OutcomeFor
  <1> QED BY <1>1, <1>2, <1>3, <1>4, <1>5, <1>6, <1>7 DEF RefreshInv

\* A lost post is a fault.
LEMMA SettleLostStep ==
    ASSUME RefreshInv, NEW r \in Requests, SettleLost(r)
    PROVE  RefreshInv' /\ stored <= stored'
  <1> USE DEF SettleLost, Goto
  <1>1. Shape'
    BY RefreshAssumption, OutcomeKinds
    DEF RefreshInv, Shape, Renewing, Fetched, Tokens, OutcomesInv, OutcomeFor
  <1>2. OutcomesInv'
    BY RefreshAssumption, OutcomeKinds
    DEF RefreshInv, Shape, Renewing, Fetched, Tokens, OutcomesInv, OutcomeFor
  <1>3. InStep'
    BY RefreshAssumption, OutcomeKinds
    DEF RefreshInv, Shape, Renewing, Fetched, Tokens, InStep, Together, OutcomesInv, OutcomeFor, DueInv
  <1>4. Together'
    BY RefreshAssumption, OutcomeKinds
    DEF RefreshInv, Shape, Renewing, Fetched, Tokens, InStep, Together, DueInv
  <1>5. DueInv'
    BY RefreshAssumption, OutcomeKinds
    DEF RefreshInv, Shape, Renewing, Fetched, Tokens, InStep, DueInv
  <1>6. Carried'
    BY RefreshAssumption, OutcomeKinds
    DEF RefreshInv, Shape, Renewing, Fetched, Tokens, InStep, Together, OutcomesInv, OutcomeFor, Carried
  <1>7. stored <= stored'
    BY RefreshAssumption, OutcomeKinds
    DEF RefreshInv, Shape, Renewing, Fetched, Tokens, InStep, OutcomesInv, OutcomeFor
  <1> QED BY <1>1, <1>2, <1>3, <1>4, <1>5, <1>6, <1>7 DEF RefreshInv

\* A request that calls has nothing to store any more.
LEMMA CallStep ==
    ASSUME RefreshInv, NEW r \in Requests, Call(r)
    PROVE  RefreshInv' /\ stored <= stored'
  <1> USE DEF Call, Goto
  <1>1. Shape'
    BY RefreshAssumption, OutcomeKinds
    DEF RefreshInv, Shape, Renewing, Fetched, Tokens, OutcomesInv, OutcomeFor
  <1>2. OutcomesInv'
    BY RefreshAssumption, OutcomeKinds
    DEF RefreshInv, Shape, Renewing, Fetched, Tokens, OutcomesInv, OutcomeFor
  <1>3. InStep'
    BY RefreshAssumption, OutcomeKinds
    DEF RefreshInv, Shape, Renewing, Fetched, Tokens, InStep, Together, OutcomesInv, OutcomeFor, DueInv
  <1>4. Together'
    BY RefreshAssumption, OutcomeKinds
    DEF RefreshInv, Shape, Renewing, Fetched, Tokens, InStep, Together, DueInv
  <1>5. DueInv'
    BY RefreshAssumption, OutcomeKinds
    DEF RefreshInv, Shape, Renewing, Fetched, Tokens, InStep, DueInv
  <1>6. Carried'
    BY RefreshAssumption, OutcomeKinds
    DEF RefreshInv, Shape, Renewing, Fetched, Tokens, InStep, Together, OutcomesInv, OutcomeFor, Carried
  <1>7. stored <= stored'
    BY RefreshAssumption, OutcomeKinds
    DEF RefreshInv, Shape, Renewing, Fetched, Tokens, InStep, OutcomesInv, OutcomeFor
  <1> QED BY <1>1, <1>2, <1>3, <1>4, <1>5, <1>6, <1>7 DEF RefreshInv

\* A dropped request is a fault.
LEMMA CancelStep ==
    ASSUME RefreshInv, NEW r \in Requests, Cancel(r)
    PROVE  RefreshInv' /\ stored <= stored'
  <1> USE DEF Cancel, Goto
  <1>1. Shape'
    BY RefreshAssumption, OutcomeKinds
    DEF RefreshInv, Shape, Renewing, Fetched, Tokens, OutcomesInv, OutcomeFor
  <1>2. OutcomesInv'
    BY RefreshAssumption, OutcomeKinds
    DEF RefreshInv, Shape, Renewing, Fetched, Tokens, OutcomesInv, OutcomeFor
  <1>3. InStep'
    BY RefreshAssumption, OutcomeKinds
    DEF RefreshInv, Shape, Renewing, Fetched, Tokens, InStep, Together, OutcomesInv, OutcomeFor, DueInv
  <1>4. Together'
    BY RefreshAssumption, OutcomeKinds
    DEF RefreshInv, Shape, Renewing, Fetched, Tokens, InStep, Together, DueInv
  <1>5. DueInv'
    BY RefreshAssumption, OutcomeKinds
    DEF RefreshInv, Shape, Renewing, Fetched, Tokens, InStep, DueInv
  <1>6. Carried'
    BY RefreshAssumption, OutcomeKinds
    DEF RefreshInv, Shape, Renewing, Fetched, Tokens, InStep, Together, OutcomesInv, OutcomeFor, Carried
  <1>7. stored <= stored'
    BY RefreshAssumption, OutcomeKinds
    DEF RefreshInv, Shape, Renewing, Fetched, Tokens, InStep, OutcomesInv, OutcomeFor
  <1> QED BY <1>1, <1>2, <1>3, <1>4, <1>5, <1>6, <1>7 DEF RefreshInv

\* The lock is no part of the tokens.
LEMMA LockExpiresStep ==
    ASSUME RefreshInv, LockExpires
    PROVE  RefreshInv' /\ stored <= stored'
  <1> USE DEF LockExpires
  <1>1. Shape'
    BY RefreshAssumption, OutcomeKinds
    DEF RefreshInv, Shape, Renewing, Fetched, Tokens, OutcomesInv, OutcomeFor
  <1>2. OutcomesInv'
    BY RefreshAssumption, OutcomeKinds
    DEF RefreshInv, Shape, Renewing, Fetched, Tokens, OutcomesInv, OutcomeFor
  <1>3. InStep'
    BY RefreshAssumption, OutcomeKinds
    DEF RefreshInv, Shape, Renewing, Fetched, Tokens, InStep, Together, OutcomesInv, OutcomeFor, DueInv
  <1>4. Together'
    BY RefreshAssumption, OutcomeKinds
    DEF RefreshInv, Shape, Renewing, Fetched, Tokens, InStep, Together, DueInv
  <1>5. DueInv'
    BY RefreshAssumption, OutcomeKinds
    DEF RefreshInv, Shape, Renewing, Fetched, Tokens, InStep, DueInv
  <1>6. Carried'
    BY RefreshAssumption, OutcomeKinds
    DEF RefreshInv, Shape, Renewing, Fetched, Tokens, InStep, Together, OutcomesInv, OutcomeFor, Carried
  <1>7. stored <= stored'
    BY RefreshAssumption, OutcomeKinds
    DEF RefreshInv, Shape, Renewing, Fetched, Tokens, InStep, OutcomesInv, OutcomeFor
  <1> QED BY <1>1, <1>2, <1>3, <1>4, <1>5, <1>6, <1>7 DEF RefreshInv

-----------------------------------------------------------------------------
\* Every step keeps the invariant, and none takes the stored token back.
LEMMA RefreshKept ==
    RefreshInv /\ [RefreshNext]_refreshVars => RefreshInv' /\ stored <= stored'
  <1> SUFFICES ASSUME RefreshInv, [RefreshNext]_refreshVars
               PROVE  RefreshInv' /\ stored <= stored'
    OBVIOUS
  <1>1. ASSUME NEW r \in Requests, RefreshStep(r)
        PROVE  RefreshInv' /\ stored <= stored'
    BY <1>1, SelectStep, LookupStep, ExchangeStep, ExchangeLostStep, PutStep, SettleStep,
       SettleLostStep, CallStep, CancelStep DEF RefreshStep
  <1>2. CASE BecomesDue \/ LockExpires
    BY <1>2, BecomesDueStep, LockExpiresStep
  <1>3. ASSUME NEW t \in Tokens, CacheExpires(t)
        PROVE  RefreshInv' /\ stored <= stored'
    BY <1>3, CacheExpiresStep
  <1>4. CASE UNCHANGED refreshVars
    BY <1>4 DEF refreshVars, RefreshInv, Shape, OutcomesInv, OutcomeFor, InStep, Together,
                DueInv, Carried, Tokens
  <1> QED BY <1>1, <1>2, <1>3, <1>4 DEF RefreshNext

-----------------------------------------------------------------------------
(***************************************************************************)
(* The routing context and the cursor of a combo.                          *)
(*                                                                         *)
(* A context is used up to TTL after it was stored, and was stored up to a  *)
(* timeout after its fetch began; what may have happened to the combo or to  *)
(* the state service meanwhile is told by Aged, for one on its way and for   *)
(* the cached one.  The cursor's index and count say exactly how the turns   *)
(* stand (TurnsInv), which is why no place can run ahead.                   *)
(***************************************************************************)

\* A context that was current, or a failure that happened, at some time from t on.
Aged(c, t) ==
    IF c = 0 THEN failedAt >= t
    ELSE c = version \/ replaced[c] >= t

ClockShape ==
    /\ version \in DOMAIN Versions /\ clock \in Nat /\ failedAt \in Int /\ failedAt <= clock
    /\ replaced \in [DOMAIN Versions -> Nat]
    /\ reading \in [Readers -> {"idle", "asking", "answered"}]
    /\ since \in [Readers -> Nat]
    /\ fetched \in [Readers -> 0..version]
    /\ \A h \in held : h.at \in Nat /\ h.context \in 0..version
    /\ \A g, h \in held : g = h

\* A fetch is no older than its timeout, and its answer no older than it.
FetchInv ==
    \A r \in Readers : reading[r] # "idle" =>
        /\ since[r] <= clock /\ clock <= since[r] + Timeout
        /\ reading[r] = "answered" => Aged(fetched[r], since[r])

\* The cached context was fetched no longer than a timeout before it was stored.
HeldInv == \A h \in held : \E t \in Nat : h.at <= t + Timeout /\ t <= clock /\ Aged(h.context, t)

\* The places before the cursor have had their turns of this round, the one at the
\* cursor as many as it counts, the others none.
InRound(c, given, base) ==
    /\ c.models \in Lists /\ Len(c.models) > 1
    /\ c.index \in Nat /\ c.index < Len(c.models)
    /\ c.consecutive \in Nat /\ c.consecutive < ComboLimit
    /\ \A p \in 1..Len(c.models) :
          given[p] = IF p <= c.index THEN base + ComboLimit
                     ELSE IF p = c.index + 1 THEN base + c.consecutive ELSE base

TurnsInv == cursor = NoCursor \/ \E base \in Nat : InRound(cursor, turns, base)

RoutingInv ==
    ClockShape /\ FetchInv /\ HeldInv /\ TurnsInv /\ turns \in [Places -> Nat]

\* The combo has a version, and a place for each model of it.
LEMMA VersionsListed ==
    /\ 1 \in DOMAIN Versions /\ DOMAIN Versions \subseteq Nat \ {0}
    /\ \A v \in Nat : v \in DOMAIN Versions <=> 1 <= v /\ v <= Len(Versions)
    /\ \A v \in DOMAIN Versions :
          /\ Versions[v] \in Lists /\ Len(Versions[v]) \in Nat
    /\ \A list \in Lists :
          Len(list) \in Nat /\ DOMAIN list = 1..Len(list) /\ DOMAIN list \subseteq Places
    /\ ComboLimit \in Nat \ {0} /\ TTL \in Nat \ {0} /\ Timeout \in Nat
  BY RoutingAssumption DEF RoutingAssumption, Lists, Places

\* Nothing is cached and nothing was resolved at the start.
LEMMA RoutingInitially == RoutingInit => RoutingInv
  <1> SUFFICES ASSUME RoutingInit PROVE RoutingInv
    OBVIOUS
  <1>1. ClockShape
    BY VersionsListed DEF RoutingInit, ClockShape
  <1>2. FetchInv /\ HeldInv /\ TurnsInv /\ turns \in [Places -> Nat]
    BY DEF RoutingInit, FetchInv, HeldInv, TurnsInv
  <1> QED BY <1>1, <1>2 DEF RoutingInv

\* Indexes wrap around at the end of the list, and only there.
LEMMA IndexWraps ==
    /\ \A n \in Nat \ {0} : n % n = 0
    /\ \A n \in Nat \ {0}, i \in Nat : i < n => i % n = i
  <1>1. ASSUME NEW n \in Nat \ {0} PROVE n % n = 0
    OBVIOUS
  <1>2. ASSUME NEW n \in Nat \ {0}, NEW i \in Nat, i < n PROVE i % n = i
    BY <1>2
  <1> QED BY <1>1, <1>2

\* One turn more: in the round, or as the first of the next one.
LEMMA TurnTaken ==
    ASSUME NEW c, NEW before \in [Places -> Nat], NEW base \in Nat, InRound(c, before, base),
           cursor' = IF c.consecutive + 1 >= ComboLimit
                     THEN [models |-> c.models, index |-> (c.index + 1) % Len(c.models),
                           consecutive |-> 0]
                     ELSE [models |-> c.models, index |-> c.index,
                           consecutive |-> c.consecutive + 1],
           turns' = [before EXCEPT ![c.index + 1] = @ + 1]
    PROVE  TurnsInv' /\ turns' \in [Places -> Nat]
  <1> DEFINE list == c.models
             index == c.index
             count == c.consecutive
  <1>1. /\ list \in Lists /\ Len(list) > 1 /\ index \in Nat /\ index < Len(list)
        /\ count \in Nat /\ count < ComboLimit
        /\ \A p \in 1..Len(list) :
              before[p] = IF p <= index THEN base + ComboLimit
                          ELSE IF p = index + 1 THEN base + count ELSE base
    BY DEF InRound
  <1>2. cursor' = IF count + 1 >= ComboLimit
                  THEN [models |-> list, index |-> (index + 1) % Len(list), consecutive |-> 0]
                  ELSE [models |-> list, index |-> index, consecutive |-> count + 1]
    OBVIOUS
  <1>3. turns' = [before EXCEPT ![index + 1] = @ + 1]
    OBVIOUS
  <1> HIDE DEF list, index, count
  <1>4. /\ Len(list) \in Nat /\ 1..Len(list) \subseteq Places /\ index + 1 \in 1..Len(list)
        /\ ComboLimit \in Nat \ {0}
    BY <1>1, VersionsListed
  <1>5. turns' \in [Places -> Nat]
    BY <1>3, <1>4
  <1>6. \A p \in 1..Len(list) : turns'[p] = IF p <= index THEN base + ComboLimit
                                ELSE IF p = index + 1 THEN base + (count + 1) ELSE base
    BY <1>1, <1>3, <1>4
  <1>7. CASE count + 1 < ComboLimit
    <2>1. /\ cursor'.models = list /\ cursor'.index = index
          /\ cursor'.consecutive = count + 1 /\ count + 1 \in Nat
      BY <1>1, <1>2, <1>4, <1>7
    <2>2. InRound(cursor', turns', base)
      BY <1>1, <1>6, <1>7, <2>1 DEF InRound
    <2> QED BY <1>5, <2>2 DEF TurnsInv
  <1>8. CASE ~ (count + 1 < ComboLimit)
    <2>1. count + 1 = ComboLimit /\ 0 < ComboLimit
      BY <1>1, <1>4, <1>8
    <2>2. /\ cursor'.models = list /\ cursor'.index = (index + 1) % Len(list)
          /\ cursor'.consecutive = 0
      BY <1>2, <1>4, <2>1
    <2>3. CASE index + 1 < Len(list)
      <3>1. cursor'.index = index + 1 /\ index + 1 \in Nat
        BY <1>1, <1>4, <2>2, <2>3, IndexWraps
      <3>2. \A p \in 1..Len(list) : turns'[p] = IF p <= index + 1 THEN base + ComboLimit
                                    ELSE IF p = (index + 1) + 1 THEN base + 0 ELSE base
        BY <1>1, <1>4, <1>6, <2>1
      <3>3. InRound(cursor', turns', base)
        BY <1>1, <2>1, <2>2, <2>3, <3>1, <3>2 DEF InRound
      <3> QED BY <1>5, <3>3 DEF TurnsInv
    <2>4. CASE ~ (index + 1 < Len(list))
      <3>1. index + 1 = Len(list)
        BY <1>1, <1>4, <2>4
      <3>2. cursor'.index = 0
        <4>1. Len(list) \in Nat \ {0}
          BY <1>1, <1>4
        <4>2. Len(list) % Len(list) = 0
          BY <4>1, IndexWraps
        <4> QED BY <2>2, <3>1, <4>2
      <3>3. \A p \in 1..Len(list) :
               turns'[p] = IF p <= 0 THEN (base + ComboLimit) + ComboLimit
                           ELSE IF p = 0 + 1 THEN (base + ComboLimit) + 0 ELSE base + ComboLimit
        BY <1>1, <1>4, <1>6, <2>1, <3>1
      <3>4. base + ComboLimit \in Nat /\ 0 \in Nat /\ 0 < Len(list)
        BY <1>1, <1>4
      <3>5. InRound(cursor', turns', base + ComboLimit)
        BY <1>1, <2>1, <2>2, <3>2, <3>3, <3>4 DEF InRound
      <3> QED BY <1>5, <3>4, <3>5 DEF TurnsInv
    <2> QED BY <2>3, <2>4
  <1> QED BY <1>7, <1>8

\* A request that resolves the combo takes the turn that is due, or the first one
\* of a list that is new to the cursor.
LEMMA UseTakesTurn ==
    ASSUME RoutingInv, NEW c \in 0..version, Use(c)
    PROVE  TurnsInv' /\ turns' \in [Places -> Nat]
  <1>1. /\ TurnsInv /\ turns \in [Places -> Nat]
        /\ c # 0 => c \in DOMAIN Versions
    <2>1. version <= Len(Versions) /\ version \in Nat /\ Len(Versions) \in Nat
      BY VersionsListed, RoutingAssumption DEF RoutingInv, ClockShape, RoutingAssumption
    <2> QED BY <2>1, VersionsListed DEF RoutingInv
  <1>2. CASE UNCHANGED <<cursor, turns, starts>>
    BY <1>1, <1>2 DEF TurnsInv
  <1>3. CASE c # 0 /\ Len(Versions[c]) > 1 /\ TakeIndex(Versions[c])
    <2>1. PICK list : list = Versions[c]
      OBVIOUS
    <2>2. /\ list \in Lists /\ Len(list) \in Nat \ {0} /\ Len(list) > 1 /\ TakeIndex(list)
          /\ ComboLimit \in Nat \ {0}
      BY <1>1, <1>3, <2>1, VersionsListed
    <2>3. CASE cursor.models = list
      <3>1. cursor # NoCursor
        <4>1. Len(NoCursor.models) = 0
          BY DEF NoCursor
        <4> QED BY <2>2, <2>3, <4>1
      <3>2. PICK base \in Nat : InRound(cursor, turns, base)
        BY <1>1, <3>1 DEF TurnsInv
      <3>3. cursor.index % Len(list) = cursor.index
        <4>1. cursor.index \in Nat /\ cursor.index < Len(list)
          BY <2>3, <3>2 DEF InRound
        <4> QED BY <2>2, <4>1, IndexWraps
      <3>4. /\ cursor' = IF cursor.consecutive + 1 >= ComboLimit
                     THEN [models |-> list, index |-> (cursor.index + 1) % Len(list),
                           consecutive |-> 0]
                     ELSE [models |-> list, index |-> cursor.index,
                           consecutive |-> cursor.consecutive + 1]
            /\ turns' = [turns EXCEPT ![cursor.index + 1] = @ + 1]
        BY <2>2, <2>3, <3>3 DEF TakeIndex
      <3> QED BY <1>1, <2>3, <3>2, <3>4, TurnTaken
    <2>4. CASE cursor.models # list
      <3>1. PICK zero : zero = [p \in Places |-> 0]
        OBVIOUS
      <3>2. PICK new : new = [models |-> list, index |-> 0, consecutive |-> 0]
        OBVIOUS
      <3>3. 0 % Len(list) = 0
        BY <2>2, IndexWraps
      <3>4. /\ cursor' = IF new.consecutive + 1 >= ComboLimit
                     THEN [models |-> new.models, index |-> (new.index + 1) % Len(new.models),
                           consecutive |-> 0]
                     ELSE [models |-> new.models, index |-> new.index,
                           consecutive |-> new.consecutive + 1]
            /\ turns' = [zero EXCEPT ![new.index + 1] = @ + 1]
        BY <2>2, <2>4, <3>1, <3>2, <3>3 DEF TakeIndex, NoCursor
      <3>5. zero \in [Places -> Nat] /\ \A p \in 1..Len(list) : zero[p] = 0
        BY <2>2, <3>1, VersionsListed
      <3>6. InRound(new, zero, 0)
        BY <2>2, <3>2, <3>5 DEF InRound
      <3> QED BY <3>4, <3>5, <3>6, TurnTaken
    <2> QED BY <2>3, <2>4
  <1> QED BY <1>2, <1>3 DEF Use

\* A fetch begins, or the cached context is used.
LEMMA ReadStep ==
    ASSUME RoutingInv, NEW r \in Readers, Read(r)
    PROVE  RoutingInv'
  <1>1. ClockShape /\ FetchInv /\ HeldInv /\ Timeout \in Nat
    BY VersionsListed DEF RoutingInv
  <1>2. ClockShape' /\ FetchInv' /\ HeldInv'
    <2>1. UNCHANGED <<version, held, fetched, clock, replaced, failedAt>>
      BY DEF Read
    <2>2. \/ UNCHANGED <<reading, since>>
          \/ /\ reading' = [reading EXCEPT ![r] = "asking"]
             /\ since' = [since EXCEPT ![r] = clock]
      BY DEF Read
    <2>3. ClockShape'
      BY <1>1, <2>1, <2>2 DEF ClockShape
    <2>4. FetchInv'
      BY <1>1, <2>1, <2>2 DEF ClockShape, FetchInv, Aged
    <2>5. HeldInv'
      BY <1>1, <2>1 DEF HeldInv, Aged
    <2> QED BY <2>3, <2>4, <2>5
  <1>3. TurnsInv' /\ turns' \in [Places -> Nat]
    <2>1. CASE \E h \in held : Use(h.context)
      BY <1>1, <2>1, UseTakesTurn DEF ClockShape
    <2>2. CASE UNCHANGED <<cursor, used, turns, starts>>
      BY <2>2 DEF RoutingInv, TurnsInv
    <2> QED BY <2>1, <2>2 DEF Read
  <1> QED BY <1>2, <1>3 DEF RoutingInv

\* The answer is the combo as it is, or that there was none.
LEMMA AnswerStep ==
    ASSUME RoutingInv, NEW r \in Readers, Answer(r) \/ AnswerFails(r)
    PROVE  RoutingInv'
  <1>1. /\ ClockShape /\ FetchInv /\ HeldInv /\ Timeout \in Nat
        /\ version \in Nat \ {0} /\ reading[r] = "asking"
    BY VersionsListed DEF RoutingInv, ClockShape, Answer, AnswerFails, Answered
  <1>2. /\ UNCHANGED <<version, held, since, cursor, clock, replaced, turns>>
        /\ reading' = [reading EXCEPT ![r] = "answered"]
    BY DEF Answer, AnswerFails, Answered
  <1>3. \/ failedAt' = failedAt /\ fetched' = [fetched EXCEPT ![r] = version]
        \/ failedAt' = clock /\ fetched' = [fetched EXCEPT ![r] = 0]
    BY DEF Answer, AnswerFails, Answered
  <1>4. ClockShape'
    BY <1>1, <1>2, <1>3 DEF ClockShape
  <1>5. FetchInv'
    <2>1. ASSUME NEW q \in Readers, reading'[q] # "idle"
          PROVE  since'[q] <= clock' /\ clock' <= since'[q] + Timeout
      BY <1>1, <1>2, <2>1 DEF FetchInv, ClockShape
    <2>2. ASSUME NEW q \in Readers, reading'[q] = "answered" PROVE Aged(fetched[q], since[q])'
      <3>1. CASE q = r
        BY <1>1, <1>2, <1>3, <3>1 DEF FetchInv, ClockShape, Aged
      <3>2. CASE q # r
        <4>1. reading[q] = "answered" /\ fetched'[q] = fetched[q] /\ since'[q] = since[q]
          BY <1>1, <1>2, <1>3, <2>2, <3>2 DEF ClockShape
        <4>2. Aged(fetched[q], since[q]) /\ since[q] <= clock
          BY <1>1, <4>1 DEF FetchInv
        <4>3. failedAt <= clock /\ failedAt \in Int /\ clock \in Nat /\ since[q] \in Nat
          BY <1>1 DEF ClockShape
        <4> QED BY <1>2, <1>3, <4>1, <4>2, <4>3 DEF Aged
      <3> QED BY <3>1, <3>2
    <2> QED BY <2>1, <2>2 DEF FetchInv
  <1>6. HeldInv'
    <2> SUFFICES ASSUME NEW h \in held
                 PROVE  \E t \in Nat : h.at <= t + Timeout /\ t <= clock /\ Aged(h.context, t)'
      BY <1>2 DEF HeldInv
    <2>1. PICK t \in Nat : h.at <= t + Timeout /\ t <= clock /\ Aged(h.context, t)
      BY <1>1 DEF HeldInv
    <2>2. Aged(h.context, t)'
      BY <1>1, <1>2, <1>3, <2>1 DEF Aged, ClockShape
    <2> QED BY <2>1, <2>2
  <1>7. TurnsInv' /\ turns' \in [Places -> Nat]
    BY <1>2 DEF RoutingInv, TurnsInv
  <1> QED BY <1>4, <1>5, <1>6, <1>7 DEF RoutingInv

\* The answer is cached, and used.
LEMMA StoreStep ==
    ASSUME RoutingInv, NEW r \in Readers, Store(r)
    PROVE  RoutingInv'
  <1>1. ClockShape /\ FetchInv /\ HeldInv /\ Timeout \in Nat
    BY VersionsListed DEF RoutingInv
  <1>2. /\ reading[r] = "answered" /\ reading' = [reading EXCEPT ![r] = "idle"]
        /\ held' = {[at |-> clock, context |-> fetched[r]]}
        /\ since' = [since EXCEPT ![r] = 0] /\ fetched' = [fetched EXCEPT ![r] = 0]
        /\ UNCHANGED <<version, clock, replaced, failedAt>>
    BY DEF Store
  <1>3. ClockShape'
    <2>1. /\ version \in DOMAIN Versions /\ clock \in Nat /\ fetched[r] \in 0..version
          /\ 0 \in 0..version
      BY <1>1, VersionsListed DEF ClockShape
    <2>2. /\ \A h \in held' : h.at \in Nat /\ h.context \in 0..version'
          /\ \A g, h \in held' : g = h
      BY <1>2, <2>1
    <2>3. /\ reading' \in [Readers -> {"idle", "asking", "answered"}]
          /\ since' \in [Readers -> Nat] /\ fetched' \in [Readers -> 0..version']
      BY <1>1, <1>2, <2>1 DEF ClockShape
    <2> QED BY <1>1, <1>2, <2>2, <2>3 DEF ClockShape
  <1>4. FetchInv'
    BY <1>1, <1>2 DEF ClockShape, FetchInv, Aged
  <1>5. HeldInv'
    <2>1. since[r] \in Nat /\ since[r] <= clock /\ clock <= since[r] + Timeout
          /\ Aged(fetched[r], since[r])
      BY <1>1, <1>2 DEF ClockShape, FetchInv
    <2>3. ASSUME NEW h \in held'
          PROVE  h.at = clock /\ h.context = fetched[r]
      BY <1>2
    <2>4. ASSUME NEW c, NEW t, Aged(c, t) PROVE Aged(c, t)'
      BY <1>2, <2>4 DEF Aged
    <2> QED BY <1>2, <2>1, <2>3, <2>4 DEF HeldInv
  <1>6. TurnsInv' /\ turns' \in [Places -> Nat]
    <2>1. fetched[r] \in 0..version /\ Use(fetched[r])
      BY <1>1 DEF Store, ClockShape
    <2> QED BY <2>1, UseTakesTurn
  <1> QED BY <1>3, <1>4, <1>5, <1>6 DEF RoutingInv

\* The version that was current is replaced now.
LEMMA EditComboStep ==
    ASSUME RoutingInv, EditCombo
    PROVE  RoutingInv'
  <1>1. ClockShape /\ FetchInv /\ HeldInv /\ Timeout \in Nat /\ version \in Nat \ {0}
    BY VersionsListed DEF RoutingInv, ClockShape
  <1>2. /\ version < Len(Versions) /\ version' = version + 1
        /\ replaced' = [replaced EXCEPT ![version] = clock]
        /\ UNCHANGED <<held, reading, since, fetched, cursor, clock, failedAt, turns>>
    BY DEF EditCombo
  <1>3. version + 1 \in DOMAIN Versions
    <2>1. Len(Versions) \in Nat
      BY RoutingAssumption DEF RoutingAssumption
    <2> QED BY <1>1, <1>2, <2>1, VersionsListed
  <1>4. ClockShape'
    BY <1>1, <1>2, <1>3 DEF ClockShape
  <1>5. ASSUME NEW c \in 0..version, NEW t \in Nat, t <= clock, Aged(c, t) PROVE Aged(c, t)'
    <2>1. clock \in Nat /\ replaced \in [DOMAIN Versions -> Nat]
          /\ version \in DOMAIN Versions
      BY <1>1 DEF ClockShape
    <2>2. c # 0 => c \in DOMAIN Versions
      <3>1. Len(Versions) \in Nat
        BY RoutingAssumption DEF RoutingAssumption
      <3> QED BY <1>1, <1>2, <3>1, VersionsListed
    <2>3. CASE c = 0
      BY <1>2, <1>5, <2>3 DEF Aged
    <2>4. CASE c = version
      <3>1. replaced'[c] = clock /\ c # 0
        BY <1>1, <1>2, <2>1, <2>4
      <3> QED BY <1>5, <3>1 DEF Aged
    <2>5. CASE c # 0 /\ c # version
      <3>1. replaced'[c] = replaced[c]
        BY <1>2, <2>1, <2>2, <2>5
      <3> QED BY <1>5, <2>5, <3>1 DEF Aged
    <2> QED BY <2>3, <2>4, <2>5
  <1>6. FetchInv'
    <2> SUFFICES ASSUME NEW q \in Readers, reading[q] # "idle"
                 PROVE  /\ since[q] <= clock /\ clock <= since[q] + Timeout
                        /\ reading[q] = "answered" => Aged(fetched[q], since[q])'
      BY <1>2 DEF FetchInv
    <2>1. /\ since[q] <= clock /\ clock <= since[q] + Timeout
          /\ reading[q] = "answered" => Aged(fetched[q], since[q])
      BY <1>1 DEF FetchInv
    <2>2. fetched[q] \in 0..version /\ since[q] \in Nat
      BY <1>1 DEF ClockShape
    <2>3. Aged(fetched[q], since[q]) => (\A c, t : c = fetched[q] /\ t = since[q] => Aged(c, t)')
      BY <1>5, <2>1, <2>2
    <2>4. fetched' = fetched /\ since' = since
      BY <1>2
    <2> QED BY <2>1, <2>3, <2>4 DEF Aged
  <1>7. HeldInv'
    <2> SUFFICES ASSUME NEW h \in held
                 PROVE  \E t \in Nat : h.at <= t + Timeout /\ t <= clock /\ Aged(h.context, t)'
      BY <1>2 DEF HeldInv
    <2>1. PICK t \in Nat : h.at <= t + Timeout /\ t <= clock /\ Aged(h.context, t)
      BY <1>1 DEF HeldInv
    <2>2. h.context \in 0..version
      BY <1>1 DEF ClockShape
    <2> QED BY <1>5, <2>1, <2>2
  <1>8. TurnsInv' /\ turns' \in [Places -> Nat]
    BY <1>2 DEF RoutingInv, TurnsInv
  <1> QED BY <1>4, <1>6, <1>7, <1>8 DEF RoutingInv

\* Time passes, but not past the timeout of a fetch.
LEMMA TickStep ==
    ASSUME RoutingInv, Tick
    PROVE  RoutingInv'
  <1>1. ClockShape /\ FetchInv /\ HeldInv /\ Timeout \in Nat
    BY VersionsListed DEF RoutingInv
  <1>2. /\ clock' = clock + 1
        /\ \A r \in Readers : reading[r] # "idle" => clock < since[r] + Timeout
        /\ UNCHANGED <<version, held, reading, since, fetched, cursor, replaced, failedAt, turns>>
    BY DEF Tick
  <1>3. ClockShape'
    BY <1>1, <1>2 DEF ClockShape
  <1>4. FetchInv'
    BY <1>1, <1>2 DEF ClockShape, FetchInv, Aged
  <1>5. HeldInv'
    <2>1. clock \in Nat
      BY <1>1 DEF ClockShape
    <2> QED BY <1>1, <1>2, <2>1 DEF HeldInv, Aged
  <1>6. TurnsInv' /\ turns' \in [Places -> Nat]
    BY <1>2 DEF RoutingInv, TurnsInv
  <1> QED BY <1>3, <1>4, <1>5, <1>6 DEF RoutingInv

\* The invariant survives every step.
LEMMA RoutingStep == RoutingInv /\ [RoutingNext]_routingVars => RoutingInv'
  <1> SUFFICES ASSUME RoutingInv, [RoutingNext]_routingVars PROVE RoutingInv'
    OBVIOUS
  <1>1. CASE UNCHANGED routingVars
    BY <1>1 DEF routingVars, RoutingInv, ClockShape, FetchInv, HeldInv, Aged, TurnsInv
  <1> QED BY <1>1, ReadStep, AnswerStep, StoreStep, EditComboStep, TickStep DEF RoutingNext

\* A context of that age is recent.
LEMMA AgedIsRecent ==
    ASSUME RoutingInv, NEW c \in 0..version, NEW t \in Nat, Aged(c, t),
           clock < t + Timeout + TTL
    PROVE  Recent(c, clock)
  <1>1. clock \in Nat /\ failedAt \in Int /\ replaced \in [DOMAIN Versions -> Nat]
        /\ version \in Nat /\ version \in DOMAIN Versions
    BY VersionsListed DEF RoutingInv, ClockShape
  <1>2. TTL \in Nat /\ Timeout \in Nat
    BY VersionsListed
  <1>3. CASE c = 0
    BY <1>1, <1>2, <1>3 DEF Aged, Recent
  <1>4. CASE c # 0 /\ c # version
    <2>1. c \in DOMAIN Versions
      <3>1. Len(Versions) \in Nat
        BY RoutingAssumption DEF RoutingAssumption
      <3> QED BY <1>1, <1>4, <3>1, VersionsListed
    <2>2. replaced[c] \in Nat /\ replaced[c] >= t
      BY <1>1, <1>4, <2>1 DEF Aged
    <2> QED BY <1>1, <1>2, <1>4, <2>2 DEF Recent
  <1>5. CASE c # 0 /\ c = version
    BY <1>5 DEF Recent
  <1> QED BY <1>3, <1>4, <1>5

\* What a request resolves with is recent.
LEMMA RoutingIsRecent ==
    RoutingInv /\ [RoutingNext]_routingVars =>
        (starts' # starts \/ used' # used => Recent(used', clock))
  <1> SUFFICES ASSUME RoutingInv, RoutingNext, starts' # starts \/ used' # used
               PROVE  Recent(used', clock)
    BY DEF routingVars
  <1>1. ClockShape /\ FetchInv /\ HeldInv /\ Timeout \in Nat /\ TTL \in Nat \ {0}
    BY VersionsListed DEF RoutingInv
  <1>2. ASSUME NEW r \in Readers, Read(r) PROVE Recent(used', clock)
    <2>1. PICK g \in held : Fresh(g)
      BY <1>2 DEF Read
    <2>2. PICK h \in held : Use(h.context)
      BY <1>2, <2>1 DEF Read
    <2>3. g = h /\ h.at \in Nat /\ h.context \in 0..version /\ clock \in Nat
      BY <1>1, <2>1, <2>2 DEF ClockShape
    <2>4. PICK t \in Nat : h.at <= t + Timeout /\ Aged(h.context, t)
      BY <1>1, <2>2 DEF HeldInv
    <2>5. clock < t + Timeout + TTL
      BY <1>1, <2>1, <2>3, <2>4 DEF Fresh
    <2>6. Recent(h.context, clock) /\ used' = h.context
      BY <2>2, <2>3, <2>4, <2>5, AgedIsRecent DEF Use
    <2> QED BY <2>6
  <1>3. ASSUME NEW r \in Readers, Store(r) PROVE Recent(used', clock)
    <2>1. /\ fetched[r] \in 0..version /\ used' = fetched[r] /\ since[r] \in Nat
          /\ clock \in Nat
      BY <1>1, <1>3 DEF Store, Use, ClockShape
    <2>2. clock <= since[r] + Timeout /\ Aged(fetched[r], since[r])
      BY <1>1, <1>3 DEF Store, FetchInv
    <2>3. clock < since[r] + Timeout + TTL
      BY <1>1, <2>1, <2>2
    <2> QED BY <2>1, <2>2, <2>3, AgedIsRecent
  <1>4. CASE (\E r \in Readers : Answer(r) \/ AnswerFails(r)) \/ EditCombo \/ Tick
    BY <1>4 DEF Answer, AnswerFails, Answered, EditCombo, Tick
  <1> QED BY <1>2, <1>3, <1>4 DEF RoutingNext

\* No place is more than a round ahead.
LEMMA InvTakesTurns == RoutingInv => TakeTurns
  <1> SUFFICES ASSUME RoutingInv PROVE TakeTurns
    OBVIOUS
  <1>1. CASE cursor = NoCursor
    BY <1>1 DEF NoCursor, TakeTurns
  <1>2. CASE cursor # NoCursor
    <2>1. PICK base \in Nat : InRound(cursor, turns, base)
      BY <1>2 DEF RoutingInv, TurnsInv
    <2>2. PICK list : list = cursor.models
      OBVIOUS
    <2>4. DOMAIN list = 1..Len(list) /\ Len(list) \in Nat /\ ComboLimit \in Nat
      BY <2>1, <2>2, VersionsListed DEF InRound
    <2>5. /\ cursor.consecutive \in Nat /\ cursor.consecutive < ComboLimit
          /\ \A p \in 1..Len(list) :
                turns[p] = IF p <= cursor.index THEN base + ComboLimit
                           ELSE IF p = cursor.index + 1 THEN base + cursor.consecutive ELSE base
      BY <2>1, <2>2 DEF InRound
    <2>6. ASSUME NEW i \in 1..Len(list), NEW j \in 1..Len(list)
          PROVE  turns[i] <= turns[j] + ComboLimit
      <3>1. turns[i] \in base..(base + ComboLimit) /\ turns[j] \in base..(base + ComboLimit)
        BY <2>4, <2>5
      <3> QED BY <2>4, <3>1
    <2> QED BY <2>2, <2>4, <2>6 DEF TakeTurns
  <1> QED BY <1>1, <1>2

-----------------------------------------------------------------------------
(***************************************************************************)
(* A panel of any size: no model's text is left out without a reason, and    *)
(* everything the reply is written from was recorded.                       *)
(*                                                                         *)
(* LeftOutForAReason speaks of what was decided.  The invariant says why it   *)
(* could be: until then every model is under way, waiting in `ready`, among  *)
(* the answers or of no use (Followed), and the grace runs only behind a     *)
(* quorum.                                                                 *)
(***************************************************************************)

Held(s) == {s[i] : i \in DOMAIN s}
Taken == Held(answers)
Waiting == Held(ready)
Decided == {"deciding", "writing", "done"}

ShapeInv ==
    /\ stage \in {"new", "collecting"} \cup Decided
    /\ call \in [Panel -> {"calling", "text", "nothing", "dropped"}]
    /\ ready \in Seq(Panel)
    /\ answers \in Seq(Panel)
    /\ grace \in {"off", "running", "elapsed"}

\* Nobody is forgotten while the answers are collected.
Followed ==
    stage \in {"new", "collecting"} =>
        \A m \in Panel \ Taken :
            call[m] \in {"calling", "nothing"} \/ (call[m] = "text" /\ m \in Waiting)

GraceInv == grace # "off" => Len(answers) >= Quorum

RecordInv ==
    /\ Taken \subseteq recorded
    /\ \A m \in Panel : call[m] = "text" => m \in recorded

PanelInv == ShapeInv /\ Followed /\ GraceInv /\ RecordInv /\ LeftOutForAReason

\* The quorum is a number of models.
LEMMA QuorumType == Quorum \in Nat
  BY PanelAssumption, FS_CardinalityType DEF Quorum

\* Appending adds one element to what a sequence holds.
LEMMA AppendHolds ==
    ASSUME NEW s \in Seq(Panel), NEW m \in Panel
    PROVE  /\ Append(s, m) \in Seq(Panel) /\ Len(Append(s, m)) = Len(s) + 1
           /\ Held(Append(s, m)) = Held(s) \cup {m}
  <1> DEFINE t == Append(s, m)
  <1>1. t \in Seq(Panel) /\ Len(t) = Len(s) + 1 /\ DOMAIN t = 1..(Len(s) + 1)
    OBVIOUS
  <1>2. t[Len(s) + 1] = m /\ \A i \in 1..Len(s) : t[i] = s[i]
    OBVIOUS
  <1>3. DOMAIN s = 1..Len(s) /\ Len(s) \in Nat
    OBVIOUS
  <1>4. 1..(Len(s) + 1) = 1..Len(s) \cup {Len(s) + 1}
    BY <1>3
  <1> HIDE DEF t
  <1>5. Held(t) = Held(s) \cup {m}
    BY <1>1, <1>2, <1>3, <1>4 DEF Held
  <1> QED BY <1>1, <1>5 DEF t

\* A sequence holds its head and what its tail holds.
LEMMA TailHolds ==
    ASSUME NEW s \in Seq(Panel), s # <<>>
    PROVE  /\ Tail(s) \in Seq(Panel) /\ Head(s) \in Panel
           /\ Held(s) = {Head(s)} \cup Held(Tail(s))
  <1> DEFINE t == Tail(s)
  <1>1. t \in Seq(Panel) /\ Head(s) = s[1] /\ Head(s) \in Panel
    OBVIOUS
  <1>2. DOMAIN s = 1..Len(s) /\ Len(s) \in Nat /\ Len(s) > 0
    OBVIOUS
  <1>3. DOMAIN t = 1..(Len(s) - 1) /\ \A i \in 1..(Len(s) - 1) : t[i] = s[i + 1]
    OBVIOUS
  <1> HIDE DEF t
  <1>4. \A i \in DOMAIN s : i = 1 \/ (i - 1 \in DOMAIN t /\ s[i] = t[i - 1])
    BY <1>2, <1>3
  <1>5. \A i \in DOMAIN t : i + 1 \in DOMAIN s /\ t[i] = s[i + 1]
    BY <1>2, <1>3
  <1>6. 1 \in DOMAIN s
    BY <1>2
  <1>7. Held(s) = {Head(s)} \cup Held(t)
    BY <1>1, <1>4, <1>5, <1>6 DEF Held
  <1> QED BY <1>1, <1>7 DEF t

\* Nobody was asked at the start.
LEMMA PanelInitially == FusionInit => PanelInv
  BY DEF FusionInit, PanelInv, ShapeInv, Followed, GraceInv, RecordInv, LeftOutForAReason,
         Taken, Waiting, Held, Decided

\* A call that ends goes from under way to waiting, or is of no use.
LEMMA CallEndsStep ==
    ASSUME PanelInv, NEW m \in Panel, NEW how \in {"text", "nothing"}, CallEnds(m, how),
           IF how = "text" THEN recorded' = recorded \cup {m} ELSE recorded \subseteq recorded'
    PROVE  PanelInv'
  <1> USE DEF PanelInv, CallEnds
  <1>1. ready' \in Seq(Panel) /\ Waiting' = Waiting \cup {m}
    BY AppendHolds DEF ShapeInv, Waiting
  <1>2. Taken' = Taken
    BY DEF Taken
  <1>3. ShapeInv'
    BY <1>1 DEF ShapeInv
  <1>4. Followed'
    BY <1>1, <1>2 DEF Followed, ShapeInv
  <1>5. GraceInv'
    BY DEF GraceInv, Quorum
  <1>6. RecordInv'
    BY <1>2 DEF RecordInv, ShapeInv
  <1>7. LeftOutForAReason'
    BY <1>2, <1>6 DEF LeftOutForAReason, RecordInv, Taken, Held
  <1> QED BY <1>3, <1>4, <1>5, <1>6, <1>7

\* A report goes from waiting to the answers, or is of no use.
LEMMA TakeAnswerStep == PanelInv /\ TakeAnswer => PanelInv'
  <1> SUFFICES ASSUME PanelInv, TakeAnswer PROVE PanelInv'
    OBVIOUS
  <1> USE DEF PanelInv, TakeAnswer, NoTimer
  <1> DEFINE m == Head(ready)
  <1>1. /\ ready' \in Seq(Panel) /\ m \in Panel
        /\ Waiting = {m} \cup Waiting'
    BY TailHolds DEF ShapeInv, Waiting
  <1> HIDE DEF m
  <1>2. CASE call[m] = "text"
    <2>1. answers' = Append(answers, m)
      BY <1>2 DEF m
    <2>2. answers' \in Seq(Panel) /\ Len(answers') = Len(answers) + 1
          /\ Taken' = Taken \cup {m}
      <3>1. answers \in Seq(Panel)
        BY DEF ShapeInv
      <3>2. Taken' = Taken \cup {m}
        BY <1>1, <2>1, <3>1, AppendHolds DEF Taken
      <3>3. answers' \in Seq(Panel) /\ Len(answers') = Len(answers) + 1
        BY <1>1, <2>1, <3>1, AppendHolds
      <3> QED BY <3>2, <3>3
    <2>3. ShapeInv'
      BY <1>1, <2>2 DEF ShapeInv
    <2>4. Followed'
      BY <1>1, <2>2 DEF Followed
    <2>5. GraceInv'
      <3>1. Quorum' = Quorum /\ Len(answers) \in Nat
        BY DEF Quorum, ShapeInv
      <3>2. CASE grace = "off"
        BY <3>2, <3>1, <2>2 DEF GraceInv
      <3>3. CASE grace # "off"
        BY <3>3, <3>1, <2>2, QuorumType DEF GraceInv
      <3> QED BY <3>2, <3>3
    <2>6. RecordInv'
      BY <1>1, <1>2, <2>2 DEF RecordInv
    <2>7. LeftOutForAReason'
      <3>1. stage' = "collecting" /\ {answers'[i] : i \in DOMAIN answers'} \subseteq recorded'
        BY <2>6 DEF RecordInv, Taken, Held
      <3> QED BY <3>1 DEF LeftOutForAReason
    <2> QED BY <2>3, <2>4, <2>5, <2>6, <2>7
  <1>3. CASE call[m] # "text"
    <2>1. answers' = answers /\ Taken' = Taken
      BY <1>3 DEF m, Taken
    <2>2. grace' = grace
      BY <2>1
    <2>3. ShapeInv'
      BY <1>1, <2>1, <2>2 DEF ShapeInv
    <2>4. Followed'
      BY <1>1, <1>3, <2>1 DEF Followed, ShapeInv
    <2>5. GraceInv'
      BY <2>1, <2>2 DEF GraceInv, Quorum
    <2>6. RecordInv'
      BY <2>1 DEF RecordInv
    <2>7. LeftOutForAReason'
      <3>1. stage' = "collecting" /\ {answers'[i] : i \in DOMAIN answers'} \subseteq recorded'
        BY <2>6 DEF RecordInv, Taken, Held
      <3> QED BY <3>1 DEF LeftOutForAReason
    <2> QED BY <2>3, <2>4, <2>5, <2>6, <2>7
  <1> QED BY <1>2, <1>3

\* Collecting ends at the hard deadline, at the end of the grace, or with all reported.
LEMMA LeaveStep ==
    ASSUME PanelInv, stage = "collecting", Leave,
           \/ hard = "elapsed"
           \/ grace = "elapsed"
           \/ ready = <<>> /\ \A m \in Panel : call[m] # "calling"
    PROVE  PanelInv'
  <1> USE DEF PanelInv, Leave
  <1>1. Taken' = Taken /\ Quorum' = Quorum
    BY DEF Taken, Quorum
  <1>2. \A m \in Panel : call[m] \in {"text", "nothing"} => call'[m] = call[m]
    BY DEF ShapeInv
  <1>3. ShapeInv'
    BY DEF ShapeInv, Decided
  <1>4. Followed'
    BY DEF Followed
  <1>5. GraceInv'
    BY <1>1 DEF GraceInv
  <1>6. RecordInv'
    BY <1>1 DEF RecordInv, ShapeInv
  <1>7. LeftOutForAReason'
    <2>1. CASE hard = "elapsed"
      BY <2>1, <1>1, <1>6 DEF LeftOutForAReason, RecordInv, Taken, Held
    <2>2. CASE grace = "elapsed"
      BY <2>2, <1>1, <1>6 DEF LeftOutForAReason, RecordInv, GraceInv, Taken, Held
    <2>3. CASE ready = <<>> /\ \A m \in Panel : call[m] # "calling"
      <3>1. Waiting = {}
        BY <2>3 DEF Waiting, Held
      <3>2. \A m \in Panel \ Taken : call[m] = "nothing"
        BY <2>3, <3>1 DEF Followed
      <3> QED BY <3>2, <1>1, <1>2, <1>6 DEF LeftOutForAReason, RecordInv, Taken, Held
    <2> QED BY <2>1, <2>2, <2>3
  <1> QED BY <1>3, <1>4, <1>5, <1>6, <1>7

\* Nothing of the panel changes once it is decided, nor when a timer elapses.
LEMMA OtherSteps ==
    ASSUME PanelInv, Ask \/ HardElapses \/ GraceElapses \/ NobodyAnswered
                         \/ AskForReply \/ ReplyWritten \/ UNCHANGED fusionVars
    PROVE  PanelInv'
  <1> USE DEF PanelInv, Ask, HardElapses, GraceElapses, NobodyAnswered, AskForReply,
              ReplyWritten, fusionVars
  <1>1. /\ call' = call /\ ready' = ready /\ answers' = answers /\ recorded' = recorded
        /\ Taken' = Taken /\ Waiting' = Waiting /\ Quorum' = Quorum
    BY DEF Taken, Waiting, Quorum
  <1>2. ShapeInv'
    BY <1>1 DEF ShapeInv, Decided
  <1>3. Followed'
    BY <1>1 DEF Followed, ShapeInv, Decided
  <1>4. GraceInv' /\ RecordInv'
    BY <1>1 DEF GraceInv, RecordInv
  <1>5. LeftOutForAReason'
    BY <1>1 DEF LeftOutForAReason
  <1> QED BY <1>2, <1>3, <1>4, <1>5

\* The invariant is kept by every step.
LEMMA PanelStep == PanelInv /\ [FusionNext]_fusionVars => PanelInv'
  <1> SUFFICES ASSUME PanelInv, [FusionNext]_fusionVars PROVE PanelInv'
    OBVIOUS
  <1>1. ASSUME NEW m \in Panel, Answers(m) PROVE PanelInv'
    BY <1>1, CallEndsStep DEF Answers
  <1>2. ASSUME NEW m \in Panel, IsDropped(m) PROVE PanelInv'
    BY <1>2, CallEndsStep DEF IsDropped
  <1>3. CASE StopAtDeadline \/ StopAfterGrace \/ StopWhenAllReported
    BY <1>3, LeaveStep DEF StopAtDeadline, StopAfterGrace, StopWhenAllReported, NoTimer
  <1>4. CASE TakeAnswer
    BY <1>4, TakeAnswerStep
  <1>5. CASE Ask \/ HardElapses \/ GraceElapses \/ NobodyAnswered \/ AskForReply
             \/ ReplyWritten \/ UNCHANGED fusionVars
    BY <1>5, OtherSteps
  <1> QED BY <1>1, <1>2, <1>3, <1>4, <1>5 DEF FusionNext, FusionStep

-----------------------------------------------------------------------------
(***************************************************************************)
(* The token saver's worker for any number of callers, workers, exits and   *)
(* dropped calls: no worker is lost from sight, and as long as no call was   *)
(* dropped in the middle of a conversation, whoever reads finds its own      *)
(* reply.                                                                  *)
(*                                                                         *)
(* WorkerSafe is not inductive: that a worker in the slot owes nothing to     *)
(* anybody rests on the lock (a conversation is one caller's) and on where    *)
(* the one frame of that conversation is (OwnFrame).                         *)
(***************************************************************************)

Holding == {"spawning", "writing", "reading"}

\* Nothing is under way on the pipes.
Clean == stdin = <<>> /\ job = "idle" /\ stdout = <<>>

\* The caller's frame is in exactly one place, or lost in a hung transform.
OwnFrame(c) ==
    \/ stdin = <<c>> /\ job = "idle" /\ stdout = <<>>
    \/ stdin = <<>> /\ job \in {c, "hung"} /\ stdout = <<>>
    \/ stdin = <<>> /\ job = "idle" /\ stdout = <<c>>

\* The numbers of workers are those of the workers spawned.
NumbersInv ==
    /\ at \in [Callers -> Phases]
    /\ spawned \in Nat
    /\ slot \in 0..spawned
    /\ taken \in [Callers -> 0..spawned]
    /\ alive \subseteq 1..spawned

\* A conversation, and a spawn, is the lock holder's.
LockInv == \A c \in Callers : at[c] \in Holding => lock = c

\* A worker has one owner, and every one that runs has one.
OwnerInv ==
    /\ \A c \in Callers : taken[c] # 0 => at[c] \in {"spawning", "closing"}
    /\ \A c \in Callers : at[c] = "spawning" => slot = 0 /\ Clean
    /\ \A c \in Callers : taken[c] # 0 => taken[c] # slot
    /\ \A c, d \in Callers : c # d /\ taken[c] # 0 => taken[c] # taken[d]
    /\ \A w \in alive : w = slot \/ \E c \in Callers : taken[c] = w

\* The pipes of a worker that is not spoilt hold the reader's frame or nothing.
FrameInv ==
    slot \notin spoilt =>
        /\ \A c \in Callers : at[c] = "reading" => OwnFrame(c)
        /\ (\A c \in Callers : at[c] # "reading") /\ slot # 0 => Clean

PipeInv == NumbersInv /\ LockInv /\ OwnerInv /\ FrameInv

\* No caller is a mark.
LEMMA CallersAreNoMarks ==
    ASSUME NEW c \in Callers
    PROVE  c # "free" /\ c # "idle" /\ c # "hung" /\ c # Torn /\ c # Glued
  BY BridgeAssumption

\* Nothing runs at the start.
LEMMA PipeInitially == PipeInit => PipeInv
  BY DEF PipeInit, PipeInv, NumbersInv, LockInv, OwnerInv, FrameInv, Clean, Holding, Phases

\* What the invariant says of the pipes is what ReplyMatches needs.
LEMMA PipeInvSafe == PipeInv => WorkerSafe
  <1> SUFFICES ASSUME PipeInv PROVE WorkerSafe
    OBVIOUS
  <1>1. ReplyMatches
    BY DEF PipeInv, FrameInv, OwnFrame, ReplyMatches
  <1>2. WorkersAccountedFor
    BY DEF PipeInv, OwnerInv, WorkersAccountedFor
  <1> QED BY <1>1, <1>2 DEF WorkerSafe

-----------------------------------------------------------------------------
\* A call that arrives owns nothing.
LEMMA ArriveStep ==
    ASSUME PipeInv, NEW c \in Callers, NEW what \in Operations, Arrive(c, what)
    PROVE  PipeInv'
  <1> USE DEF Arrive, Goes, pipes
  <1>1. NumbersInv'
    BY BridgeAssumption DEF PipeInv, NumbersInv, Phases
  <1>2. LockInv'
    BY CallersAreNoMarks DEF PipeInv, NumbersInv, LockInv, Holding
  <1>3. OwnerInv'
    BY CallersAreNoMarks DEF PipeInv, NumbersInv, LockInv, OwnerInv, Holding, Clean
  <1>4. FrameInv'
    BY CallersAreNoMarks
    DEF PipeInv, NumbersInv, LockInv, OwnerInv, FrameInv, Holding, Clean, OwnFrame
  <1> QED BY <1>1, <1>2, <1>3, <1>4 DEF PipeInv

\* Nobody converses while the lock is free, so the worker that is taken has no reader.
LEMMA TakeToStopStep ==
    ASSUME PipeInv, NEW c \in Callers, TakeToStop(c)
    PROVE  PipeInv'
  <1> USE DEF TakeToStop, Served, Goes, pipes
  <1>1. NumbersInv'
    BY BridgeAssumption DEF PipeInv, NumbersInv, Phases
  <1>2. LockInv'
    BY CallersAreNoMarks DEF PipeInv, NumbersInv, LockInv, Holding
  <1>3. OwnerInv'
    BY CallersAreNoMarks DEF PipeInv, NumbersInv, LockInv, OwnerInv, Holding, Clean
  <1>4. FrameInv'
    BY CallersAreNoMarks
    DEF PipeInv, NumbersInv, LockInv, OwnerInv, FrameInv, Holding, Clean, OwnFrame
  <1> QED BY <1>1, <1>2, <1>3, <1>4 DEF PipeInv

\* A start that finds a worker changes only its own phase.
LEMMA AlreadyLoadedStep ==
    ASSUME PipeInv, NEW c \in Callers, AlreadyLoaded(c)
    PROVE  PipeInv'
  <1> USE DEF AlreadyLoaded, Served, Goes, pipes
  <1>1. NumbersInv'
    BY BridgeAssumption DEF PipeInv, NumbersInv, Phases
  <1>2. LockInv'
    BY CallersAreNoMarks DEF PipeInv, NumbersInv, LockInv, Holding
  <1>3. OwnerInv'
    BY CallersAreNoMarks DEF PipeInv, NumbersInv, LockInv, OwnerInv, Holding, Clean
  <1>4. FrameInv'
    BY CallersAreNoMarks
    DEF PipeInv, NumbersInv, LockInv, OwnerInv, FrameInv, Holding, Clean, OwnFrame
  <1> QED BY <1>1, <1>2, <1>3, <1>4 DEF PipeInv

\* The new worker has a number no other has, and empty pipes.
LEMMA SpawnStep ==
    ASSUME PipeInv, NEW c \in Callers, Spawn(c)
    PROVE  PipeInv'
  <1> USE DEF Spawn, Served, Goes, pipes
  <1>1. NumbersInv'
    BY BridgeAssumption DEF PipeInv, NumbersInv, Phases
  <1>2. LockInv'
    BY CallersAreNoMarks DEF PipeInv, NumbersInv, LockInv, Holding
  <1>3. OwnerInv'
    BY CallersAreNoMarks DEF PipeInv, NumbersInv, LockInv, OwnerInv, Holding, Clean
  <1>4. FrameInv'
    BY CallersAreNoMarks
    DEF PipeInv, NumbersInv, LockInv, OwnerInv, FrameInv, Holding, Clean, OwnFrame
  <1> QED BY <1>1, <1>2, <1>3, <1>4 DEF PipeInv

\* A failed spawn leaves the empty slot as it was.
LEMMA SpawnFailsStep ==
    ASSUME PipeInv, NEW c \in Callers, SpawnFails(c)
    PROVE  PipeInv'
  <1> USE DEF SpawnFails, Served, Goes, Ends, pipes
  <1>1. NumbersInv'
    BY BridgeAssumption DEF PipeInv, NumbersInv, Phases
  <1>2. LockInv'
    BY CallersAreNoMarks DEF PipeInv, NumbersInv, LockInv, Holding
  <1>3. OwnerInv'
    BY CallersAreNoMarks DEF PipeInv, NumbersInv, LockInv, OwnerInv, Holding, Clean
  <1>4. FrameInv'
    BY CallersAreNoMarks
    DEF PipeInv, NumbersInv, LockInv, OwnerInv, FrameInv, Holding, Clean, OwnFrame
  <1> QED BY <1>1, <1>2, <1>3, <1>4 DEF PipeInv

\* The slot was empty when its holder fills it, and the pipes with it.
LEMMA ReadyStep ==
    ASSUME PipeInv, NEW c \in Callers, Ready(c)
    PROVE  PipeInv'
  <1> USE DEF Ready, Goes, Unlock, pipes
  <1>1. NumbersInv'
    BY BridgeAssumption DEF PipeInv, NumbersInv, Phases
  <1>2. LockInv'
    BY CallersAreNoMarks DEF PipeInv, NumbersInv, LockInv, Holding
  <1>3. OwnerInv'
    BY CallersAreNoMarks DEF PipeInv, NumbersInv, LockInv, OwnerInv, Holding, Clean
  <1>4. FrameInv'
    BY CallersAreNoMarks
    DEF PipeInv, NumbersInv, LockInv, OwnerInv, FrameInv, Holding, Clean, OwnFrame
  <1> QED BY <1>1, <1>2, <1>3, <1>4 DEF PipeInv

\* The worker a failed spawn owns is the one that ends.
LEMMA NotReadyStep ==
    ASSUME PipeInv, NEW c \in Callers, NotReady(c)
    PROVE  PipeInv'
  <1> USE DEF NotReady, Goes, Ends, Unlock, pipes
  <1>1. NumbersInv'
    <2>1. at' \in [Callers -> Phases] /\ spawned' = spawned /\ slot' = slot
      BY DEF PipeInv, NumbersInv, Phases
    <2>2. taken' \in [Callers -> 0..spawned] /\ alive' \subseteq alive
      BY DEF PipeInv, NumbersInv
    <2> QED BY <2>1, <2>2 DEF PipeInv, NumbersInv
  <1>2. LockInv'
    BY CallersAreNoMarks DEF PipeInv, NumbersInv, LockInv, Holding
  <1>3. OwnerInv'
    BY CallersAreNoMarks DEF PipeInv, NumbersInv, LockInv, OwnerInv, Holding, Clean
  <1>4. FrameInv'
    BY CallersAreNoMarks
    DEF PipeInv, NumbersInv, LockInv, OwnerInv, FrameInv, Holding, Clean, OwnFrame
  <1> QED BY <1>1, <1>2, <1>3, <1>4 DEF PipeInv

\* The pipes are clean when a conversation begins.
LEMMA ConverseStep ==
    ASSUME PipeInv, NEW c \in Callers, Converse(c)
    PROVE  PipeInv'
  <1> USE DEF Converse, Served, Goes, pipes
  <1>1. NumbersInv'
    BY BridgeAssumption DEF PipeInv, NumbersInv, Phases
  <1>2. LockInv'
    BY CallersAreNoMarks DEF PipeInv, NumbersInv, LockInv, Holding
  <1>3. OwnerInv'
    BY CallersAreNoMarks DEF PipeInv, NumbersInv, LockInv, OwnerInv, Holding, Clean
  <1>4. FrameInv'
    BY CallersAreNoMarks
    DEF PipeInv, NumbersInv, LockInv, OwnerInv, FrameInv, Holding, Clean, OwnFrame
  <1> QED BY <1>1, <1>2, <1>3, <1>4 DEF PipeInv

\* The line written is the one thing on the pipes.
LEMMA WriteDoneStep ==
    ASSUME PipeInv, NEW c \in Callers, WriteDone(c)
    PROVE  PipeInv'
  <1> USE DEF WriteDone, Goes, EndsTorn, pipes
  <1>1. NumbersInv'
    BY BridgeAssumption DEF PipeInv, NumbersInv, Phases
  <1>2. LockInv'
    BY CallersAreNoMarks DEF PipeInv, NumbersInv, LockInv, Holding
  <1>3. OwnerInv'
    BY CallersAreNoMarks DEF PipeInv, NumbersInv, LockInv, OwnerInv, Holding, Clean
  <1>4. FrameInv'
    <2>1. \A d \in Callers \ {c} : at[d] # "reading" /\ at'[d] # "reading"
      BY CallersAreNoMarks DEF PipeInv, NumbersInv, LockInv, Holding
    <2>2. at'[c] = "reading"
      BY DEF PipeInv, NumbersInv
    <2>3. CASE slot \in spoilt
      BY <2>3 DEF FrameInv
    <2>4. CASE slot \notin spoilt
      <3>1. Clean
        BY <2>1, <2>4, BridgeAssumption DEF PipeInv, NumbersInv, FrameInv
      <3>2. stdin' = <<c>> /\ job' = "idle" /\ stdout' = <<>>
        BY <3>1 DEF Clean
      <3> QED BY <2>1, <2>2, <3>2 DEF FrameInv, OwnFrame
    <2> QED BY <2>3, <2>4
  <1> QED BY <1>1, <1>2, <1>3, <1>4 DEF PipeInv

\* A discarded worker passes from the slot to the call.
LEMMA DiscardStep ==
    ASSUME PipeInv, NEW c \in Callers, at[c] \in {"writing", "reading"}, Discard(c)
    PROVE  PipeInv'
  <1> USE DEF Discard, Goes, Unlock, pipes
  <1>1. NumbersInv'
    BY BridgeAssumption DEF PipeInv, NumbersInv, Phases
  <1>2. LockInv'
    BY CallersAreNoMarks DEF PipeInv, NumbersInv, LockInv, Holding
  <1>3. OwnerInv'
    BY CallersAreNoMarks DEF PipeInv, NumbersInv, LockInv, OwnerInv, Holding, Clean
  <1>4. FrameInv'
    BY CallersAreNoMarks
    DEF PipeInv, NumbersInv, LockInv, OwnerInv, FrameInv, Holding, Clean, OwnFrame
  <1> QED BY <1>1, <1>2, <1>3, <1>4 DEF PipeInv

\* The reply taken was the one thing on the pipes.
LEMMA ReplyStep ==
    ASSUME PipeInv, NEW c \in Callers, Reply(c)
    PROVE  PipeInv'
  <1> USE DEF Reply, Goes, Ends, Unlock, pipes
  <1>1. NumbersInv'
    BY BridgeAssumption DEF PipeInv, NumbersInv, Phases
  <1>2. LockInv'
    BY CallersAreNoMarks DEF PipeInv, NumbersInv, LockInv, Holding
  <1>3. OwnerInv'
    BY CallersAreNoMarks DEF PipeInv, NumbersInv, LockInv, OwnerInv, Holding, Clean
  <1>4. FrameInv'
    <2>1. \A d \in Callers : at'[d] # "reading"
      BY CallersAreNoMarks DEF PipeInv, NumbersInv, LockInv, Holding
    <2>2. CASE slot \in spoilt
      BY <2>2 DEF FrameInv
    <2>3. CASE slot \notin spoilt
      <3>1. OwnFrame(c)
        BY <2>3 DEF PipeInv, FrameInv
      <3>2. stdin = <<>> /\ job = "idle" /\ stdout = <<c>>
        BY <3>1 DEF OwnFrame
      <3>3. Tail(<<c>>) = <<>>
        OBVIOUS
      <3> QED BY <2>1, <3>2, <3>3 DEF FrameInv, Clean
    <2> QED BY <2>2, <2>3
  <1> QED BY <1>1, <1>2, <1>3, <1>4 DEF PipeInv

\* A call shuts down the worker it owns.
LEMMA CloseStep ==
    ASSUME PipeInv, NEW c \in Callers, Close(c)
    PROVE  PipeInv'
  <1> USE DEF Close, Goes, Ends, pipes
  <1>1. NumbersInv'
    <2>1. at' \in [Callers -> Phases] /\ spawned' = spawned /\ slot' = slot
      BY DEF PipeInv, NumbersInv, Phases
    <2>2. taken' \in [Callers -> 0..spawned] /\ alive' \subseteq alive
      BY DEF PipeInv, NumbersInv
    <2> QED BY <2>1, <2>2 DEF PipeInv, NumbersInv
  <1>2. LockInv'
    BY CallersAreNoMarks DEF PipeInv, NumbersInv, LockInv, Holding
  <1>3. OwnerInv'
    BY CallersAreNoMarks DEF PipeInv, NumbersInv, LockInv, OwnerInv, Holding, Clean
  <1>4. FrameInv'
    BY CallersAreNoMarks
    DEF PipeInv, NumbersInv, LockInv, OwnerInv, FrameInv, Holding, Clean, OwnFrame
  <1> QED BY <1>1, <1>2, <1>3, <1>4 DEF PipeInv

\* A dropped call either owned its worker, or held no conversation, or spoilt the one in the slot.
LEMMA GoneStep ==
    ASSUME PipeInv, NEW c \in Callers, Gone(c)
    PROVE  PipeInv'
  <1> USE DEF Gone, Goes, LeftBehind, pipes
  <1>1. NumbersInv'
    BY BridgeAssumption DEF PipeInv, NumbersInv, Phases
  <1>2. LockInv'
    BY CallersAreNoMarks DEF PipeInv, NumbersInv, LockInv, Holding
  <1>3. OwnerInv'
    BY CallersAreNoMarks DEF PipeInv, NumbersInv, LockInv, OwnerInv, Holding, Clean
  <1>4. FrameInv'
    BY CallersAreNoMarks
    DEF PipeInv, NumbersInv, LockInv, OwnerInv, FrameInv, Holding, Clean, OwnFrame
  <1> QED BY <1>1, <1>2, <1>3, <1>4 DEF PipeInv

\* The line the script reads is the reader's.
LEMMA TakeLineStep ==
    ASSUME PipeInv, TakeLine
    PROVE  PipeInv'
  <1> USE DEF TakeLine, Serving
  <1>1. NumbersInv'
    BY BridgeAssumption DEF PipeInv, NumbersInv, Phases
  <1>2. LockInv'
    BY CallersAreNoMarks DEF PipeInv, NumbersInv, LockInv, Holding
  <1>3. OwnerInv'
    BY CallersAreNoMarks DEF PipeInv, NumbersInv, LockInv, OwnerInv, Holding, Clean
  <1>4. FrameInv'
    <2>1. slot # 0
      BY DEF PipeInv, NumbersInv
    <2>2. CASE slot \in spoilt
      BY <2>2 DEF FrameInv
    <2>3. CASE slot \notin spoilt
      <3>1. PICK c \in Callers : at[c] = "reading"
        BY <2>1, <2>3, CallersAreNoMarks DEF PipeInv, FrameInv, Clean
      <3>2. \A d \in Callers : at[d] = "reading" => d = c
        BY <3>1 DEF PipeInv, LockInv, Holding
      <3>3. OwnFrame(c)
        BY <2>3, <3>1 DEF PipeInv, FrameInv
      <3>4. stdin = <<c>> /\ job = "idle" /\ stdout = <<>>
        BY <3>3, CallersAreNoMarks DEF OwnFrame
      <3>5. stdin' = <<>> /\ job' = c /\ stdout' = <<>>
        BY <3>4, CallersAreNoMarks
      <3> QED BY <3>1, <3>2, <3>5 DEF FrameInv, OwnFrame
    <2> QED BY <2>2, <2>3
  <1> QED BY <1>1, <1>2, <1>3, <1>4 DEF PipeInv

\* The reply the script sends is to the line it read.
LEMMA SendReplyStep ==
    ASSUME PipeInv, SendReply
    PROVE  PipeInv'
  <1> USE DEF SendReply, Serving
  <1>1. NumbersInv'
    BY BridgeAssumption DEF PipeInv, NumbersInv, Phases
  <1>2. LockInv'
    BY CallersAreNoMarks DEF PipeInv, NumbersInv, LockInv, Holding
  <1>3. OwnerInv'
    BY CallersAreNoMarks DEF PipeInv, NumbersInv, LockInv, OwnerInv, Holding, Clean
  <1>4. FrameInv'
    <2>1. slot # 0
      BY DEF PipeInv, NumbersInv
    <2>2. CASE slot \in spoilt
      BY <2>2 DEF FrameInv
    <2>3. CASE slot \notin spoilt
      <3>1. PICK c \in Callers : at[c] = "reading"
        BY <2>1, <2>3, CallersAreNoMarks DEF PipeInv, FrameInv, Clean
      <3>2. \A d \in Callers : at[d] = "reading" => d = c
        BY <3>1 DEF PipeInv, LockInv, Holding
      <3>3. OwnFrame(c)
        BY <2>3, <3>1 DEF PipeInv, FrameInv
      <3>4. stdin = <<>> /\ job = c /\ stdout = <<>>
        BY <3>3, CallersAreNoMarks DEF OwnFrame
      <3>5. stdin' = <<>> /\ job' = "idle" /\ stdout' = <<c>>
        BY <3>4, CallersAreNoMarks
      <3> QED BY <3>1, <3>2, <3>5 DEF FrameInv, OwnFrame
    <2> QED BY <2>2, <2>3
  <1> QED BY <1>1, <1>2, <1>3, <1>4 DEF PipeInv

\* A hung transform was the reader's.
LEMMA HangStep ==
    ASSUME PipeInv, Hang
    PROVE  PipeInv'
  <1> USE DEF Hang, Serving
  <1>1. NumbersInv'
    BY BridgeAssumption DEF PipeInv, NumbersInv, Phases
  <1>2. LockInv'
    BY CallersAreNoMarks DEF PipeInv, NumbersInv, LockInv, Holding
  <1>3. OwnerInv'
    BY CallersAreNoMarks DEF PipeInv, NumbersInv, LockInv, OwnerInv, Holding, Clean
  <1>4. FrameInv'
    BY CallersAreNoMarks
    DEF PipeInv, NumbersInv, LockInv, OwnerInv, FrameInv, Holding, Clean, OwnFrame
  <1> QED BY <1>1, <1>2, <1>3, <1>4 DEF PipeInv

\* An exit takes a worker away.
LEMMA ExitStep ==
    ASSUME PipeInv, NEW w \in Workers, Exit(w)
    PROVE  PipeInv'
  <1> USE DEF Exit, pipes
  <1>1. NumbersInv'
    BY BridgeAssumption DEF PipeInv, NumbersInv, Phases
  <1>2. LockInv'
    BY CallersAreNoMarks DEF PipeInv, NumbersInv, LockInv, Holding
  <1>3. OwnerInv'
    BY CallersAreNoMarks DEF PipeInv, NumbersInv, LockInv, OwnerInv, Holding, Clean
  <1>4. FrameInv'
    BY CallersAreNoMarks
    DEF PipeInv, NumbersInv, LockInv, OwnerInv, FrameInv, Holding, Clean, OwnFrame
  <1> QED BY <1>1, <1>2, <1>3, <1>4 DEF PipeInv

-----------------------------------------------------------------------------
\* No step of the bridge, of a dropped call or of the script breaks the invariant.
LEMMA PipeStep == PipeInv /\ [PipeNext]_pipeVars => PipeInv'
  <1> SUFFICES ASSUME PipeInv, [PipeNext]_pipeVars PROVE PipeInv'
    OBVIOUS
  <1>1. ASSUME NEW c \in Callers, BridgeStep(c) PROVE PipeInv'
    <2>1. CASE TakeToStop(c) BY <2>1, TakeToStopStep
    <2>2. CASE AlreadyLoaded(c) BY <2>2, AlreadyLoadedStep
    <2>3. CASE Spawn(c) BY <2>3, SpawnStep
    <2>4. CASE SpawnFails(c) BY <2>4, SpawnFailsStep
    <2>5. CASE Ready(c) BY <2>5, ReadyStep
    <2>6. CASE NotReady(c) BY <2>6, NotReadyStep
    <2>7. CASE Converse(c) BY <2>7, ConverseStep
    <2>8. CASE WriteDone(c) BY <2>8, WriteDoneStep
    <2>9. CASE WriteFails(c) \/ ReadFails(c) \/ TimesOut(c)
      BY <2>9, DiscardStep DEF WriteFails, ReadFails, TimesOut
    <2>10. CASE Reply(c) BY <2>10, ReplyStep
    <2>11. CASE Close(c) BY <2>11, CloseStep
    <2> QED BY <1>1, <2>1, <2>2, <2>3, <2>4, <2>5, <2>6, <2>7, <2>8, <2>9, <2>10, <2>11
            DEF BridgeStep
  <1>2. ASSUME NEW c \in Callers, NEW what \in Operations, Arrive(c, what)
        PROVE  PipeInv'
    BY <1>2, ArriveStep
  <1>3. ASSUME NEW c \in Callers, Gone(c) PROVE PipeInv'
    BY <1>3, GoneStep
  <1>4. CASE WorkerStep
    BY <1>4, TakeLineStep, SendReplyStep DEF WorkerStep
  <1>5. CASE Hang
    BY <1>5, HangStep
  <1>6. ASSUME NEW w \in Workers, Exit(w) PROVE PipeInv'
    BY <1>6, ExitStep
  <1>7. CASE UNCHANGED pipeVars
    BY <1>7 DEF pipeVars, pipes, PipeInv, NumbersInv, LockInv, OwnerInv, FrameInv,
                OwnFrame, Clean
  <1> QED BY <1>1, <1>2, <1>3, <1>4, <1>5, <1>6, <1>7 DEF PipeNext

-----------------------------------------------------------------------------
(* The service: a step of it is one of each part, or leaves the part alone. *)

\* A part does not see the others.
LEMMA RuntimeParts ==
    RuntimeInit /\ [][RuntimeNext]_runtimeVars =>
        /\ RefreshInit /\ [][RefreshNext]_refreshVars
        /\ RoutingInit /\ [][RoutingNext]_routingVars
        /\ FusionInit /\ [][FusionNext]_fusionVars
        /\ PipeInit /\ [][PipeNext]_pipeVars
  <1>1. RuntimeInit => RefreshInit /\ RoutingInit /\ FusionInit /\ PipeInit
    BY DEF RuntimeInit
  <1>2. [RuntimeNext]_runtimeVars =>
            /\ [RefreshNext]_refreshVars /\ [RoutingNext]_routingVars
            /\ [FusionNext]_fusionVars /\ [PipeNext]_pipeVars
    BY DEF RuntimeNext, RefreshTurn, RoutingTurn, FusionTurn, PipeTurn, TalkTurn, runtimeVars
  <1> QED BY <1>1, <1>2, PTL

\* A rotation is never lost by the requests themselves, and the store never goes
\* back to a spent token, whichever of them settles and however late.
THEOREM RotationIsKept == RuntimeSpec => RotationKept
  <1>1. RefreshInv /\ [RefreshNext]_refreshVars =>
            RefreshInv' /\ RotationNotLost' /\ stored <= stored'
    <2>1. RefreshInv' => RotationNotLost'
      BY InvKeepsRotation, PTL
    <2> QED BY <2>1, RefreshKept
  <1> QED BY <1>1, RefreshInitially, RuntimeParts, PTL DEF RuntimeSpec, RotationKept

\* What a request is routed by is recent, and the places of a combo's list take
\* turns, however the requests, the dashboard and the clock interleave.
THEOREM RoutingIsFair == RuntimeSpec => RoutingHolds
  <1> DEFINE Good == (starts' # starts \/ used' # used => Recent(used', clock)) /\ TakeTurns'
  <1>1. RoutingInv /\ [RoutingNext]_routingVars => RoutingInv' /\ [Good]_routingVars
    <2>1. RoutingInv' => TakeTurns'
      BY InvTakesTurns, PTL
    <2> QED BY <2>1, RoutingStep, RoutingIsRecent
  <1> QED BY <1>1, RoutingInitially, RuntimeParts, PTL DEF RuntimeSpec, RoutingHolds

\* Whatever the panel, its deadlines and the order of the answers, a text is left
\* out only for a reason, and what the reply is written from was recorded.
THEOREM NothingLeftOut == RuntimeSpec => []LeftOutForAReason
  <1>1. PanelInv => LeftOutForAReason
    BY DEF PanelInv
  <1> QED BY <1>1, PanelInitially, PanelStep, RuntimeParts, PTL DEF RuntimeSpec

\* Every frame read is the reader's own unless a call was dropped in the middle of
\* its conversation on that worker, and no worker is ever out of sight.
THEOREM WorkersAreSafe == RuntimeSpec => []WorkerSafe
  BY PipeInitially, PipeStep, PipeInvSafe, RuntimeParts, PTL DEF RuntimeSpec
=============================================================================
