---------------------------- MODULE StreamProofs ----------------------------
(***************************************************************************)
(* A client that stays can act on the stream it reads, whatever the formats *)
(* of the provider and of the client are, for any number of events, calls   *)
(* and places in the channel.                                              *)
(*                                                                         *)
(* The invariant is about all that was delivered: what the client got, what *)
(* is in the channel and what waits before it, one sequence that sending    *)
(* and receiving leave alone.  The state of the client's side knows of that *)
(* sequence which blocks or items are open, and the translation adds only   *)
(* frames that fit.  What the provider may send next bounds what a step     *)
(* adds: a finish with the reason that its calls ask for, and after it      *)
(* nothing but another finish.                                             *)
(***************************************************************************)
EXTENDS Stream, TLAPS, FiniteSetTheorems, SequenceTheorems, WellFoundedInduction

\* The order of the naturals is well founded, written as a set of pairs.
LEMMA LessIsWellFounded == IsWellFoundedOn({ss \in Nat \X Nat : ss[1] < ss[2]}, Nat)
  <1>1. OpToRel(<, Nat) = {ss \in Nat \X Nat : ss[1] < ss[2]}  BY DEF OpToRel
  <1> QED BY <1>1, NatLessThanWellFounded

\* Induction over the naturals, for a set.
LEMMA ByInduction ==
    ASSUME NEW S, 0 \in S, \A n \in Nat : n \in S => n + 1 \in S
    PROVE  \A n \in Nat : n \in S
  <1> SUFFICES ASSUME Nat \ S # {} PROVE FALSE
    OBVIOUS
  <1> DEFINE less == {ss \in Nat \X Nat : ss[1] < ss[2]}
             rest == Nat \ S
  <1>1. PICK x \in rest : \A y \in rest : <<y, x>> \notin less
    <2>1. IsWellFoundedOn(less, Nat)  BY LessIsWellFounded
    <2>2. rest \subseteq Nat /\ rest # {}  OBVIOUS
    <2> HIDE DEF less, rest
    <2> QED BY <2>1, <2>2, WFMin
  <1>2. x - 1 \in rest /\ <<x - 1, x>> \in less
    <2>1. x # 0 /\ x \in Nat  OBVIOUS
    <2>2. x - 1 \in Nat /\ x - 1 < x  BY <2>1
    <2> QED BY <2>1, <2>2
  <1> QED BY <1>1, <1>2

\* A finite set of integers that is not empty has its maximum.
LEMMA MaxIn ==
    ASSUME NEW S \in SUBSET Int, IsFiniteSet(S), S # {}
    PROVE  Max(S) \in S /\ \A x \in S : x <= Max(S)
  <1> DEFINE T == {k \in Nat : \A s \in SUBSET S :
                      Cardinality(s) = k /\ s # {} => \E m \in s : \A x \in s : x <= m}
  <1>1. 0 \in T
    <2> SUFFICES ASSUME NEW s \in SUBSET S, Cardinality(s) = 0, s # {} PROVE FALSE
      OBVIOUS
    <2> QED BY FS_Subset, FS_EmptySet
  <1>2. ASSUME NEW k \in Nat, k \in T PROVE k + 1 \in T
    <2> SUFFICES ASSUME NEW s \in SUBSET S, Cardinality(s) = k + 1, s # {}
                 PROVE  \E m \in s : \A x \in s : x <= m
      OBVIOUS
    <2>1. PICK a : a \in s  OBVIOUS
    <2>2. IsFiniteSet(s)  BY FS_Subset
    <2>3. Cardinality(s \ {a}) = k
      <3>1. Cardinality(s \ {a}) = Cardinality(s) - 1  BY <2>1, <2>2, FS_RemoveElement, Zenon
      <3> QED BY <3>1
    <2>4. CASE s \ {a} = {}
      <3>1. \A x \in s : x <= a  BY <2>1, <2>4
      <3> QED BY <2>1, <3>1
    <2>5. CASE s \ {a} # {}
      <3>1. s \ {a} \in SUBSET S  OBVIOUS
      <3>2. PICK m \in s \ {a} : \A x \in s \ {a} : x <= m  BY <1>2, <2>3, <2>5, <3>1
      <3>3. a \in Int /\ m \in Int  BY <2>1
      <3>4. CASE a <= m
        <4>1. \A x \in s : x <= m  BY <3>2, <3>4
        <4> QED BY <4>1
      <3>5. CASE m <= a
        <4>1. \A x \in s : x \in Int  OBVIOUS
        <4>2. \A x \in s : x <= a  BY <3>2, <3>3, <3>5, <4>1
        <4> QED BY <2>1, <4>2
      <3> QED BY <3>3, <3>4, <3>5
    <2> QED BY <2>4, <2>5
  <1> HIDE DEF T
  <1>3. Cardinality(S) \in T  BY <1>1, <1>2, ByInduction, FS_CardinalityType
  <1>4. \E m \in S : \A x \in S : x <= m  BY <1>3 DEF T
  <1>5. \E m \in S : \A x \in S : m >= x
    <2>1. PICK m \in S : \A x \in S : x <= m  BY <1>4
    <2>2. \A x \in S : m >= x  BY <2>1
    <2> QED BY <2>2
  <1>6. Max(S) \in S /\ \A x \in S : Max(S) >= x  BY <1>5 DEF Max
  <1> QED BY <1>6

\* The maximum of an interval from 1.
LEMMA MaxUpTo == ASSUME NEW k \in Nat PROVE Max(1..(k + 1)) = k + 1
  <1>1. 1..(k + 1) \in SUBSET Int /\ 1..(k + 1) # {} /\ k + 1 \in 1..(k + 1)  OBVIOUS
  <1>2. PICK a, c : a = 1 /\ c = k + 1  OBVIOUS
  <1>3. IsFiniteSet(a..c)  BY <1>2, FS_Interval
  <1>4. PICK S : S = a..c  OBVIOUS
  <1>5. Max(S) \in S /\ \A x \in S : x <= Max(S)  BY <1>1, <1>2, <1>3, <1>4, MaxIn
  <1>6. Max(S) \in 1..c /\ c <= Max(S)  BY <1>1, <1>2, <1>4, <1>5
  <1>7. Max(S) = c  BY <1>2, <1>6
  <1> QED BY <1>2, <1>4, <1>7

Small(S, k) == {s \in SUBSET S : Cardinality(s) <= k}

\* The subsets of a finite set, from those with no element upwards.
LEMMA SmallOnes ==
    ASSUME NEW S \in SUBSET Int, IsFiniteSet(S)
    PROVE  /\ Small(S, 0) = {{}}
           /\ Small(S, Cardinality(S)) = SUBSET S
           /\ \A k \in Nat : /\ \A s \in Small(S, k) : s \in Small(S, k + 1)
                            /\ \A s \in Small(S, k + 1) :
                                  s # {} => s \ {Max(s)} \in Small(S, k)
  <1>0. \A s \in SUBSET S : IsFiniteSet(s) /\ Cardinality(s) \in Nat /\ Cardinality(s) <= Cardinality(S)
    BY FS_Subset, FS_CardinalityType
  <1>1. Small(S, 0) = {{}}
    <2>1. \A s \in SUBSET S : Cardinality(s) <= 0 => s = {}
      BY <1>0, FS_EmptySet
    <2>2. Cardinality({}) = 0  BY FS_EmptySet
    <2>3. {} \in Small(S, 0)  BY <2>2 DEF Small
    <2>4. \A s \in Small(S, 0) : s = {}  BY <2>1 DEF Small
    <2> QED BY <2>3, <2>4
  <1>2. ASSUME NEW k \in Nat, NEW s \in Small(S, k + 1), s # {}
        PROVE  s \ {Max(s)} \in Small(S, k)
    <2>1. s \in SUBSET S /\ Cardinality(s) <= k + 1  BY DEF Small
    <2>2. Max(s) \in s
      <3>1. s \in SUBSET Int /\ IsFiniteSet(s)  BY <1>0, <2>1
      <3> QED BY <1>2, <3>1, MaxIn
    <2>3. Cardinality(s \ {Max(s)}) = Cardinality(s) - 1
      BY <1>0, <2>1, <2>2, FS_RemoveElement, Zenon
    <2>4. Cardinality(s) \in Nat  BY <1>0, <2>1
    <2>5. Cardinality(s \ {Max(s)}) <= k  BY <2>1, <2>3, <2>4
    <2> QED BY <2>1, <2>5 DEF Small
  <1>3. \A k \in Nat : \A s \in Small(S, k) : s \in Small(S, k + 1)
    <2> SUFFICES ASSUME NEW k \in Nat, NEW s \in Small(S, k) PROVE s \in Small(S, k + 1)
      OBVIOUS
    <2>1. s \in SUBSET S /\ Cardinality(s) \in Nat /\ Cardinality(s) <= k  BY <1>0 DEF Small
    <2> QED BY <2>1 DEF Small
  <1>4. Small(S, Cardinality(S)) = SUBSET S  BY <1>0 DEF Small
  <1> QED BY <1>1, <1>2, <1>3, <1>4

\* The same, for an interval.
LEMMA SmallUpTo ==
    ASSUME NEW n \in Nat
    PROVE  /\ Small(1..n, 0) = {{}}
           /\ Small(1..n, n) = SUBSET (1..n)
           /\ \A k \in Nat : /\ \A s \in Small(1..n, k) : s \in Small(1..n, k + 1)
                            /\ \A s \in Small(1..n, k + 1) :
                                  s # {} => s \ {Max(s)} \in Small(1..n, k)
  <1>1. PICK a : a = 1  OBVIOUS
  <1>2. PICK S : S = a..n  OBVIOUS
  <1>3. IsFiniteSet(S) /\ Cardinality(S) = n
    <2>1. IsFiniteSet(a..n)  BY <1>1, FS_Interval
    <2>2. Cardinality(a..n) = IF a > n THEN 0 ELSE n - a + 1  BY <1>1, FS_Interval
    <2> QED BY <1>1, <1>2, <2>1, <2>2
  <1>4. S \in SUBSET Int  BY <1>2
  <1> QED BY <1>1, <1>2, <1>3, <1>4, SmallOnes

\* An interval from 1 without its last element.
LEMMA UpToLess ==
    ASSUME NEW n \in Nat, NEW k \in Nat, k + 1 <= n
    PROVE  1..(k + 1) \in SUBSET (1..n) /\ 1..(k + 1) # {} /\ (1..(k + 1)) \ {k + 1} = 1..k
  <1>1. \A x \in 1..(k + 1) : x \in 1..n  OBVIOUS
  <1>2. k + 1 \in 1..(k + 1)  OBVIOUS
  <1>3. \A x : x \in (1..(k + 1)) \ {k + 1} <=> x \in 1..k  OBVIOUS
  <1> QED BY <1>1, <1>2, <1>3

\* What holds before a fold and is kept by each of its steps holds after it:
\* D[k] is what holds after k steps.  The provers take no operator as a
\* parameter, so every operator that is folded has its own copy of this lemma.
LEMMA ToOneClientFolds ==
    ASSUME NEW b, NEW n \in Nat, NEW seq, DOMAIN seq = 1..n,
           NEW D, b \in D[0],
           \A k \in 1..n : \A v \in D[k - 1] : ToOneClient(v, seq[k]) \in D[k]
    PROVE  FoldLeft(ToOneClient, b, seq) \in D[n]
  <1> DEFINE S == 1..n
             After(h, s) == IF s = {} THEN b ELSE ToOneClient(h[s \ {Max(s)}], seq[Max(s)])
             Goes(h) == h = [s \in SUBSET S |-> After(h, s)]
             g == CHOOSE h : Goes(h)
             Part(h, k) == h = [s \in Small(S, k) |-> After(h, s)]
             T == {k \in Nat : \E h : Part(h, k)}
  <1>1. 0 \in T
    <2>1. Small(S, 0) = {{}}  BY SmallUpTo
    <2>2. Part([s \in Small(S, 0) |-> b], 0)  BY <2>1
    <2> QED BY <2>2
  <1>2. ASSUME NEW k \in Nat, k \in T PROVE k + 1 \in T
    <2>1. PICK h : Part(h, k)  BY <1>2
    <2>2. PICK f : f = [s \in Small(S, k + 1) |-> After(h, s)]  OBVIOUS
    <2>3. \A s \in Small(S, k) : s \in Small(S, k + 1)  BY SmallUpTo
    <2>4. \A s \in Small(S, k + 1) : s # {} => s \ {Max(s)} \in Small(S, k)  BY SmallUpTo
    <2>5. \A s \in Small(S, k) : f[s] = h[s]  BY <2>1, <2>2, <2>3
    <2>6. \A s \in Small(S, k + 1) : After(f, s) = After(h, s)  BY <2>4, <2>5
    <2>7. Part(f, k + 1)  BY <2>2, <2>6
    <2>8. k + 1 \in Nat  OBVIOUS
    <2> HIDE DEF Part
    <2> QED BY <2>7, <2>8
  <1>3. \E h : Goes(h)
    <2> HIDE DEF T
    <2>1. n \in T  BY <1>1, <1>2, ByInduction
    <2>2. Small(S, n) = SUBSET S  BY SmallUpTo
    <2> QED BY <2>1, <2>2 DEF T
  <1> HIDE DEF T
  <1>4. Goes(g)  BY <1>3
  <1>5. FoldLeft(ToOneClient, b, seq) = g[S]  BY DEF FoldLeft, MapThenFoldSet
  <1>6. \A s \in SUBSET S : g[s] = After(g, s)  BY <1>4
  <1> HIDE DEF g
  <1> DEFINE I == {k \in Nat : k <= n => g[1..k] \in D[k]}
  <1>7. 0 \in I
    <2>1. 1..0 = {} /\ {} \in SUBSET S  OBVIOUS
    <2>2. g[{}] = b  BY <1>6, <2>1
    <2> QED BY <2>1, <2>2
  <1>8. ASSUME NEW k \in Nat, k \in I PROVE k + 1 \in I
    <2> SUFFICES ASSUME k + 1 <= n PROVE g[1..(k + 1)] \in D[k + 1]
      OBVIOUS
    <2>1. Max(1..(k + 1)) = k + 1  BY MaxUpTo
    <2>2. 1..(k + 1) \in SUBSET S /\ 1..(k + 1) # {} /\ (1..(k + 1)) \ {k + 1} = 1..k
      BY UpToLess
    <2>3. g[1..(k + 1)] = ToOneClient(g[1..k], seq[k + 1])
      <3>1. PICK s : s = 1..(k + 1)  OBVIOUS
      <3>2. g[s] = ToOneClient(g[s \ {Max(s)}], seq[Max(s)])  BY <1>6, <2>2, <3>1
      <3> QED BY <2>1, <2>2, <3>1, <3>2
    <2>4. g[1..k] \in D[k]  BY <1>8
    <2>5. PICK e : e = k + 1  OBVIOUS
    <2>6. e \in 1..n /\ e - 1 = k  BY <2>5
    <2>7. ToOneClient(g[1..k], seq[e]) \in D[e]  BY <2>4, <2>6
    <2> QED BY <2>3, <2>5, <2>7
  <1> HIDE DEF I
  <1>9. n \in I  BY <1>7, <1>8, ByInduction
  <1> QED BY <1>5, <1>9 DEF I

\* The same, for the calls of a chunk sent to a Claude client.
LEMMA ClaudeToolCallFolds ==
    ASSUME NEW b, NEW n \in Nat, NEW seq, DOMAIN seq = 1..n,
           NEW D, b \in D[0],
           \A k \in 1..n : \A v \in D[k - 1] : ClaudeToolCall(v, seq[k]) \in D[k]
    PROVE  FoldLeft(ClaudeToolCall, b, seq) \in D[n]
  <1> DEFINE S == 1..n
             After(h, s) == IF s = {} THEN b ELSE ClaudeToolCall(h[s \ {Max(s)}], seq[Max(s)])
             Goes(h) == h = [s \in SUBSET S |-> After(h, s)]
             g == CHOOSE h : Goes(h)
             Part(h, k) == h = [s \in Small(S, k) |-> After(h, s)]
             T == {k \in Nat : \E h : Part(h, k)}
  <1>1. 0 \in T
    <2>1. Small(S, 0) = {{}}  BY SmallUpTo
    <2>2. Part([s \in Small(S, 0) |-> b], 0)  BY <2>1
    <2> QED BY <2>2
  <1>2. ASSUME NEW k \in Nat, k \in T PROVE k + 1 \in T
    <2>1. PICK h : Part(h, k)  BY <1>2
    <2>2. PICK f : f = [s \in Small(S, k + 1) |-> After(h, s)]  OBVIOUS
    <2>3. \A s \in Small(S, k) : s \in Small(S, k + 1)  BY SmallUpTo
    <2>4. \A s \in Small(S, k + 1) : s # {} => s \ {Max(s)} \in Small(S, k)  BY SmallUpTo
    <2>5. \A s \in Small(S, k) : f[s] = h[s]  BY <2>1, <2>2, <2>3
    <2>6. \A s \in Small(S, k + 1) : After(f, s) = After(h, s)  BY <2>4, <2>5
    <2>7. Part(f, k + 1)  BY <2>2, <2>6
    <2>8. k + 1 \in Nat  OBVIOUS
    <2> HIDE DEF Part
    <2> QED BY <2>7, <2>8
  <1>3. \E h : Goes(h)
    <2> HIDE DEF T
    <2>1. n \in T  BY <1>1, <1>2, ByInduction
    <2>2. Small(S, n) = SUBSET S  BY SmallUpTo
    <2> QED BY <2>1, <2>2 DEF T
  <1> HIDE DEF T
  <1>4. Goes(g)  BY <1>3
  <1>5. FoldLeft(ClaudeToolCall, b, seq) = g[S]  BY DEF FoldLeft, MapThenFoldSet
  <1>6. \A s \in SUBSET S : g[s] = After(g, s)  BY <1>4
  <1> HIDE DEF g
  <1> DEFINE I == {k \in Nat : k <= n => g[1..k] \in D[k]}
  <1>7. 0 \in I
    <2>1. 1..0 = {} /\ {} \in SUBSET S  OBVIOUS
    <2>2. g[{}] = b  BY <1>6, <2>1
    <2> QED BY <2>1, <2>2
  <1>8. ASSUME NEW k \in Nat, k \in I PROVE k + 1 \in I
    <2> SUFFICES ASSUME k + 1 <= n PROVE g[1..(k + 1)] \in D[k + 1]
      OBVIOUS
    <2>1. Max(1..(k + 1)) = k + 1  BY MaxUpTo
    <2>2. 1..(k + 1) \in SUBSET S /\ 1..(k + 1) # {} /\ (1..(k + 1)) \ {k + 1} = 1..k
      BY UpToLess
    <2>3. g[1..(k + 1)] = ClaudeToolCall(g[1..k], seq[k + 1])
      <3>1. PICK s : s = 1..(k + 1)  OBVIOUS
      <3>2. g[s] = ClaudeToolCall(g[s \ {Max(s)}], seq[Max(s)])  BY <1>6, <2>2, <3>1
      <3> QED BY <2>1, <2>2, <3>1, <3>2
    <2>4. g[1..k] \in D[k]  BY <1>8
    <2>5. PICK e : e = k + 1  OBVIOUS
    <2>6. e \in 1..n /\ e - 1 = k  BY <2>5
    <2>7. ClaudeToolCall(g[1..k], seq[e]) \in D[e]  BY <2>4, <2>6
    <2> QED BY <2>3, <2>5, <2>7
  <1> HIDE DEF I
  <1>9. n \in I  BY <1>7, <1>8, ByInduction
  <1> QED BY <1>5, <1>9 DEF I

\* The same, for the calls closed when a Claude message finishes.
LEMMA CloseClaudeCallFolds ==
    ASSUME NEW b, NEW n \in Nat, NEW seq, DOMAIN seq = 1..n,
           NEW D, b \in D[0],
           \A k \in 1..n : \A v \in D[k - 1] : CloseClaudeCall(v, seq[k]) \in D[k]
    PROVE  FoldLeft(CloseClaudeCall, b, seq) \in D[n]
  <1> DEFINE S == 1..n
             After(h, s) == IF s = {} THEN b ELSE CloseClaudeCall(h[s \ {Max(s)}], seq[Max(s)])
             Goes(h) == h = [s \in SUBSET S |-> After(h, s)]
             g == CHOOSE h : Goes(h)
             Part(h, k) == h = [s \in Small(S, k) |-> After(h, s)]
             T == {k \in Nat : \E h : Part(h, k)}
  <1>1. 0 \in T
    <2>1. Small(S, 0) = {{}}  BY SmallUpTo
    <2>2. Part([s \in Small(S, 0) |-> b], 0)  BY <2>1
    <2> QED BY <2>2
  <1>2. ASSUME NEW k \in Nat, k \in T PROVE k + 1 \in T
    <2>1. PICK h : Part(h, k)  BY <1>2
    <2>2. PICK f : f = [s \in Small(S, k + 1) |-> After(h, s)]  OBVIOUS
    <2>3. \A s \in Small(S, k) : s \in Small(S, k + 1)  BY SmallUpTo
    <2>4. \A s \in Small(S, k + 1) : s # {} => s \ {Max(s)} \in Small(S, k)  BY SmallUpTo
    <2>5. \A s \in Small(S, k) : f[s] = h[s]  BY <2>1, <2>2, <2>3
    <2>6. \A s \in Small(S, k + 1) : After(f, s) = After(h, s)  BY <2>4, <2>5
    <2>7. Part(f, k + 1)  BY <2>2, <2>6
    <2>8. k + 1 \in Nat  OBVIOUS
    <2> HIDE DEF Part
    <2> QED BY <2>7, <2>8
  <1>3. \E h : Goes(h)
    <2> HIDE DEF T
    <2>1. n \in T  BY <1>1, <1>2, ByInduction
    <2>2. Small(S, n) = SUBSET S  BY SmallUpTo
    <2> QED BY <2>1, <2>2 DEF T
  <1> HIDE DEF T
  <1>4. Goes(g)  BY <1>3
  <1>5. FoldLeft(CloseClaudeCall, b, seq) = g[S]  BY DEF FoldLeft, MapThenFoldSet
  <1>6. \A s \in SUBSET S : g[s] = After(g, s)  BY <1>4
  <1> HIDE DEF g
  <1> DEFINE I == {k \in Nat : k <= n => g[1..k] \in D[k]}
  <1>7. 0 \in I
    <2>1. 1..0 = {} /\ {} \in SUBSET S  OBVIOUS
    <2>2. g[{}] = b  BY <1>6, <2>1
    <2> QED BY <2>1, <2>2
  <1>8. ASSUME NEW k \in Nat, k \in I PROVE k + 1 \in I
    <2> SUFFICES ASSUME k + 1 <= n PROVE g[1..(k + 1)] \in D[k + 1]
      OBVIOUS
    <2>1. Max(1..(k + 1)) = k + 1  BY MaxUpTo
    <2>2. 1..(k + 1) \in SUBSET S /\ 1..(k + 1) # {} /\ (1..(k + 1)) \ {k + 1} = 1..k
      BY UpToLess
    <2>3. g[1..(k + 1)] = CloseClaudeCall(g[1..k], seq[k + 1])
      <3>1. PICK s : s = 1..(k + 1)  OBVIOUS
      <3>2. g[s] = CloseClaudeCall(g[s \ {Max(s)}], seq[Max(s)])  BY <1>6, <2>2, <3>1
      <3> QED BY <2>1, <2>2, <3>1, <3>2
    <2>4. g[1..k] \in D[k]  BY <1>8
    <2>5. PICK e : e = k + 1  OBVIOUS
    <2>6. e \in 1..n /\ e - 1 = k  BY <2>5
    <2>7. CloseClaudeCall(g[1..k], seq[e]) \in D[e]  BY <2>4, <2>6
    <2> QED BY <2>3, <2>5, <2>7
  <1> HIDE DEF I
  <1>9. n \in I  BY <1>7, <1>8, ByInduction
  <1> QED BY <1>5, <1>9 DEF I

\* The same, for the calls of a chunk sent to a Responses client.
LEMMA ResponsesToolCallFolds ==
    ASSUME NEW b, NEW n \in Nat, NEW seq, DOMAIN seq = 1..n,
           NEW D, b \in D[0],
           \A k \in 1..n : \A v \in D[k - 1] : ResponsesToolCall(v, seq[k]) \in D[k]
    PROVE  FoldLeft(ResponsesToolCall, b, seq) \in D[n]
  <1> DEFINE S == 1..n
             After(h, s) == IF s = {} THEN b ELSE ResponsesToolCall(h[s \ {Max(s)}], seq[Max(s)])
             Goes(h) == h = [s \in SUBSET S |-> After(h, s)]
             g == CHOOSE h : Goes(h)
             Part(h, k) == h = [s \in Small(S, k) |-> After(h, s)]
             T == {k \in Nat : \E h : Part(h, k)}
  <1>1. 0 \in T
    <2>1. Small(S, 0) = {{}}  BY SmallUpTo
    <2>2. Part([s \in Small(S, 0) |-> b], 0)  BY <2>1
    <2> QED BY <2>2
  <1>2. ASSUME NEW k \in Nat, k \in T PROVE k + 1 \in T
    <2>1. PICK h : Part(h, k)  BY <1>2
    <2>2. PICK f : f = [s \in Small(S, k + 1) |-> After(h, s)]  OBVIOUS
    <2>3. \A s \in Small(S, k) : s \in Small(S, k + 1)  BY SmallUpTo
    <2>4. \A s \in Small(S, k + 1) : s # {} => s \ {Max(s)} \in Small(S, k)  BY SmallUpTo
    <2>5. \A s \in Small(S, k) : f[s] = h[s]  BY <2>1, <2>2, <2>3
    <2>6. \A s \in Small(S, k + 1) : After(f, s) = After(h, s)  BY <2>4, <2>5
    <2>7. Part(f, k + 1)  BY <2>2, <2>6
    <2>8. k + 1 \in Nat  OBVIOUS
    <2> HIDE DEF Part
    <2> QED BY <2>7, <2>8
  <1>3. \E h : Goes(h)
    <2> HIDE DEF T
    <2>1. n \in T  BY <1>1, <1>2, ByInduction
    <2>2. Small(S, n) = SUBSET S  BY SmallUpTo
    <2> QED BY <2>1, <2>2 DEF T
  <1> HIDE DEF T
  <1>4. Goes(g)  BY <1>3
  <1>5. FoldLeft(ResponsesToolCall, b, seq) = g[S]  BY DEF FoldLeft, MapThenFoldSet
  <1>6. \A s \in SUBSET S : g[s] = After(g, s)  BY <1>4
  <1> HIDE DEF g
  <1> DEFINE I == {k \in Nat : k <= n => g[1..k] \in D[k]}
  <1>7. 0 \in I
    <2>1. 1..0 = {} /\ {} \in SUBSET S  OBVIOUS
    <2>2. g[{}] = b  BY <1>6, <2>1
    <2> QED BY <2>1, <2>2
  <1>8. ASSUME NEW k \in Nat, k \in I PROVE k + 1 \in I
    <2> SUFFICES ASSUME k + 1 <= n PROVE g[1..(k + 1)] \in D[k + 1]
      OBVIOUS
    <2>1. Max(1..(k + 1)) = k + 1  BY MaxUpTo
    <2>2. 1..(k + 1) \in SUBSET S /\ 1..(k + 1) # {} /\ (1..(k + 1)) \ {k + 1} = 1..k
      BY UpToLess
    <2>3. g[1..(k + 1)] = ResponsesToolCall(g[1..k], seq[k + 1])
      <3>1. PICK s : s = 1..(k + 1)  OBVIOUS
      <3>2. g[s] = ResponsesToolCall(g[s \ {Max(s)}], seq[Max(s)])  BY <1>6, <2>2, <3>1
      <3> QED BY <2>1, <2>2, <3>1, <3>2
    <2>4. g[1..k] \in D[k]  BY <1>8
    <2>5. PICK e : e = k + 1  OBVIOUS
    <2>6. e \in 1..n /\ e - 1 = k  BY <2>5
    <2>7. ResponsesToolCall(g[1..k], seq[e]) \in D[e]  BY <2>4, <2>6
    <2> QED BY <2>3, <2>5, <2>7
  <1> HIDE DEF I
  <1>9. n \in I  BY <1>7, <1>8, ByInduction
  <1> QED BY <1>5, <1>9 DEF I

\* The same, for the calls merged into a JSON body.
LEMMA MergeToolCallFolds ==
    ASSUME NEW b, NEW n \in Nat, NEW seq, DOMAIN seq = 1..n,
           NEW D, b \in D[0],
           \A k \in 1..n : \A v \in D[k - 1] : MergeToolCall(v, seq[k]) \in D[k]
    PROVE  FoldLeft(MergeToolCall, b, seq) \in D[n]
  <1> DEFINE S == 1..n
             After(h, s) == IF s = {} THEN b ELSE MergeToolCall(h[s \ {Max(s)}], seq[Max(s)])
             Goes(h) == h = [s \in SUBSET S |-> After(h, s)]
             g == CHOOSE h : Goes(h)
             Part(h, k) == h = [s \in Small(S, k) |-> After(h, s)]
             T == {k \in Nat : \E h : Part(h, k)}
  <1>1. 0 \in T
    <2>1. Small(S, 0) = {{}}  BY SmallUpTo
    <2>2. Part([s \in Small(S, 0) |-> b], 0)  BY <2>1
    <2> QED BY <2>2
  <1>2. ASSUME NEW k \in Nat, k \in T PROVE k + 1 \in T
    <2>1. PICK h : Part(h, k)  BY <1>2
    <2>2. PICK f : f = [s \in Small(S, k + 1) |-> After(h, s)]  OBVIOUS
    <2>3. \A s \in Small(S, k) : s \in Small(S, k + 1)  BY SmallUpTo
    <2>4. \A s \in Small(S, k + 1) : s # {} => s \ {Max(s)} \in Small(S, k)  BY SmallUpTo
    <2>5. \A s \in Small(S, k) : f[s] = h[s]  BY <2>1, <2>2, <2>3
    <2>6. \A s \in Small(S, k + 1) : After(f, s) = After(h, s)  BY <2>4, <2>5
    <2>7. Part(f, k + 1)  BY <2>2, <2>6
    <2>8. k + 1 \in Nat  OBVIOUS
    <2> HIDE DEF Part
    <2> QED BY <2>7, <2>8
  <1>3. \E h : Goes(h)
    <2> HIDE DEF T
    <2>1. n \in T  BY <1>1, <1>2, ByInduction
    <2>2. Small(S, n) = SUBSET S  BY SmallUpTo
    <2> QED BY <2>1, <2>2 DEF T
  <1> HIDE DEF T
  <1>4. Goes(g)  BY <1>3
  <1>5. FoldLeft(MergeToolCall, b, seq) = g[S]  BY DEF FoldLeft, MapThenFoldSet
  <1>6. \A s \in SUBSET S : g[s] = After(g, s)  BY <1>4
  <1> HIDE DEF g
  <1> DEFINE I == {k \in Nat : k <= n => g[1..k] \in D[k]}
  <1>7. 0 \in I
    <2>1. 1..0 = {} /\ {} \in SUBSET S  OBVIOUS
    <2>2. g[{}] = b  BY <1>6, <2>1
    <2> QED BY <2>1, <2>2
  <1>8. ASSUME NEW k \in Nat, k \in I PROVE k + 1 \in I
    <2> SUFFICES ASSUME k + 1 <= n PROVE g[1..(k + 1)] \in D[k + 1]
      OBVIOUS
    <2>1. Max(1..(k + 1)) = k + 1  BY MaxUpTo
    <2>2. 1..(k + 1) \in SUBSET S /\ 1..(k + 1) # {} /\ (1..(k + 1)) \ {k + 1} = 1..k
      BY UpToLess
    <2>3. g[1..(k + 1)] = MergeToolCall(g[1..k], seq[k + 1])
      <3>1. PICK s : s = 1..(k + 1)  OBVIOUS
      <3>2. g[s] = MergeToolCall(g[s \ {Max(s)}], seq[Max(s)])  BY <1>6, <2>2, <3>1
      <3> QED BY <2>1, <2>2, <3>1, <3>2
    <2>4. g[1..k] \in D[k]  BY <1>8
    <2>5. PICK e : e = k + 1  OBVIOUS
    <2>6. e \in 1..n /\ e - 1 = k  BY <2>5
    <2>7. MergeToolCall(g[1..k], seq[e]) \in D[e]  BY <2>4, <2>6
    <2> QED BY <2>3, <2>5, <2>7
  <1> HIDE DEF I
  <1>9. n \in I  BY <1>7, <1>8, ByInduction
  <1> QED BY <1>5, <1>9 DEF I

Kinds == {"none", "text", "thought", "call", "stop", "tool_calls"}
FrameTypes == {"message_start", "block_start", "block_delta", "block_stop", "message_delta",
               "message_stop", "created", "added", "delta", "done", "completed"}
Frames == [t : FrameTypes, id : Int, kind : Kinds, ps : Seq(Int)]
Finishes == {"none", "stop", "tool_calls"}
CallParts == [index : Int, opens : BOOLEAN, ps : Seq(Int)]
Chunks == [t : {"chunk"}, text : Seq(Int), thought : Seq(Int), calls : Seq(CallParts),
           finish : Finishes]

Was(s, i, t, id, kind) ==
    \E j \in 1..(i - 1) : s[j].t = t /\ s[j].id = id /\ s[j].kind = kind
Has(s, t, id, kind) == Was(s, Len(s) + 1, t, id, kind)
NoEnd(s) == \A j \in DOMAIN s : ~Ends(s[j])

\* What appending a frame leaves as it was.
LEMMA AppendKeeps ==
    ASSUME NEW X, NEW s \in Seq(X), NEW f \in X
    PROVE  /\ Append(s, f) \in Seq(X) /\ Len(Append(s, f)) = Len(s) + 1
           /\ DOMAIN Append(s, f) = 1..(Len(s) + 1) /\ DOMAIN s = 1..Len(s)
           /\ Append(s, f)[Len(s) + 1] = f
           /\ \A i \in 1..Len(s) : Append(s, f)[i] = s[i]
           /\ Len(s) \in Nat
  OBVIOUS

\* What was sent before position i does not change when a frame is appended.
LEMMA AppendWas ==
    ASSUME NEW X, NEW s \in Seq(X), NEW f \in X, NEW i \in 1..(Len(s) + 1),
           NEW t, NEW id, NEW kind
    PROVE  Was(Append(s, f), i, t, id, kind) <=> Was(s, i, t, id, kind)
  <1>1. \A j \in 1..(i - 1) : Append(s, f)[j] = s[j]
    <2>1. \A j \in 1..(i - 1) : j \in 1..Len(s)  BY AppendKeeps
    <2> QED BY <2>1, AppendKeeps
  <1> QED BY <1>1 DEF Was

\* A frame is among those sent if it was before, or is the one appended.
LEMMA AppendHas ==
    ASSUME NEW X, NEW s \in Seq(X), NEW f \in X, NEW t, NEW id, NEW kind
    PROVE  Has(Append(s, f), t, id, kind)
              <=> Has(s, t, id, kind) \/ (f.t = t /\ f.id = id /\ f.kind = kind)
  <1> PICK z : z = Append(s, f)  OBVIOUS
  <1> PICK n \in Nat : n = Len(s)  BY AppendKeeps
  <1>1. Len(z) = n + 1 /\ z[n + 1] = f /\ \A i \in 1..n : z[i] = s[i]
    BY AppendKeeps
  <1>2. Has(z, t, id, kind) <=> \E j \in 1..(n + 1) : z[j].t = t /\ z[j].id = id /\ z[j].kind = kind
    <2>1. (Len(z) + 1) - 1 = n + 1  BY <1>1
    <2> QED BY <2>1 DEF Has, Was
  <1>3. Has(s, t, id, kind) <=> \E j \in 1..n : s[j].t = t /\ s[j].id = id /\ s[j].kind = kind
    <2>1. (Len(s) + 1) - 1 = n  OBVIOUS
    <2> QED BY <2>1 DEF Has, Was
  <1>4. 1..(n + 1) = (1..n) \cup {n + 1}  OBVIOUS
  <1> QED BY <1>1, <1>2, <1>3, <1>4

\* A message goes on unless the frame appended ends it.
LEMMA AppendEnds ==
    ASSUME NEW X, NEW s \in Seq(X), NEW f \in X
    PROVE  NoEnd(Append(s, f)) <=> NoEnd(s) /\ ~Ends(f)
  <1> PICK z : z = Append(s, f)  OBVIOUS
  <1> PICK n \in Nat : n = Len(s)  BY AppendKeeps
  <1>1. /\ z[n + 1] = f /\ \A i \in 1..n : z[i] = s[i]
        /\ DOMAIN z = 1..(n + 1) /\ DOMAIN s = 1..n
    BY AppendKeeps
  <1>2. 1..(n + 1) = (1..n) \cup {n + 1}  OBVIOUS
  <1> QED BY <1>1, <1>2 DEF NoEnd

Opens(s, id, kind) == Has(s, "block_start", id, kind) /\ ~Has(s, "block_stop", id, kind)
Below(s, n) == \A j \in DOMAIN s : s[j].t = "block_start" => s[j].id < n

ClaudeFits(s, i) ==
    /\ (s[i].t = "message_start") = (i = 1)
    /\ s[i].t = "block_start" =>
          \A j \in 1..(i - 1) : s[j].t = "block_start" => s[j].id < s[i].id
    /\ s[i].t \in {"block_delta", "block_stop"} =>
          /\ Was(s, i, "block_start", s[i].id, s[i].kind)
          /\ ~Was(s, i, "block_stop", s[i].id, s[i].kind)
    /\ s[i].t = "message_stop" =>
          \A j \in 1..(i - 1) : s[j].t = "block_start" =>
                                    Was(s, i, "block_stop", s[j].id, s[j].kind)
ClaudeParses(s) ==
    \A i \in DOMAIN s : (\A j \in 1..(i - 1) : ~Ends(s[j])) => ClaudeFits(s, i)

FitsAfter(s, f) ==
    /\ (f.t = "message_start") = (s = <<>>)
    /\ f.t = "block_start" => Below(s, f.id)
    /\ f.t \in {"block_delta", "block_stop"} => Opens(s, f.id, f.kind)
    /\ f.t = "message_stop" => \A id \in Int, kind \in Kinds : ~Opens(s, id, kind)

\* What a Claude client can parse stays so if the next frame fits, or if the
\* message was over already.
LEMMA ClaudeAppend ==
    ASSUME NEW s \in Seq(Frames), NEW f \in Frames, ClaudeParses(s),
           NoEnd(s) => FitsAfter(s, f)
    PROVE  ClaudeParses(Append(s, f))
  <1> PICK z : z = Append(s, f)  OBVIOUS
  <1> PICK n \in Nat : n = Len(s)  BY AppendKeeps
  <1>1. /\ z[n + 1] = f /\ \A i \in 1..n : z[i] = s[i]
        /\ DOMAIN z = 1..(n + 1) /\ DOMAIN s = 1..n
    BY AppendKeeps
  <1>2. \A i \in 1..(n + 1) : \A t, id, kind : Was(z, i, t, id, kind) <=> Was(s, i, t, id, kind)
    BY AppendWas
  <1>3. ASSUME NEW i \in 1..n, \A j \in 1..(i - 1) : ~Ends(z[j]) PROVE ClaudeFits(z, i)
    <2>1. \A j \in 1..(i - 1) : z[j] = s[j]
      <3>1. \A j \in 1..(i - 1) : j \in 1..n  OBVIOUS
      <3> QED BY <1>1, <3>1
    <2>2. ClaudeFits(s, i)  BY <1>1, <1>3, <2>1 DEF ClaudeParses
    <2>3. i \in 1..(n + 1) /\ z[i] = s[i]  BY <1>1
    <2> QED BY <1>2, <2>1, <2>2, <2>3 DEF ClaudeFits
  <1>4. ASSUME \A j \in 1..((n + 1) - 1) : ~Ends(z[j]) PROVE ClaudeFits(z, n + 1)
    <2>1. (n + 1) - 1 = n /\ n + 1 \in 1..(n + 1)  OBVIOUS
    <2>2. NoEnd(s)  BY <1>1, <1>4, <2>1 DEF NoEnd
    <2>3. FitsAfter(s, f)  BY <2>2
    <2>4. (n + 1 = 1) <=> s = <<>>
      <3>1. s = <<>> <=> n = 0  OBVIOUS
      <3> QED BY <3>1
    <2>5. \A t, id, kind : Was(z, n + 1, t, id, kind) <=> Has(s, t, id, kind)
      BY <1>2, <2>1 DEF Has
    <2>6. \A j \in 1..n : s[j] \in Frames  OBVIOUS
    <2>7. \A j \in 1..n : s[j].t = "block_start" => Has(s, "block_start", s[j].id, s[j].kind)
      <3>1. (Len(s) + 1) - 1 = n  OBVIOUS
      <3> QED BY <3>1 DEF Has, Was
    <2>8. \A j \in 1..n : s[j].id \in Int /\ s[j].kind \in Kinds  BY <2>6 DEF Frames
    <2>9. (f.t = "message_start") = (n + 1 = 1)  BY <2>3, <2>4 DEF FitsAfter
    <2>10. f.t = "block_start" => \A j \in 1..n : z[j].t = "block_start" => z[j].id < f.id
      BY <1>1, <2>3 DEF FitsAfter, Below
    <2>11. f.t \in {"block_delta", "block_stop"} =>
              /\ Was(z, n + 1, "block_start", f.id, f.kind)
              /\ ~Was(z, n + 1, "block_stop", f.id, f.kind)
      BY <2>3, <2>5 DEF FitsAfter, Opens
    <2>12. f.t = "message_stop" =>
              \A j \in 1..n : z[j].t = "block_start" => Was(z, n + 1, "block_stop", z[j].id, z[j].kind)
      <3> SUFFICES ASSUME f.t = "message_stop", NEW j \in 1..n, s[j].t = "block_start"
                   PROVE  Has(s, "block_stop", s[j].id, s[j].kind)
        BY <1>1, <2>5
      <3>1. ~Opens(s, s[j].id, s[j].kind)  BY <2>3, <2>8 DEF FitsAfter
      <3> QED BY <2>7, <3>1 DEF Opens
    <2> QED BY <1>1, <2>1, <2>9, <2>10, <2>11, <2>12 DEF ClaudeFits
  <1>5. \A i \in 1..(n + 1) : i \in 1..n \/ i = n + 1  OBVIOUS
  <1> QED BY <1>1, <1>3, <1>4, <1>5 DEF ClaudeParses

ClaudeCalls == [index : Int, block : Nat, ps : Seq(Int)]
ClaudeStates == [sent : BOOLEAN, next : Nat, thought : Nat \cup {Unset}, text : Nat \cup {Unset},
                 calls : Seq(ClaudeCalls), out : Seq(Frames)]

IsOpen(c, id, kind) ==
    \/ kind = "thought" /\ c.thought # Unset /\ id = c.thought
    \/ kind = "text" /\ c.text # Unset /\ id = c.text
    \/ kind = "call" /\ \E k \in DOMAIN c.calls : c.calls[k].block = id
Apart(c) == \A j, k \in DOMAIN c.calls : c.calls[j].block = c.calls[k].block => j = k

InStep(s, c) ==
    /\ c.sent <=> s # <<>>
    /\ Below(s, c.next)
    /\ \A id \in Int, kind \in Kinds : Opens(s, id, kind) <=> IsOpen(c, id, kind)
    /\ \A id, kind : Has(s, "block_stop", id, kind) => Has(s, "block_start", id, kind)
    /\ Apart(c)

ClaudeSound(s, R, e) ==
    /\ s \in Seq(Frames)
    /\ \A i \in DOMAIN s : s[i].t # "done" /\ (s[i].t = "message_delta" => s[i].kind \in R)
    /\ ClaudeParses(s)
    /\ e => ~NoEnd(s)
ClaudeInv(h, c, R, e) ==
    /\ c \in ClaudeStates
    /\ ClaudeSound(h \o c.out, R, e)
    /\ NoEnd(h \o c.out) => InStep(h \o c.out, c)

\* An index of a longer sequence is one of the shorter, or the new one.
LEMMA UpToNext == ASSUME NEW n \in Nat, NEW i \in 1..(n + 1) PROVE i \in 1..n \/ i = n + 1
  OBVIOUS

\* Block indices stay below m if the next one is.
LEMMA AppendBelow ==
    ASSUME NEW X, NEW s \in Seq(X), NEW f \in X, NEW m
    PROVE  Below(Append(s, f), m) <=> Below(s, m) /\ (f.t = "block_start" => f.id < m)
  <1> PICK z : z = Append(s, f)  OBVIOUS
  <1> PICK n \in Nat : n = Len(s)  BY AppendKeeps
  <1>1. /\ z[n + 1] = f /\ \A i \in 1..n : z[i] = s[i]
        /\ DOMAIN z = 1..(n + 1) /\ DOMAIN s = 1..n
    BY AppendKeeps
  <1>2. 1..(n + 1) = (1..n) \cup {n + 1}  OBVIOUS
  <1> QED BY <1>1, <1>2 DEF Below

\* An index above every block started is that of no block.
LEMMA FreshBlock ==
    ASSUME NEW X, NEW s \in Seq(X), NEW n \in Nat, Below(s, n), NEW kind
    PROVE  ~Has(s, "block_start", n, kind)
  <1> SUFFICES ASSUME Has(s, "block_start", n, kind) PROVE FALSE
    OBVIOUS
  <1>1. PICK j \in 1..((Len(s) + 1) - 1) : s[j].t = "block_start" /\ s[j].id = n
    BY DEF Has, Was
  <1>2. j \in DOMAIN s  OBVIOUS
  <1>3. s[j].id < n  BY <1>1, <1>2 DEF Below
  <1> QED BY <1>1, <1>3

\* Nothing has been sent yet.
LEMMA EmptyHas == ASSUME NEW t, NEW id, NEW kind PROVE ~Has(<<>>, t, id, kind)
  <1>1. 1..((Len(<<>>) + 1) - 1) = {}  OBVIOUS
  <1> QED BY <1>1 DEF Has, Was

\* A sequence with a frame appended is not empty.
LEMMA AppendNotEmpty ==
    ASSUME NEW X, NEW s \in Seq(X), NEW f \in X PROVE Append(s, f) # <<>>
  <1>1. Len(Append(s, f)) = Len(s) + 1 /\ Len(s) \in Nat  BY AppendKeeps
  <1>2. Len(<<>>) = 0  OBVIOUS
  <1> QED BY <1>1, <1>2

\* A frame that neither starts nor stops a block leaves the state in step.
LEMMA OtherInStep ==
    ASSUME NEW s \in Seq(Frames), NEW f \in Frames, NEW c, NEW d, InStep(s, c),
           f.t \notin {"block_start", "block_stop"}, d.sent = TRUE, d.next = c.next,
           d.thought = c.thought, d.text = c.text, d.calls = c.calls
    PROVE  InStep(Append(s, f), d)
  <1>1. \A t \in {"block_start", "block_stop"} : \A id, kind :
              Has(Append(s, f), t, id, kind) <=> Has(s, t, id, kind)
    BY AppendHas
  <1>2. Below(Append(s, f), d.next)  BY AppendBelow DEF InStep
  <1>3. \A id, kind : IsOpen(d, id, kind) <=> IsOpen(c, id, kind)  BY DEF IsOpen
  <1>4. Apart(d)  BY DEF InStep, Apart
  <1>5. \A id, kind : Opens(Append(s, f), id, kind) <=> Opens(s, id, kind)  BY <1>1 DEF Opens
  <1> QED BY <1>1, <1>2, <1>3, <1>4, <1>5, AppendNotEmpty DEF InStep

\* A frame that stops a block, when the state notes that it has.
LEMMA StopInStep ==
    ASSUME NEW s \in Seq(Frames), NEW f \in Frames, NEW c, NEW d, InStep(s, c),
           f.t = "block_stop", Opens(s, f.id, f.kind), d.sent = TRUE, d.next = c.next, Apart(d),
           \A id \in Int, kind \in Kinds :
               IsOpen(d, id, kind) <=> IsOpen(c, id, kind) /\ ~(id = f.id /\ kind = f.kind)
    PROVE  InStep(Append(s, f), d)
  <1>1. \A id, kind : Has(Append(s, f), "block_start", id, kind) <=> Has(s, "block_start", id, kind)
    BY AppendHas
  <1>2. \A id, kind : Has(Append(s, f), "block_stop", id, kind)
                          <=> Has(s, "block_stop", id, kind) \/ (f.id = id /\ f.kind = kind)
    BY AppendHas
  <1>3. Below(Append(s, f), d.next)  BY AppendBelow DEF InStep
  <1>4. \A id \in Int, kind \in Kinds : Opens(Append(s, f), id, kind) <=> IsOpen(d, id, kind)
    <2> SUFFICES ASSUME NEW id \in Int, NEW kind \in Kinds
                 PROVE  Opens(Append(s, f), id, kind) <=> IsOpen(d, id, kind)
      OBVIOUS
    <2>1. Opens(s, id, kind) <=> IsOpen(c, id, kind)  BY DEF InStep
    <2>2. Opens(Append(s, f), id, kind) <=> Opens(s, id, kind) /\ ~(id = f.id /\ kind = f.kind)
      BY <1>1, <1>2 DEF Opens
    <2> QED BY <2>1, <2>2
  <1>5. \A id, kind : Has(Append(s, f), "block_stop", id, kind)
                          => Has(Append(s, f), "block_start", id, kind)
    BY <1>1, <1>2 DEF InStep, Opens
  <1> QED BY <1>3, <1>4, <1>5, AppendNotEmpty DEF InStep

\* A frame that starts a block, when the state notes that it has.
LEMMA StartInStep ==
    ASSUME NEW s \in Seq(Frames), NEW f \in Frames, NEW c, NEW d, InStep(s, c),
           c.next \in Nat, f.t = "block_start", f.id = c.next, d.sent = TRUE,
           d.next = c.next + 1, Apart(d),
           \A id \in Int, kind \in Kinds :
               IsOpen(d, id, kind) <=> IsOpen(c, id, kind) \/ (id = f.id /\ kind = f.kind)
    PROVE  InStep(Append(s, f), d)
  <1>1. \A id, kind : Has(Append(s, f), "block_stop", id, kind) <=> Has(s, "block_stop", id, kind)
    BY AppendHas
  <1>2. \A id, kind : Has(Append(s, f), "block_start", id, kind)
                          <=> Has(s, "block_start", id, kind) \/ (f.id = id /\ f.kind = kind)
    BY AppendHas
  <1>3. Below(Append(s, f), d.next)
    <2>1. Below(s, d.next)
      <3> SUFFICES ASSUME NEW j \in DOMAIN s, s[j].t = "block_start" PROVE s[j].id < d.next
        BY DEF Below
      <3>1. s[j].id < c.next  BY DEF InStep, Below
      <3>2. s[j] \in Frames  OBVIOUS
      <3>3. s[j].id \in Int  BY <3>2 DEF Frames
      <3> QED BY <3>1, <3>3
    <2>2. f.id < d.next  OBVIOUS
    <2> QED BY <2>1, <2>2, AppendBelow
  <1>4. ~Has(s, "block_start", f.id, f.kind) /\ ~Has(s, "block_stop", f.id, f.kind)
    BY FreshBlock DEF InStep
  <1>5. \A id \in Int, kind \in Kinds : Opens(Append(s, f), id, kind) <=> IsOpen(d, id, kind)
    <2> SUFFICES ASSUME NEW id \in Int, NEW kind \in Kinds
                 PROVE  Opens(Append(s, f), id, kind) <=> IsOpen(d, id, kind)
      OBVIOUS
    <2>1. Opens(s, id, kind) <=> IsOpen(c, id, kind)  BY DEF InStep
    <2>2. Opens(Append(s, f), id, kind) <=> Opens(s, id, kind) \/ (id = f.id /\ kind = f.kind)
      BY <1>1, <1>2, <1>4 DEF Opens
    <2> QED BY <2>1, <2>2
  <1>6. \A id, kind : Has(Append(s, f), "block_stop", id, kind)
                          => Has(Append(s, f), "block_start", id, kind)
    BY <1>1, <1>2 DEF InStep
  <1> QED BY <1>3, <1>5, <1>6, AppendNotEmpty DEF InStep

MayFollow(s, f, R) ==
    /\ f \in Frames /\ f.t # "done"
    /\ f.t = "message_delta" => f.kind \in R
    /\ NoEnd(s) => FitsAfter(s, f)

\* A frame that may follow keeps what a Claude client has sound.
LEMMA SoundGoesOn ==
    ASSUME NEW s, NEW R, NEW e, ClaudeSound(s, R, e), NEW f, MayFollow(s, f, R)
    PROVE  ClaudeSound(Append(s, f), R, e)
  <1>1. f \in Frames /\ s \in Seq(Frames)  BY DEF ClaudeSound, MayFollow
  <1>2. NoEnd(Append(s, f)) => NoEnd(s)  BY <1>1, AppendEnds
  <1>3. ClaudeParses(Append(s, f))  BY <1>1, ClaudeAppend DEF ClaudeSound, MayFollow
  <1>4. \A i \in DOMAIN Append(s, f) : \/ i \in DOMAIN s /\ Append(s, f)[i] = s[i]
                                       \/ Append(s, f)[i] = f
    <2> PICK n \in Nat : n = Len(s)  BY <1>1, AppendKeeps
    <2>1. /\ Append(s, f)[n + 1] = f /\ \A i \in 1..n : Append(s, f)[i] = s[i]
          /\ DOMAIN Append(s, f) = 1..(n + 1) /\ DOMAIN s = 1..n
      BY <1>1, AppendKeeps
    <2>2. \A i \in 1..(n + 1) : i \in 1..n \/ i = n + 1  BY UpToNext
    <2> QED BY <2>1, <2>2
  <1>5. Append(s, f) \in Seq(Frames)  BY <1>1
  <1> QED BY <1>2, <1>3, <1>4, <1>5 DEF ClaudeSound, MayFollow

\* The same with the state: the invariant outlives a frame that may follow,
\* when the state is in step with it.
LEMMA ClaudeGoesOn ==
    ASSUME NEW h \in Seq(Frames), NEW R, NEW e, NEW c, ClaudeInv(h, c, R, e),
           NEW f, MayFollow(h \o c.out, f, R), NEW d \in ClaudeStates, d.out = Append(c.out, f),
           NoEnd(h \o c.out) /\ f.t # "message_stop" => InStep(Append(h \o c.out, f), d)
    PROVE  ClaudeInv(h, d, R, e)
  <1>1. c.out \in Seq(Frames) /\ f \in Frames  BY DEF ClaudeInv, ClaudeStates, MayFollow
  <1>2. h \o d.out = Append(h \o c.out, f) /\ h \o c.out \in Seq(Frames)  BY <1>1
  <1>3. ClaudeSound(h \o d.out, R, e)  BY <1>2, SoundGoesOn DEF ClaudeInv
  <1>4. NoEnd(h \o d.out) => NoEnd(h \o c.out) /\ f.t # "message_stop"
    <2> PICK s : s = h \o c.out  OBVIOUS
    <2>1. s \in Seq(Frames)  BY <1>2
    <2>2. NoEnd(Append(s, f)) <=> NoEnd(s) /\ ~Ends(f)  BY <1>1, <2>1, AppendEnds
    <2> QED BY <1>2, <2>2 DEF Ends
  <1> QED BY <1>2, <1>3, <1>4 DEF ClaudeInv

\* Before the end of the message the state is in step with what was sent.
LEMMA StepsIn ==
    ASSUME NEW h, NEW R, NEW e, NEW c, ClaudeInv(h, c, R, e), NoEnd(h \o c.out)
    PROVE  InStep(h \o c.out, c) /\ h \o c.out \in Seq(Frames)
  BY DEF ClaudeInv, ClaudeSound

\* Every name of a frame and of a kind is one.
LEMMA Literals ==
    /\ <<>> \in Seq(Int) /\ 0 \in Int
    /\ "message_start" \in FrameTypes
    /\ "block_start" \in FrameTypes
    /\ "block_delta" \in FrameTypes
    /\ "block_stop" \in FrameTypes
    /\ "message_delta" \in FrameTypes
    /\ "message_stop" \in FrameTypes
    /\ "created" \in FrameTypes
    /\ "added" \in FrameTypes
    /\ "delta" \in FrameTypes
    /\ "done" \in FrameTypes
    /\ "completed" \in FrameTypes
    /\ "none" \in Kinds
    /\ "text" \in Kinds
    /\ "thought" \in Kinds
    /\ "call" \in Kinds
    /\ "stop" \in Kinds
    /\ "tool_calls" \in Kinds
  BY DEF FrameTypes, Kinds

\* message_start is sent once, first.
LEMMA MessageStartKeeps ==
    ASSUME NEW h \in Seq(Frames), NEW R, NEW e, NEW c, ClaudeInv(h, c, R, e)
    PROVE  ClaudeInv(h, MessageStart(c), R, e) /\ MessageStart(c).sent = TRUE
  <1>1. CASE c.sent
    BY <1>1 DEF MessageStart, ClaudeInv, ClaudeStates
  <1>2. CASE ~c.sent
    <2> PICK f : f = Frame("message_start", 0, "none", <<>>)  OBVIOUS
    <2> PICK d : d = MessageStart(c)  OBVIOUS
    <2>1. c \in ClaudeStates  BY DEF ClaudeInv
    <2>2. /\ f \in Frames /\ f.t = "message_start"
          /\ Emit(c, "message_start", 0, "none", <<>>) = [c EXCEPT !.out = Append(c.out, f)]
          /\ Append(c.out, f) \in Seq(Frames) /\ c.out \in Seq(Frames)
      <3>1. f \in Frames /\ f.t = "message_start"  BY Literals DEF Frame, Frames
      <3>2. c.out \in Seq(Frames)  BY <2>1 DEF ClaudeStates
      <3>3. Append(c.out, f) \in Seq(Frames)  BY <3>1, <3>2
      <3> QED BY <3>1, <3>2, <3>3 DEF Emit
    <2>3. d = [[c EXCEPT !.out = Append(c.out, f)] EXCEPT !.sent = TRUE]
      BY <1>2, <2>2 DEF MessageStart
    <2>4. /\ d \in ClaudeStates /\ d.sent = TRUE /\ d.next = c.next /\ d.thought = c.thought
          /\ d.text = c.text /\ d.calls = c.calls /\ d.out = Append(c.out, f)
      BY <2>1, <2>2, <2>3 DEF ClaudeStates
    <2>5. NoEnd(h \o c.out) => FitsAfter(h \o c.out, f)
      BY <1>2, <2>2, StepsIn DEF FitsAfter, InStep
    <2>6. NoEnd(h \o c.out) => InStep(Append(h \o c.out, f), d)
      <3> SUFFICES ASSUME NoEnd(h \o c.out) PROVE InStep(Append(h \o c.out, f), d)
        OBVIOUS
      <3>1. InStep(h \o c.out, c) /\ h \o c.out \in Seq(Frames)  BY StepsIn
      <3> QED BY <2>2, <2>4, <3>1, OtherInStep
    <2>7. MayFollow(h \o c.out, f, R)  BY <2>2, <2>5 DEF MayFollow
    <2>8. ClaudeInv(h, d, R, e)  BY <2>4, <2>6, <2>7, ClaudeGoesOn
    <2> QED BY <2>4, <2>8
  <1> QED BY <1>1, <1>2

\* What a state is once a block of it is closed.
Closed(c, d, id, kind) ==
    /\ d \in ClaudeStates /\ d.out = Append(c.out, Frame("block_stop", id, kind, <<>>))
    /\ d.sent = TRUE /\ d.next = c.next
    /\ Apart(c) => Apart(d)
    /\ \A i \in Int, k \in Kinds : IsOpen(d, i, k) <=> IsOpen(c, i, k) /\ ~(i = id /\ k = kind)

\* A block that was open is stopped.
LEMMA StopKeeps ==
    ASSUME NEW h \in Seq(Frames), NEW R, NEW e, NEW c, ClaudeInv(h, c, R, e), c.sent = TRUE,
           NEW id \in Nat, NEW kind \in Kinds, IsOpen(c, id, kind),
           NEW d, Closed(c, d, id, kind)
    PROVE  ClaudeInv(h, d, R, e)
  <1> PICK f : f = Frame("block_stop", id, kind, <<>>)  OBVIOUS
  <1>1. c \in ClaudeStates  BY DEF ClaudeInv
  <1>2. f \in Frames /\ f.t = "block_stop" /\ f.id = id /\ f.kind = kind
    BY Literals DEF Frame, Frames
  <1>3. NoEnd(h \o c.out) => FitsAfter(h \o c.out, f)
    BY <1>2, StepsIn DEF FitsAfter, InStep
  <1>4. NoEnd(h \o c.out) => InStep(Append(h \o c.out, f), d)
    <2> SUFFICES ASSUME NoEnd(h \o c.out) PROVE InStep(Append(h \o c.out, f), d)
      OBVIOUS
    <2> PICK s : s = h \o c.out  OBVIOUS
    <2>1. InStep(s, c) /\ s \in Seq(Frames)  BY StepsIn
    <2>2. Opens(s, f.id, f.kind) /\ Apart(d)  BY <1>2, <2>1 DEF InStep, Closed
    <2>3. \A i \in Int, k \in Kinds :
              IsOpen(d, i, k) <=> IsOpen(c, i, k) /\ ~(i = f.id /\ k = f.kind)
      BY <1>2 DEF Closed
    <2>4. d.sent = TRUE /\ d.next = c.next  BY DEF Closed
    <2>5. InStep(Append(s, f), d)
      <3> HIDE DEF Kinds
      <3> QED BY ONLY <1>2, <2>1, <2>2, <2>3, <2>4, StopInStep
    <2> QED BY <2>5
  <1>5. MayFollow(h \o c.out, f, R)  BY <1>2, <1>3 DEF MayFollow
  <1>6. d \in ClaudeStates /\ d.out = Append(c.out, f)  BY DEF Closed
  <1> QED BY <1>4, <1>5, <1>6, ClaudeGoesOn

\* A block that is new is started.
LEMMA StartKeeps ==
    ASSUME NEW h \in Seq(Frames), NEW R, NEW e, NEW c, ClaudeInv(h, c, R, e), c.sent = TRUE,
           NEW kind \in Kinds,
           NEW d \in ClaudeStates, d.out = Append(c.out, Frame("block_start", c.next, kind, <<>>)),
           d.sent = TRUE, d.next = c.next + 1,
           InStep(h \o c.out, c) => Apart(d),
           \A i \in Int, k \in Kinds :
               IsOpen(d, i, k) <=> IsOpen(c, i, k) \/ (i = c.next /\ k = kind)
    PROVE  ClaudeInv(h, d, R, e)
  <1> PICK f : f = Frame("block_start", c.next, kind, <<>>)  OBVIOUS
  <1>1. c \in ClaudeStates /\ c.next \in Nat  BY DEF ClaudeInv, ClaudeStates
  <1>2. f \in Frames /\ f.t = "block_start" /\ f.id = c.next /\ f.kind = kind
    <2>1. c.next \in Int  BY <1>1
    <2> QED BY <2>1, Literals DEF Frame, Frames
  <1>3. NoEnd(h \o c.out) => FitsAfter(h \o c.out, f)
    BY <1>2, StepsIn DEF FitsAfter, InStep
  <1>4. NoEnd(h \o c.out) => InStep(Append(h \o c.out, f), d)
    <2> SUFFICES ASSUME NoEnd(h \o c.out) PROVE InStep(Append(h \o c.out, f), d)
      OBVIOUS
    <2>1. InStep(h \o c.out, c) /\ h \o c.out \in Seq(Frames)  BY StepsIn
    <2>2. Apart(d)  BY <2>1
    <2>3. \A i \in Int, k \in Kinds :
              IsOpen(d, i, k) <=> IsOpen(c, i, k) \/ (i = f.id /\ k = f.kind)
      BY <1>2
    <2> QED BY <1>1, <1>2, <2>1, <2>2, <2>3, StartInStep
  <1>5. MayFollow(h \o c.out, f, R)  BY <1>2, <1>3 DEF MayFollow
  <1> QED BY <1>4, <1>5, ClaudeGoesOn

\* An open block gets a delta.
LEMMA DeltaKeeps ==
    ASSUME NEW h \in Seq(Frames), NEW R, NEW e, NEW c, ClaudeInv(h, c, R, e), c.sent = TRUE,
           NEW id \in Nat, NEW kind \in Kinds, IsOpen(c, id, kind), NEW ps \in Seq(Int),
           NEW d, d = Emit(c, "block_delta", id, kind, ps)
    PROVE  /\ ClaudeInv(h, d, R, e) /\ d.sent = TRUE
           /\ d.calls = c.calls /\ d.thought = c.thought /\ d.text = c.text
  <1> PICK f : f = Frame("block_delta", id, kind, ps)  OBVIOUS
  <1>1. c \in ClaudeStates  BY DEF ClaudeInv
  <1>2. /\ f \in Frames /\ f.t = "block_delta" /\ f.id = id /\ f.kind = kind
        /\ d = [c EXCEPT !.out = Append(c.out, f)]
        /\ Append(c.out, f) \in Seq(Frames)
    <2>1. f \in Frames /\ f.t = "block_delta" /\ f.id = id /\ f.kind = kind
      BY Literals DEF Frame, Frames
    <2>2. c.out \in Seq(Frames)  BY <1>1 DEF ClaudeStates
    <2>3. Append(c.out, f) \in Seq(Frames)  BY <2>1, <2>2
    <2> QED BY <2>1, <2>3 DEF Emit
  <1>3. /\ d \in ClaudeStates /\ d.sent = TRUE /\ d.next = c.next /\ d.thought = c.thought
        /\ d.text = c.text /\ d.calls = c.calls /\ d.out = Append(c.out, f)
    BY <1>1, <1>2 DEF ClaudeStates
  <1>4. NoEnd(h \o c.out) => FitsAfter(h \o c.out, f)
    BY <1>2, StepsIn DEF FitsAfter, InStep
  <1>5. NoEnd(h \o c.out) => InStep(Append(h \o c.out, f), d)
    <2> SUFFICES ASSUME NoEnd(h \o c.out) PROVE InStep(Append(h \o c.out, f), d)
      OBVIOUS
    <2>1. InStep(h \o c.out, c) /\ h \o c.out \in Seq(Frames)  BY StepsIn
    <2> QED BY <1>2, <1>3, <2>1, OtherInStep
  <1>6. MayFollow(h \o c.out, f, R)  BY <1>2, <1>4 DEF MayFollow
  <1>7. ClaudeInv(h, d, R, e)  BY <1>3, <1>5, <1>6, ClaudeGoesOn
  <1> QED BY <1>3, <1>7

Emitted(c, f, z) ==
    /\ z.out = Append(c.out, f) /\ z \in ClaudeStates /\ z.sent = c.sent /\ z.next = c.next
    /\ z.thought = c.thought /\ z.text = c.text /\ z.calls = c.calls

\* What emitting a frame leaves as it was.
LEMMA EmitOut ==
    ASSUME NEW c \in ClaudeStates, NEW f \in Frames, NEW z,
           z = [c EXCEPT !.out = Append(c.out, f)]
    PROVE  Emitted(c, f, z)
  <1>1. Append(c.out, f) \in Seq(Frames)  BY DEF ClaudeStates
  <1> QED BY <1>1 DEF ClaudeStates, Emitted

\* Stopping the thinking block, if it is open.
LEMMA StopThinkingKeeps ==
    ASSUME NEW h \in Seq(Frames), NEW R, NEW e, NEW c, ClaudeInv(h, c, R, e), c.sent = TRUE,
           NEW d, d = StopThinkingBlock(c)
    PROVE  /\ ClaudeInv(h, d, R, e) /\ d.sent = TRUE /\ d.thought = Unset
           /\ d.text = c.text /\ d.calls = c.calls /\ d.next = c.next
  <1>0. c \in ClaudeStates  BY DEF ClaudeInv
  <1>1. CASE c.thought = Unset
    BY <1>1 DEF StopThinkingBlock
  <1>2. CASE c.thought # Unset
    <2> PICK z : z = Emit(c, "block_stop", c.thought, "thought", <<>>)  OBVIOUS
    <2>1. c.thought \in Nat /\ c.thought \in Int  BY <1>0, <1>2 DEF ClaudeStates
    <2> PICK f : f = Frame("block_stop", c.thought, "thought", <<>>)  OBVIOUS
    <2>a. f \in Frames  BY <1>0, <2>1, Literals DEF Frame, Frames
    <2>b. z = [c EXCEPT !.out = Append(c.out, f)]  BY DEF Emit
    <2>c. Emitted(c, f, z)  BY <1>0, <2>a, <2>b, EmitOut
    <2>2. /\ z.out = Append(c.out, Frame("block_stop", c.thought, "thought", <<>>))
          /\ z \in ClaudeStates /\ z.sent = c.sent /\ z.next = c.next
          /\ z.thought = c.thought /\ z.text = c.text /\ z.calls = c.calls
      BY <2>c DEF Emitted
    <2>3. d = [z EXCEPT !.thought = Unset]  BY <1>2 DEF StopThinkingBlock
    <2>4. /\ d \in ClaudeStates /\ d.out = z.out /\ d.sent = z.sent /\ d.next = z.next
          /\ d.text = z.text /\ d.calls = z.calls /\ d.thought = Unset
      BY <2>2, <2>3 DEF ClaudeStates
    <2>5. IsOpen(c, c.thought, "thought")  BY <1>2 DEF IsOpen
    <2>6. \A i \in Int, k \in Kinds :
              IsOpen(d, i, k) <=> IsOpen(c, i, k) /\ ~(i = c.thought /\ k = "thought")
      BY <1>2, <2>2, <2>4 DEF IsOpen
    <2>7. Apart(c) => Apart(d)  BY <2>2, <2>4 DEF Apart
    <2>8. "thought" \in Kinds  BY Literals
    <2>9. ClaudeInv(h, d, R, e)
      <3> PICK id : id = c.thought  OBVIOUS
      <3>1. id \in Nat /\ IsOpen(c, id, "thought")  BY <2>1, <2>5
      <3>2. d.out = Append(c.out, Frame("block_stop", id, "thought", <<>>))  BY <2>2, <2>4
      <3>3. \A i \in Int, k \in Kinds :
                IsOpen(d, i, k) <=> IsOpen(c, i, k) /\ ~(i = id /\ k = "thought")
        BY <2>6
      <3>4. d.sent = TRUE /\ d.next = c.next  BY <2>2, <2>4
      <3>5. Closed(c, d, id, "thought")  BY <2>4, <2>7, <3>2, <3>3, <3>4 DEF Closed
      <3> QED BY <2>8, <3>1, <3>5, StopKeeps
    <2> QED BY <2>2, <2>4, <2>9
  <1> QED BY <1>1, <1>2

\* Stopping the text block, if it is open.
LEMMA StopTextKeeps ==
    ASSUME NEW h \in Seq(Frames), NEW R, NEW e, NEW c, ClaudeInv(h, c, R, e), c.sent = TRUE,
           NEW d, d = StopTextBlock(c)
    PROVE  /\ ClaudeInv(h, d, R, e) /\ d.sent = TRUE /\ d.text = Unset
           /\ d.thought = c.thought /\ d.calls = c.calls /\ d.next = c.next
  <1>0. c \in ClaudeStates  BY DEF ClaudeInv
  <1>1. CASE c.text = Unset
    BY <1>1 DEF StopTextBlock
  <1>2. CASE c.text # Unset
    <2> PICK z : z = Emit(c, "block_stop", c.text, "text", <<>>)  OBVIOUS
    <2>1. c.text \in Nat /\ c.text \in Int  BY <1>0, <1>2 DEF ClaudeStates
    <2> PICK f : f = Frame("block_stop", c.text, "text", <<>>)  OBVIOUS
    <2>a. f \in Frames  BY <1>0, <2>1, Literals DEF Frame, Frames
    <2>b. z = [c EXCEPT !.out = Append(c.out, f)]  BY DEF Emit
    <2>c. Emitted(c, f, z)  BY <1>0, <2>a, <2>b, EmitOut
    <2>2. /\ z.out = Append(c.out, Frame("block_stop", c.text, "text", <<>>))
          /\ z \in ClaudeStates /\ z.sent = c.sent /\ z.next = c.next
          /\ z.thought = c.thought /\ z.text = c.text /\ z.calls = c.calls
      BY <2>c DEF Emitted
    <2>3. d = [z EXCEPT !.text = Unset]  BY <1>2 DEF StopTextBlock
    <2>4. /\ d \in ClaudeStates /\ d.out = z.out /\ d.sent = z.sent /\ d.next = z.next
          /\ d.thought = z.thought /\ d.calls = z.calls /\ d.text = Unset
      BY <2>2, <2>3 DEF ClaudeStates
    <2>5. IsOpen(c, c.text, "text")  BY <1>2 DEF IsOpen
    <2>6. \A i \in Int, k \in Kinds :
              IsOpen(d, i, k) <=> IsOpen(c, i, k) /\ ~(i = c.text /\ k = "text")
      BY <1>2, <2>2, <2>4 DEF IsOpen
    <2>7. Apart(c) => Apart(d)  BY <2>2, <2>4 DEF Apart
    <2>8. "text" \in Kinds  BY Literals
    <2>9. ClaudeInv(h, d, R, e)
      <3> PICK id : id = c.text  OBVIOUS
      <3>1. id \in Nat /\ IsOpen(c, id, "text")  BY <2>1, <2>5
      <3>2. d.out = Append(c.out, Frame("block_stop", id, "text", <<>>))  BY <2>2, <2>4
      <3>3. \A i \in Int, k \in Kinds :
                IsOpen(d, i, k) <=> IsOpen(c, i, k) /\ ~(i = id /\ k = "text")
        BY <2>6
      <3>4. d.sent = TRUE /\ d.next = c.next  BY <2>2, <2>4
      <3>5. Closed(c, d, id, "text")  BY <2>4, <2>7, <3>2, <3>3, <3>4 DEF Closed
      <3> QED BY <2>8, <3>1, <3>5, StopKeeps
    <2> QED BY <2>2, <2>4, <2>9
  <1> QED BY <1>1, <1>2

\* Starting a thinking block, if none is open.
LEMMA StartThinkingKeeps ==
    ASSUME NEW h \in Seq(Frames), NEW R, NEW e, NEW c, ClaudeInv(h, c, R, e), c.sent = TRUE,
           NEW d, d = StartThinkingBlock(c)
    PROVE  ClaudeInv(h, d, R, e) /\ d.sent = TRUE /\ d.thought \in Nat /\ d.thought # Unset
  <1>0. c \in ClaudeStates /\ c.next \in Nat /\ c.next \in Int  BY DEF ClaudeInv, ClaudeStates
  <1>1. CASE c.thought # Unset
    BY <1>0, <1>1 DEF StartThinkingBlock, ClaudeStates
  <1>2. CASE c.thought = Unset
    <2> PICK z : z = Emit(c, "block_start", c.next, "thought", <<>>)  OBVIOUS
    <2> PICK f : f = Frame("block_start", c.next, "thought", <<>>)  OBVIOUS
    <2>a. f \in Frames  BY <1>0, Literals DEF Frame, Frames
    <2>b. z = [c EXCEPT !.out = Append(c.out, f)]  BY DEF Emit
    <2>c. Emitted(c, f, z)  BY <1>0, <2>a, <2>b, EmitOut
    <2>2. /\ z.out = Append(c.out, Frame("block_start", c.next, "thought", <<>>))
          /\ z \in ClaudeStates /\ z.sent = c.sent /\ z.next = c.next
          /\ z.thought = c.thought /\ z.text = c.text /\ z.calls = c.calls
      BY <2>c DEF Emitted
    <2>3. d = [z EXCEPT !.thought = c.next, !.next = z.next + 1]
      BY <1>2 DEF StartThinkingBlock
    <2>4. /\ d \in ClaudeStates /\ d.out = z.out /\ d.sent = z.sent /\ d.next = c.next + 1
          /\ d.text = z.text /\ d.calls = z.calls /\ d.thought = c.next
      <3>1. c.next + 1 \in Nat /\ z.next + 1 = c.next + 1  BY <1>0, <2>2
      <3>2. d = [z EXCEPT !.thought = c.next, !.next = c.next + 1]  BY <2>3, <3>1
      <3> QED BY <1>0, <2>2, <3>1, <3>2 DEF ClaudeStates
    <2>5. c.next # Unset  BY <1>0 DEF Unset
    <2>6. \A i \in Int, k \in Kinds :
              IsOpen(d, i, k) <=> IsOpen(c, i, k) \/ (i = c.next /\ k = "thought")
      BY <1>2, <2>2, <2>4, <2>5 DEF IsOpen
    <2>7. InStep(h \o c.out, c) => Apart(d)  BY <2>2, <2>4 DEF Apart, InStep
    <2>8. "thought" \in Kinds  BY Literals
    <2>9. ClaudeInv(h, d, R, e)
      <3>2. d.out = Append(c.out, Frame("block_start", c.next, "thought", <<>>))  BY <2>2, <2>4
      <3>4. d.sent = TRUE /\ d.next = c.next + 1  BY <2>2, <2>4
      <3> HIDE DEF Kinds
      <3> QED BY <2>4, <2>6, <2>7, <2>8, <3>2, <3>4, StartKeeps
    <2> QED BY <1>0, <2>2, <2>4, <2>5, <2>9
  <1> QED BY <1>1, <1>2

\* Starting a text block, if none is open.
LEMMA StartTextKeeps ==
    ASSUME NEW h \in Seq(Frames), NEW R, NEW e, NEW c, ClaudeInv(h, c, R, e), c.sent = TRUE,
           NEW d, d = StartTextBlock(c)
    PROVE  ClaudeInv(h, d, R, e) /\ d.sent = TRUE /\ d.text \in Nat /\ d.text # Unset
  <1>0. c \in ClaudeStates /\ c.next \in Nat /\ c.next \in Int  BY DEF ClaudeInv, ClaudeStates
  <1>1. CASE c.text # Unset
    BY <1>0, <1>1 DEF StartTextBlock, ClaudeStates
  <1>2. CASE c.text = Unset
    <2> PICK z : z = Emit(c, "block_start", c.next, "text", <<>>)  OBVIOUS
    <2> PICK f : f = Frame("block_start", c.next, "text", <<>>)  OBVIOUS
    <2>a. f \in Frames  BY <1>0, Literals DEF Frame, Frames
    <2>b. z = [c EXCEPT !.out = Append(c.out, f)]  BY DEF Emit
    <2>c. Emitted(c, f, z)  BY <1>0, <2>a, <2>b, EmitOut
    <2>2. /\ z.out = Append(c.out, Frame("block_start", c.next, "text", <<>>))
          /\ z \in ClaudeStates /\ z.sent = c.sent /\ z.next = c.next
          /\ z.thought = c.thought /\ z.text = c.text /\ z.calls = c.calls
      BY <2>c DEF Emitted
    <2>3. d = [z EXCEPT !.text = c.next, !.next = z.next + 1]
      BY <1>2 DEF StartTextBlock
    <2>4. /\ d \in ClaudeStates /\ d.out = z.out /\ d.sent = z.sent /\ d.next = c.next + 1
          /\ d.thought = z.thought /\ d.calls = z.calls /\ d.text = c.next
      <3>1. c.next + 1 \in Nat /\ z.next + 1 = c.next + 1  BY <1>0, <2>2
      <3>2. d = [z EXCEPT !.text = c.next, !.next = c.next + 1]  BY <2>3, <3>1
      <3> QED BY <1>0, <2>2, <3>1, <3>2 DEF ClaudeStates
    <2>5. c.next # Unset  BY <1>0 DEF Unset
    <2>6. \A i \in Int, k \in Kinds :
              IsOpen(d, i, k) <=> IsOpen(c, i, k) \/ (i = c.next /\ k = "text")
      BY <1>2, <2>2, <2>4, <2>5 DEF IsOpen
    <2>7. InStep(h \o c.out, c) => Apart(d)  BY <2>2, <2>4 DEF Apart, InStep
    <2>8. "text" \in Kinds  BY Literals
    <2>9. ClaudeInv(h, d, R, e)
      <3>2. d.out = Append(c.out, Frame("block_start", c.next, "text", <<>>))  BY <2>2, <2>4
      <3>4. d.sent = TRUE /\ d.next = c.next + 1  BY <2>2, <2>4
      <3> HIDE DEF Kinds
      <3> QED BY <2>4, <2>6, <2>7, <2>8, <3>2, <3>4, StartKeeps
    <2> QED BY <1>0, <2>2, <2>4, <2>5, <2>9
  <1> QED BY <1>1, <1>2

\* A thought sent to a Claude client.
LEMMA ThoughtKeeps ==
    ASSUME NEW h \in Seq(Frames), NEW R, NEW e, NEW c, ClaudeInv(h, c, R, e), c.sent = TRUE,
           NEW ps \in Seq(Int)
    PROVE  ClaudeInv(h, ClaudeThought(c, ps), R, e) /\ ClaudeThought(c, ps).sent = TRUE
  <1>1. CASE ps = <<>>
    BY <1>1 DEF ClaudeThought
  <1>2. CASE ps # <<>>
    <2> PICK a : a = StopTextBlock(c)  OBVIOUS
    <2> PICK d : d = StartThinkingBlock(a)  OBVIOUS
    <2>1. ClaudeInv(h, a, R, e) /\ a.sent = TRUE  BY StopTextKeeps
    <2>2. ClaudeInv(h, d, R, e) /\ d.sent = TRUE /\ d.thought \in Nat /\ d.thought # Unset
      BY <2>1, StartThinkingKeeps
    <2>3. ClaudeThought(c, ps) = Emit(d, "block_delta", d.thought, "thought", ps)
      BY <1>2 DEF ClaudeThought
    <2> PICK id : id = d.thought  OBVIOUS
    <2>4. IsOpen(d, id, "thought") /\ id \in Nat /\ "thought" \in Kinds
      BY <2>2, Literals DEF IsOpen
    <2>5. ClaudeThought(c, ps) = Emit(d, "block_delta", id, "thought", ps)  BY <2>3
    <2>6. PICK w : w = Emit(d, "block_delta", id, "thought", ps)  OBVIOUS
    <2>7. ClaudeInv(h, w, R, e) /\ w.sent = TRUE  BY <2>2, <2>4, <2>6, DeltaKeeps, ZenonT(60)
    <2> QED BY <2>5, <2>6, <2>7
  <1> QED BY <1>1, <1>2

\* A text sent to a Claude client.
LEMMA TextKeeps ==
    ASSUME NEW h \in Seq(Frames), NEW R, NEW e, NEW c, ClaudeInv(h, c, R, e), c.sent = TRUE,
           NEW ps \in Seq(Int)
    PROVE  ClaudeInv(h, ClaudeText(c, ps), R, e) /\ ClaudeText(c, ps).sent = TRUE
  <1>1. CASE ps = <<>>
    BY <1>1 DEF ClaudeText
  <1>2. CASE ps # <<>>
    <2> PICK a : a = StopThinkingBlock(c)  OBVIOUS
    <2> PICK d : d = StartTextBlock(a)  OBVIOUS
    <2>1. ClaudeInv(h, a, R, e) /\ a.sent = TRUE  BY StopThinkingKeeps
    <2>2. ClaudeInv(h, d, R, e) /\ d.sent = TRUE /\ d.text \in Nat /\ d.text # Unset
      BY <2>1, StartTextKeeps
    <2>3. ClaudeText(c, ps) = Emit(d, "block_delta", d.text, "text", ps)
      BY <1>2 DEF ClaudeText
    <2> PICK id : id = d.text  OBVIOUS
    <2>4. IsOpen(d, id, "text") /\ id \in Nat /\ "text" \in Kinds
      BY <2>2, Literals DEF IsOpen
    <2>5. ClaudeText(c, ps) = Emit(d, "block_delta", id, "text", ps)  BY <2>3
    <2>6. PICK w : w = Emit(d, "block_delta", id, "text", ps)  OBVIOUS
    <2>7. ClaudeInv(h, w, R, e) /\ w.sent = TRUE  BY <2>2, <2>4, <2>6, DeltaKeeps, ZenonT(60)
    <2> QED BY <2>5, <2>6, <2>7
  <1> QED BY <1>1, <1>2

\* A change of the state that touches no block.
LEMMA SameBlocksKeep ==
    ASSUME NEW h, NEW R, NEW e, NEW c, ClaudeInv(h, c, R, e),
           NEW d \in ClaudeStates, d.out = c.out, d.sent = c.sent, d.next = c.next,
           d.thought = c.thought, d.text = c.text, DOMAIN d.calls = DOMAIN c.calls,
           \A k \in DOMAIN c.calls : d.calls[k].block = c.calls[k].block
    PROVE  ClaudeInv(h, d, R, e)
  <1>1. Apart(c) => Apart(d)  BY DEF Apart
  <1>2. \A id, kind : IsOpen(d, id, kind) <=> IsOpen(c, id, kind)  BY DEF IsOpen
  <1>3. InStep(h \o c.out, c) => InStep(h \o d.out, d)  BY <1>1, <1>2 DEF InStep
  <1> QED BY <1>3 DEF ClaudeInv

\* A call whose block is opened, under the next index.
LEMMA CallOpenedKeeps ==
    ASSUME NEW h \in Seq(Frames), NEW R, NEW e, NEW c, ClaudeInv(h, c, R, e), c.sent = TRUE,
           NEW index \in Int, NEW d,
           d = [Emit(c, "block_start", c.next, "call", <<>>)
                   EXCEPT !.next = @ + 1,
                          !.calls = Append(@, [index |-> index, block |-> c.next, ps |-> <<>>])]
    PROVE  ClaudeInv(h, d, R, e) /\ d.sent = TRUE
  <1>0. c \in ClaudeStates /\ c.next \in Nat /\ c.next \in Int /\ c.calls \in Seq(ClaudeCalls)
    BY DEF ClaudeInv, ClaudeStates
  <1>p1. PICK z : z = Emit(c, "block_start", c.next, "call", <<>>)  OBVIOUS
  <1>p2. PICK f : f = Frame("block_start", c.next, "call", <<>>)  OBVIOUS
  <1>p3. PICK r : r = [index |-> index, block |-> c.next, ps |-> <<>>]  OBVIOUS
  <1>a. f \in Frames  BY <1>0, <1>p2, Literals DEF Frame, Frames
  <1>b. z = [c EXCEPT !.out = Append(c.out, f)]  BY <1>p1, <1>p2 DEF Emit
  <1>c. Emitted(c, f, z)  BY <1>0, <1>a, <1>b, EmitOut
  <1>1. r \in ClaudeCalls /\ r.block = c.next  BY <1>0, <1>p3, Literals DEF ClaudeCalls
  <1>p4. PICK q : q = Append(c.calls, r)  OBVIOUS
  <1>p5. PICK n \in Nat : n = Len(c.calls)  BY <1>0, AppendKeeps
  <1>2. /\ q \in Seq(ClaudeCalls) /\ DOMAIN q = 1..(n + 1) /\ DOMAIN c.calls = 1..n
        /\ q[n + 1] = r /\ \A i \in 1..n : q[i] = c.calls[i]
    BY <1>0, <1>1, <1>p4, <1>p5, AppendKeeps
  <1>3. z \in ClaudeStates /\ z.next = c.next /\ z.calls = c.calls  BY <1>c DEF Emitted
  <1>4. c.next + 1 \in Nat  BY <1>0
  <1>5. d = [z EXCEPT !.next = c.next + 1, !.calls = q]  BY <1>3, <1>p1, <1>p3, <1>p4
  <1>6. /\ d \in ClaudeStates /\ d.out = z.out /\ d.sent = z.sent /\ d.next = c.next + 1
        /\ d.thought = z.thought /\ d.text = z.text /\ d.calls = q
    BY <1>2, <1>3, <1>4, <1>5 DEF ClaudeStates
  <1>7. 1..(n + 1) = (1..n) \cup {n + 1}
    BY UpToNext
  <1>8. \A i \in Int, k \in Kinds : IsOpen(d, i, k) <=> IsOpen(c, i, k) \/ (i = c.next /\ k = "call")
    <2> SUFFICES ASSUME NEW i \in Int, NEW k \in Kinds
                 PROVE  IsOpen(d, i, k) <=> IsOpen(c, i, k) \/ (i = c.next /\ k = "call")
      OBVIOUS
    <2>1. (\E j \in DOMAIN d.calls : d.calls[j].block = i)
              <=> (\E j \in DOMAIN c.calls : c.calls[j].block = i) \/ i = c.next
      BY ONLY <1>1, <1>2, <1>6, <1>7
    <2>2. d.thought = c.thought /\ d.text = c.text  BY <1>6, <1>c DEF Emitted
    <2> QED BY <2>1, <2>2 DEF IsOpen
  <1>9. InStep(h \o c.out, c) => Apart(d)
    <2> SUFFICES ASSUME InStep(h \o c.out, c) PROVE Apart(d)
      OBVIOUS
    <2>1. \A j \in 1..n : q[j].block # c.next
      <3> SUFFICES ASSUME NEW j \in 1..n, c.calls[j].block = c.next PROVE FALSE
        BY <1>2
      <3>1. IsOpen(c, c.next, "call")  BY <1>2 DEF IsOpen
      <3>2. "call" \in Kinds  BY Literals
      <3>3. Opens(h \o c.out, c.next, "call")  BY <1>0, <3>1, <3>2 DEF InStep
      <3>4. h \o c.out \in Seq(Frames)
        <4>1. c.out \in Seq(Frames)  BY <1>0 DEF ClaudeStates
        <4> QED BY <4>1
      <3>5. ~Has(h \o c.out, "block_start", c.next, "call")
        BY <1>0, <3>4, FreshBlock DEF InStep
      <3> QED BY <3>3, <3>5 DEF Opens
    <2>2. \A j, k \in 1..n : q[j].block = q[k].block => j = k
      BY <1>2 DEF InStep, Apart
    <2>4. q[n + 1].block = c.next  BY <1>1, <1>2
    <2>5. ASSUME NEW j \in 1..(n + 1), NEW k \in 1..(n + 1), q[j].block = q[k].block
          PROVE  j = k
      <3>1. (j \in 1..n \/ j = n + 1) /\ (k \in 1..n \/ k = n + 1)  BY UpToNext
      <3> QED BY <2>1, <2>2, <2>4, <2>5, <3>1
    <2> QED BY ONLY <1>2, <1>6, <2>5 DEF Apart
  <1>10. d.out = Append(c.out, f) /\ d.sent = TRUE  BY <1>6, <1>c DEF Emitted
  <1>11. "call" \in Kinds  BY Literals
  <1>12. d.out = Append(c.out, Frame("block_start", c.next, "call", <<>>))  BY <1>10, <1>p2
  <1>13. d \in ClaudeStates /\ d.next = c.next + 1  BY <1>6
  <1>14. h \in Seq(Frames) /\ ClaudeInv(h, c, R, e) /\ c.sent = TRUE  OBVIOUS
  <1>15. ClaudeInv(h, d, R, e)
    BY ONLY <1>8, <1>9, <1>10, <1>11, <1>12, <1>13, <1>14, StartKeeps
  <1> QED BY <1>10, <1>15

\* A call, or a part of one, sent to a Claude client.
LEMMA ToolCallKeeps ==
    ASSUME NEW h \in Seq(Frames), NEW R, NEW e, NEW c, ClaudeInv(h, c, R, e), c.sent = TRUE,
           NEW call \in CallParts
    PROVE  ClaudeInv(h, ClaudeToolCall(c, call), R, e) /\ ClaudeToolCall(c, call).sent = TRUE
  <1>p1. PICK a : a = StopThinkingBlock(c)  OBVIOUS
  <1>p2. PICK d : d = StopTextBlock(a)  OBVIOUS
  <1>0. call.index \in Int /\ call.ps \in Seq(Int)  BY DEF CallParts
  <1>1. ClaudeInv(h, a, R, e) /\ a.sent = TRUE  BY <1>p1, StopThinkingKeeps
  <1>2. ClaudeInv(h, d, R, e) /\ d.sent = TRUE  BY <1>1, <1>p2, StopTextKeeps
  <1>p3. PICK o : o = IF call.opens /\ ~HasCall(c, call.index)
                   THEN [Emit(d, "block_start", d.next, "call", <<>>)
                           EXCEPT !.next = @ + 1,
                                  !.calls = Append(@, [index |-> call.index,
                                                       block |-> d.next, ps |-> <<>>])]
                   ELSE c
    OBVIOUS
  <1>3. ClaudeInv(h, o, R, e) /\ o.sent = TRUE
    <2>1. CASE call.opens /\ ~HasCall(c, call.index)
      BY <1>0, <1>2, <1>p3, <2>1, CallOpenedKeeps
    <2>2. CASE ~(call.opens /\ ~HasCall(c, call.index))
      BY <1>p3, <2>2
    <2> QED BY <2>1, <2>2
  <1>p4. PICK q : q = AddPieces(o.calls, call)  OBVIOUS
  <1>p5. PICK w : w = [o EXCEPT !.calls = q]  OBVIOUS
  <1>4. ClaudeToolCall(c, call) = w
    <2>1. d = StopTextBlock(StopThinkingBlock(c))  BY ONLY <1>p1, <1>p2
    <2>2. ClaudeToolCall(c, call) = [o EXCEPT !.calls = AddPieces(o.calls, call)]
      <3> HIDE DEF ClaudeStates
      <3>1. CASE call.opens /\ ~HasCall(c, call.index)
        BY ONLY <2>1, <1>p3, <3>1 DEF ClaudeToolCall
      <3>2. CASE ~(call.opens /\ ~HasCall(c, call.index))
        BY ONLY <2>1, <1>p3, <3>2 DEF ClaudeToolCall
      <3> QED BY <3>1, <3>2
    <2> QED BY ONLY <1>p4, <1>p5, <2>2
  <1>5. o \in ClaudeStates /\ o.calls \in Seq(ClaudeCalls)  BY <1>3 DEF ClaudeInv, ClaudeStates
  <1>p6. PICK n \in Nat : n = Len(o.calls)  BY <1>5, AppendKeeps
  <1>6. DOMAIN o.calls = 1..n  BY <1>5, <1>p6
  <1>7. \A i \in 1..n : q[i] \in ClaudeCalls /\ q[i].block = o.calls[i].block
    <2> SUFFICES ASSUME NEW i \in 1..n
                 PROVE  q[i] \in ClaudeCalls /\ q[i].block = o.calls[i].block
      OBVIOUS
    <2>1. o.calls[i] \in ClaudeCalls  BY <1>5, <1>6
    <2>2. o.calls[i].ps \o call.ps \in Seq(Int)  BY <1>0, <2>1 DEF ClaudeCalls
    <2>p. PICK p : p = [o.calls[i] EXCEPT !.ps = o.calls[i].ps \o call.ps]  OBVIOUS
    <2>3. p \in ClaudeCalls /\ p.block = o.calls[i].block  BY <2>1, <2>2, <2>p DEF ClaudeCalls
    <2>4. q[i] = p \/ q[i] = o.calls[i]  BY <1>6, <1>p4, <2>p DEF AddPieces
    <2> QED BY <2>1, <2>3, <2>4
  <1>8. q \in Seq(ClaudeCalls) /\ DOMAIN q = DOMAIN o.calls
    <2>1. DOMAIN q = 1..n  BY <1>6, <1>p4 DEF AddPieces
    <2>2. q \in [1..n -> ClaudeCalls]  BY <1>6, <1>7, <1>p4 DEF AddPieces
    <2> QED BY <1>6, <2>1, <2>2
  <1>9. /\ w \in ClaudeStates /\ w.out = o.out /\ w.sent = o.sent /\ w.next = o.next
        /\ w.thought = o.thought /\ w.text = o.text /\ w.calls = q
    BY <1>5, <1>8, <1>p5 DEF ClaudeStates
  <1>10. ClaudeInv(h, w, R, e)
    BY <1>3, <1>6, <1>7, <1>8, <1>9, SameBlocksKeep
  <1> QED BY <1>3, <1>4, <1>9, <1>10

\* All calls of a chunk sent to a Claude client.
LEMMA ToolCallsKeep ==
    ASSUME NEW h \in Seq(Frames), NEW R, NEW e, NEW c, ClaudeInv(h, c, R, e), c.sent = TRUE,
           NEW calls \in Seq(CallParts)
    PROVE  /\ ClaudeInv(h, FoldLeft(ClaudeToolCall, c, calls), R, e)
           /\ FoldLeft(ClaudeToolCall, c, calls).sent = TRUE
  <1> DEFINE U == {v \in ClaudeStates : ClaudeInv(h, v, R, e) /\ v.sent = TRUE}
  <1> PICK n \in Nat : n = Len(calls)  BY AppendKeeps
  <1> DEFINE D == [k \in 0..n |-> U]
  <1>1. DOMAIN calls = 1..n  OBVIOUS
  <1>2. c \in U  BY DEF ClaudeInv
  <1>3. \A k \in 1..n : \A v \in U : ClaudeToolCall(v, calls[k]) \in U
    <2> SUFFICES ASSUME NEW k \in 1..n, NEW v \in U PROVE ClaudeToolCall(v, calls[k]) \in U
      OBVIOUS
    <2>1. calls[k] \in CallParts  BY <1>1
    <2>2. ClaudeInv(h, v, R, e) /\ v.sent = TRUE  OBVIOUS
    <2>3. ClaudeInv(h, ClaudeToolCall(v, calls[k]), R, e) /\ ClaudeToolCall(v, calls[k]).sent = TRUE
      BY <2>1, <2>2, ToolCallKeeps
    <2> QED BY <2>3 DEF ClaudeInv
  <1>4. \A k \in 0..n : D[k] = U  OBVIOUS
  <1> HIDE DEF U, D
  <1>5. FoldLeft(ClaudeToolCall, c, calls) \in D[n]
    <2>1. \A k \in 1..n : k - 1 \in 0..n /\ k \in 0..n  OBVIOUS
    <2>2. \A k \in 1..n : \A v \in D[k - 1] : ClaudeToolCall(v, calls[k]) \in D[k]
      BY <1>3, <1>4, <2>1
    <2>3. c \in D[0] /\ n \in Nat  BY <1>2, <1>4
    <2> QED BY ONLY <1>1, <2>2, <2>3, ClaudeToolCallFolds
  <1>6. FoldLeft(ClaudeToolCall, c, calls) \in U  BY <1>4, <1>5
  <1> QED BY <1>6 DEF U

WithCalls(v, calls, k) == [v EXCEPT !.calls = SubSeq(calls, k + 1, Len(calls))]

Distinct(calls) == \A i, j \in DOMAIN calls : calls[i].block = calls[j].block => i = j

\* The calls that are not yet closed, one by one.
LEMMA RestIs ==
    ASSUME NEW calls \in Seq(ClaudeCalls), NEW k \in 0..Len(calls)
    PROVE  /\ SubSeq(calls, k + 1, Len(calls)) \in Seq(ClaudeCalls)
           /\ DOMAIN SubSeq(calls, k + 1, Len(calls)) = 1..(Len(calls) - k)
           /\ \A j \in 1..(Len(calls) - k) : SubSeq(calls, k + 1, Len(calls))[j] = calls[j + k]
  <1>1. PICK n \in Nat : n = Len(calls)  BY AppendKeeps
  <1>2. k \in Nat /\ k <= n  BY <1>1
  <1>3. \A i \in (k + 1)..n : calls[i] \in ClaudeCalls  BY <1>1, <1>2
  <1>4. Len(SubSeq(calls, k + 1, n)) = n - k /\ SubSeq(calls, k + 1, n) \in Seq(ClaudeCalls)
    BY <1>1, <1>2, <1>3, SubSeqProperties
  <1>5. \A j \in 1..(n - k) : SubSeq(calls, k + 1, n)[j] = calls[j + k]
    BY <1>1, <1>2, <1>3, SubSeqProperties
  <1> QED BY <1>1, <1>4, <1>5

BlocksOf(calls) == {calls[j].block : j \in DOMAIN calls}

\* Their blocks.
LEMMA RestHas ==
    ASSUME NEW calls \in Seq(ClaudeCalls), NEW k \in 0..Len(calls)
    PROVE  BlocksOf(SubSeq(calls, k + 1, Len(calls)))
               = {calls[i].block : i \in (k + 1)..Len(calls)}
  <1>1. PICK n : n = Len(calls)  OBVIOUS
  <1>2. n \in Nat /\ k \in Nat /\ k <= n  BY <1>1, AppendKeeps
  <1>3. PICK z : z = SubSeq(calls, k + 1, n)  OBVIOUS
  <1>4. DOMAIN z = 1..(n - k) /\ \A j \in 1..(n - k) : z[j] = calls[j + k]
    BY <1>1, <1>3, RestIs
  <1>5. ASSUME NEW j \in DOMAIN z
        PROVE  z[j].block \in {calls[i].block : i \in (k + 1)..n}
    <2>1. PICK i : i = j + k  OBVIOUS
    <2>2. i \in (k + 1)..n  BY ONLY <1>2, <1>4, <2>1
    <2>3. z[j] = calls[i]  BY ONLY <1>4, <2>1
    <2> QED BY <1>5, <2>2, <2>3
  <1>6. ASSUME NEW i \in (k + 1)..n
        PROVE  \E j \in DOMAIN z : z[j].block = calls[i].block
    <2>1. PICK j : j = i - k  OBVIOUS
    <2>2. j \in 1..(n - k) /\ j + k = i  BY ONLY <1>2, <2>1
    <2>3. z[j] = calls[i] /\ j \in DOMAIN z  BY ONLY <1>4, <2>2
    <2> QED BY <1>6, <2>3
  <1>7. BlocksOf(z) = {calls[i].block : i \in (k + 1)..n}
    BY ONLY <1>5, <1>6 DEF BlocksOf
  <1> QED BY ONLY <1>1, <1>3, <1>7

\* Closing a call takes its block from those still open, and no other.
LEMMA RestOpen ==
    ASSUME NEW calls \in Seq(ClaudeCalls), NEW k \in 1..Len(calls), Distinct(calls)
    PROVE  BlocksOf(SubSeq(calls, k + 1, Len(calls)))
               = BlocksOf(SubSeq(calls, k, Len(calls))) \ {calls[k].block}
  <1>1. PICK n : n = Len(calls)  OBVIOUS
  <1>2. n \in Nat /\ k \in Nat /\ 1 <= k /\ k <= n /\ DOMAIN calls = 1..n  BY <1>1, AppendKeeps
  <1>3. PICK m : m = k - 1  OBVIOUS
  <1>4. m \in 0..n /\ m + 1 = k /\ k \in 0..n  BY ONLY <1>2, <1>3
  <1>5. BlocksOf(SubSeq(calls, k + 1, n)) = {calls[i].block : i \in (k + 1)..n}
    BY <1>1, <1>4, RestHas
  <1>6. BlocksOf(SubSeq(calls, m + 1, n)) = {calls[i].block : i \in (m + 1)..n}
    BY <1>1, <1>4, RestHas
  <1>7. \A i \in (k + 1)..n : i \in k..n /\ i # k /\ i \in 1..n  BY ONLY <1>2
  <1>8. \A i \in k..n : i \in (k + 1)..n \/ i = k  BY ONLY <1>2
  <1>9. k \in 1..n  BY ONLY <1>2
  <1>10. {calls[i].block : i \in (k + 1)..n}
            = {calls[i].block : i \in k..n} \ {calls[k].block}
    <2>1. \A i \in (k + 1)..n : calls[i].block # calls[k].block
      BY <1>2, <1>7, <1>9 DEF Distinct
    <2> QED BY ONLY <1>7, <1>8, <2>1
  <1> QED BY ONLY <1>1, <1>4, <1>5, <1>6, <1>10

\* The state of a message whose first k calls have been closed.
Closing(h, R, e, calls, k) ==
    {v \in ClaudeStates :
        /\ v.sent = TRUE /\ v.thought = Unset /\ v.text = Unset
        /\ ClaudeInv(h, WithCalls(v, calls, k), R, e)}

\* One call is closed: its arguments are sent while its block is open, and the
\* block stops.
LEMMA CloseCallKeeps ==
    ASSUME NEW h \in Seq(Frames), NEW R, NEW e, NEW calls \in Seq(ClaudeCalls),
           Distinct(calls),
           NEW k \in 1..Len(calls), NEW v \in Closing(h, R, e, calls, k - 1)
    PROVE  CloseClaudeCall(v, calls[k]) \in Closing(h, R, e, calls, k)
  <1>1. PICK n \in Nat : n = Len(calls)  BY AppendKeeps
  <1>2. k \in Nat /\ 1 <= k /\ k <= n /\ (k - 1) + 1 = k /\ k - 1 \in 0..n /\ k \in 0..n
    BY <1>1
  <1>3. PICK call : call = calls[k]  OBVIOUS
  <1>4. call \in ClaudeCalls /\ call.block \in Nat /\ call.block \in Int /\ call.ps \in Seq(Int)
    <2>1. call \in ClaudeCalls  BY <1>1, <1>2, <1>3
    <2> QED BY <2>1 DEF ClaudeCalls
  <1>5. PICK A : A = SubSeq(calls, k, n)  OBVIOUS
  <1>6. PICK B : B = SubSeq(calls, k + 1, n)  OBVIOUS
  <1>7. A \in Seq(ClaudeCalls) /\ B \in Seq(ClaudeCalls)
    BY <1>1, <1>2, <1>5, <1>6, RestIs
  <1>8. PICK x : x = [v EXCEPT !.calls = A]  OBVIOUS
  <1>9. /\ v \in ClaudeStates /\ v.sent = TRUE /\ v.thought = Unset /\ v.text = Unset
        /\ ClaudeInv(h, x, R, e)
    BY <1>1, <1>2, <1>5, <1>8 DEF Closing, WithCalls
  <1>10. /\ x \in ClaudeStates /\ x.sent = TRUE /\ x.thought = Unset /\ x.text = Unset
         /\ x.calls = A /\ x.out = v.out /\ x.next = v.next
    BY <1>7, <1>8, <1>9 DEF ClaudeStates
  <1>11. IsOpen(x, call.block, "call")
    <2>1. PICK m : m = k - 1  OBVIOUS
    <2>2. m \in 0..Len(calls) /\ m + 1 = k /\ 1 \in 1..(Len(calls) - m) /\ 1 + m = k
      BY <1>1, <1>2, <2>1
    <2>3. A = SubSeq(calls, m + 1, Len(calls))  BY <1>1, <1>5, <2>2
    <2>4. 1 \in DOMAIN A /\ A[1] = calls[1 + m]  BY <2>2, <2>3, RestIs
    <2> QED BY <1>3, <1>10, <2>2, <2>4 DEF IsOpen
  \* The delta, if there is something to say.
  <1>12. PICK w : w = IF call.ps = <<>> THEN v ELSE Emit(v, "block_delta", call.block, "call", call.ps)
    OBVIOUS
  <1>13. PICK y : y = IF call.ps = <<>> THEN x ELSE Emit(x, "block_delta", call.block, "call", call.ps)
    OBVIOUS
  <1>14. ClaudeInv(h, y, R, e) /\ y.sent = TRUE /\ y.calls = A /\ y.thought = Unset /\ y.text = Unset
    <2>1. CASE call.ps = <<>>
      BY <1>9, <1>10, <1>13, <2>1
    <2>2. CASE call.ps # <<>>
      <3>1. PICK id : id = call.block  OBVIOUS
      <3>2. PICK ps : ps = call.ps  OBVIOUS
      <3>3. y = Emit(x, "block_delta", id, "call", ps)  BY <1>13, <2>2, <3>1, <3>2
      <3>4. id \in Nat /\ ps \in Seq(Int) /\ IsOpen(x, id, "call") /\ "call" \in Kinds
        BY <1>4, <1>11, <3>1, <3>2, Literals
      <3>5. ClaudeInv(h, y, R, e) /\ y.sent = TRUE /\ y.calls = x.calls /\ y.thought = x.thought
            /\ y.text = x.text
        <4>1. h \in Seq(Frames) /\ ClaudeInv(h, x, R, e) /\ x.sent = TRUE  BY <1>9, <1>10
        <4>2. ClaudeInv(h, y, R, e)  BY ONLY <4>1, <3>3, <3>4, DeltaKeeps
        <4>3. y.sent = TRUE  BY ONLY <4>1, <3>3, <3>4, DeltaKeeps
        <4>4. y.calls = x.calls  BY ONLY <1>10, <3>3 DEF Emit, ClaudeStates
        <4>5. y.thought = x.thought  BY ONLY <1>10, <3>3 DEF Emit, ClaudeStates
        <4>6. y.text = x.text  BY ONLY <1>10, <3>3 DEF Emit, ClaudeStates
        <4> QED BY ONLY <4>2, <4>3, <4>4, <4>5, <4>6
      <3> QED BY <1>10, <3>5
    <2> QED BY <2>1, <2>2
  <1>15. /\ w \in ClaudeStates /\ w.sent = TRUE /\ w.thought = Unset /\ w.text = Unset
         /\ y = [w EXCEPT !.calls = A] /\ y.next = w.next /\ y.out = w.out
    <2>1. CASE call.ps = <<>>
      BY <1>8, <1>9, <1>10, <1>12, <1>13, <2>1
    <2>2. CASE call.ps # <<>>
      <3>1. PICK f : f = Frame("block_delta", call.block, "call", call.ps)  OBVIOUS
      <3>2. f \in Frames  BY <1>4, <3>1, Literals DEF Frame, Frames
      <3>3. w = [v EXCEPT !.out = Append(v.out, f)] /\ y = [x EXCEPT !.out = Append(x.out, f)]
        BY <1>12, <1>13, <2>2, <3>1 DEF Emit
      <3>4. Append(v.out, f) \in Seq(Frames)  BY <1>9, <3>2 DEF ClaudeStates
      <3> QED BY <1>7, <1>8, <1>9, <1>10, <3>3, <3>4 DEF ClaudeStates
    <2> QED BY <2>1, <2>2
  \* The end of the block.
  <1>16. PICK g : g = Frame("block_stop", call.block, "call", <<>>)  OBVIOUS
  <1>17. g \in Frames  BY <1>4, <1>16, Literals DEF Frame, Frames
  <1>18. PICK u : u = Emit(w, "block_stop", call.block, "call", <<>>)  OBVIOUS
  <1>19. u = [w EXCEPT !.out = Append(w.out, g)]  BY <1>16, <1>18 DEF Emit
  <1>20. u = CloseClaudeCall(v, calls[k])  BY <1>3, <1>12, <1>18 DEF CloseClaudeCall
  <1>21. Append(w.out, g) \in Seq(Frames)  BY <1>15, <1>17 DEF ClaudeStates
  <1>22. PICK d : d = [u EXCEPT !.calls = B]  OBVIOUS
  <1>23. /\ u \in ClaudeStates /\ u.sent = TRUE /\ u.thought = Unset /\ u.text = Unset
         /\ d \in ClaudeStates /\ d.sent = TRUE /\ d.thought = Unset /\ d.text = Unset
         /\ d.calls = B /\ d.next = w.next /\ d.out = Append(w.out, g)
    BY <1>7, <1>15, <1>19, <1>21, <1>22 DEF ClaudeStates
  <1>24. IsOpen(y, call.block, "call")  BY <1>10, <1>11, <1>14 DEF IsOpen
  <1>25. BlocksOf(B) = BlocksOf(A) \ {call.block}
    BY <1>1, <1>3, <1>5, <1>6, RestOpen
  <1>26. \A i \in Int, kind \in Kinds :
            IsOpen(d, i, kind) <=> IsOpen(y, i, kind) /\ ~(i = call.block /\ kind = "call")
    <2> SUFFICES ASSUME NEW i \in Int, NEW kind \in Kinds
                 PROVE  IsOpen(d, i, kind) <=> IsOpen(y, i, kind) /\ ~(i = call.block /\ kind = "call")
      OBVIOUS
    <2>1. (\E j \in DOMAIN B : B[j].block = i)
              <=> (\E j \in DOMAIN A : A[j].block = i) /\ i # call.block
      BY ONLY <1>25 DEF BlocksOf
    <2>2. d.thought = Unset /\ d.text = Unset /\ y.thought = Unset /\ y.text = Unset
      BY ONLY <1>14, <1>23
    <2>3. d.calls = B /\ y.calls = A  BY ONLY <1>14, <1>23
    <2> QED BY ONLY <2>1, <2>2, <2>3 DEF IsOpen
  <1>27. Apart(d)
    <2>1. \A j \in 1..(n - k) : B[j] = calls[j + k]  BY <1>1, <1>2, <1>6, RestIs
    <2>2. DOMAIN B = 1..(n - k)  BY <1>1, <1>2, <1>6, RestIs
    <2>3. ASSUME NEW i \in 1..(n - k), NEW j \in 1..(n - k), B[i].block = B[j].block
          PROVE  i = j
      <3>1. i + k \in 1..n /\ j + k \in 1..n  BY <1>2
      <3>2. calls[i + k].block = calls[j + k].block  BY <2>1, <2>3
      <3>3. i + k = j + k  BY <1>1, <3>1, <3>2 DEF Distinct
      <3> QED BY <1>2, <3>3
    <2> QED BY ONLY <1>23, <2>2, <2>3 DEF Apart
  <1>28. Closed(y, d, call.block, "call")
    BY <1>15, <1>16, <1>23, <1>26, <1>27 DEF Closed
  <1>29. ClaudeInv(h, d, R, e)
    <2>1. PICK id : id = call.block  OBVIOUS
    <2>2. id \in Nat /\ IsOpen(y, id, "call") /\ Closed(y, d, id, "call") /\ "call" \in Kinds
      BY <1>4, <1>24, <1>28, <2>1, Literals
    <2> QED BY <1>14, <2>2, StopKeeps
  <1>30. d = WithCalls(u, calls, k)  BY <1>1, <1>6, <1>22 DEF WithCalls
  <1> QED BY <1>20, <1>23, <1>29, <1>30 DEF Closing

\* Nothing is open in a message that has not ended.
AllShut(s) == NoEnd(s) => s # <<>> /\ \A id \in Int, kind \in Kinds : ~Opens(s, id, kind)

\* message_delta and message_stop, once every block has stopped.
LEMMA FinishSound ==
    ASSUME NEW s, NEW R, NEW e, ClaudeSound(s, R, e), AllShut(s), NEW r \in Kinds, r \in R,
           NEW f, f = Frame("message_delta", 0, r, <<>>),
           NEW g, g = Frame("message_stop", 0, "none", <<>>)
    PROVE  /\ ClaudeSound(Append(Append(s, f), g), R, TRUE)
           /\ ~NoEnd(Append(Append(s, f), g))
  <1>1. /\ f \in Frames /\ f.t = "message_delta" /\ f.kind = r
        /\ g \in Frames /\ g.t = "message_stop"
    BY Literals DEF Frame, Frames
  <1>2. s \in Seq(Frames)  BY DEF ClaudeSound
  <1>p. PICK z : z = Append(s, f)  OBVIOUS
  <1>3. z \in Seq(Frames) /\ z # <<>>  BY <1>1, <1>2, <1>p, AppendNotEmpty
  <1>4. MayFollow(s, f, R)  BY <1>1 DEF MayFollow, FitsAfter, AllShut
  <1>5. ClaudeSound(z, R, e)  BY <1>4, <1>p, SoundGoesOn
  <1>6. NoEnd(z) => NoEnd(s)  BY <1>1, <1>2, <1>p, AppendEnds
  <1>7. \A id \in Int, kind \in Kinds : Opens(z, id, kind) <=> Opens(s, id, kind)
    <2> SUFFICES ASSUME NEW id \in Int, NEW kind \in Kinds
                 PROVE  Opens(z, id, kind) <=> Opens(s, id, kind)
      OBVIOUS
    <2>1. Has(z, "block_start", id, kind) <=> Has(s, "block_start", id, kind)
      BY <1>1, <1>2, <1>p, AppendHas
    <2>2. Has(z, "block_stop", id, kind) <=> Has(s, "block_stop", id, kind)
      BY <1>1, <1>2, <1>p, AppendHas
    <2> QED BY <2>1, <2>2 DEF Opens
  <1>8. MayFollow(z, g, R)
    BY <1>1, <1>3, <1>6, <1>7 DEF MayFollow, FitsAfter, AllShut
  <1>9. ClaudeSound(Append(z, g), R, e)  BY <1>5, <1>8, SoundGoesOn
  <1>10. ~NoEnd(Append(z, g))  BY <1>1, <1>3, AppendEnds DEF Ends
  <1> QED BY <1>9, <1>10, <1>p DEF ClaudeSound

\* Once a message has ended, whatever is added to it changes nothing.
Over(h, R, e) == {v \in ClaudeStates : ClaudeSound(h \o v.out, R, e) /\ ~NoEnd(h \o v.out)}

\* A frame sent after the message has ended is one nobody reads.
LEMMA EmitAfterEnd ==
    ASSUME NEW h \in Seq(Frames), NEW R, NEW e, NEW v \in Over(h, R, e), NEW f \in Frames,
           f.t \in {"block_delta", "block_stop"}, NEW w, w = [v EXCEPT !.out = Append(v.out, f)]
    PROVE  w \in Over(h, R, e)
  <1>1. v \in ClaudeStates /\ ClaudeSound(h \o v.out, R, e) /\ ~NoEnd(h \o v.out)
    BY DEF Over
  <1>2. Emitted(v, f, w)  BY <1>1, EmitOut
  <1>3. v.out \in Seq(Frames)  BY <1>1 DEF ClaudeStates
  <1>4. h \o w.out = Append(h \o v.out, f) /\ h \o v.out \in Seq(Frames)
    BY <1>2, <1>3 DEF Emitted
  <1>5. MayFollow(h \o v.out, f, R)  BY <1>1 DEF MayFollow
  <1>6. ClaudeSound(h \o w.out, R, e)  BY <1>1, <1>4, <1>5, SoundGoesOn
  <1>p. PICK s : s = h \o v.out  OBVIOUS
  <1>7. ~NoEnd(Append(s, f))  BY <1>1, <1>4, <1>p, AppendEnds
  <1> QED BY <1>2, <1>4, <1>6, <1>7, <1>p DEF Over, Emitted

\* A call closed after the message has ended.
LEMMA CloseCallAfterEnd ==
    ASSUME NEW h \in Seq(Frames), NEW R, NEW e, NEW v \in Over(h, R, e), NEW call \in ClaudeCalls
    PROVE  CloseClaudeCall(v, call) \in Over(h, R, e)
  <1>1. call.block \in Int /\ call.ps \in Seq(Int)  BY DEF ClaudeCalls
  <1>2. PICK f : f = Frame("block_delta", call.block, "call", call.ps)  OBVIOUS
  <1>3. PICK g : g = Frame("block_stop", call.block, "call", <<>>)  OBVIOUS
  <1>4. f \in Frames /\ g \in Frames /\ f.t = "block_delta" /\ g.t = "block_stop"
    BY <1>1, <1>2, <1>3, Literals DEF Frame, Frames
  <1>5. PICK w : w = IF call.ps = <<>> THEN v ELSE [v EXCEPT !.out = Append(v.out, f)]
    OBVIOUS
  <1>6. w \in Over(h, R, e)
    <2>1. CASE call.ps = <<>>  BY <1>5, <2>1
    <2>2. CASE call.ps # <<>>  BY <1>4, <1>5, <2>2, EmitAfterEnd
    <2> QED BY <2>1, <2>2
  <1>7. PICK u : u = [w EXCEPT !.out = Append(w.out, g)]  OBVIOUS
  <1>8. u \in Over(h, R, e)  BY <1>4, <1>6, <1>7, EmitAfterEnd
  <1>9. w = IF call.ps = <<>> THEN v ELSE Emit(v, "block_delta", call.block, "call", call.ps)
    BY <1>2, <1>5 DEF Emit
  <1>10. u = Emit(w, "block_stop", call.block, "call", <<>>)  BY <1>3, <1>7 DEF Emit
  <1>11. u = CloseClaudeCall(v, call)  BY <1>9, <1>10 DEF CloseClaudeCall
  <1> QED BY <1>8, <1>11

\* Every call of a message is closed before it ends.
LEMMA CallsAreClosed ==
    ASSUME NEW h \in Seq(Frames), NEW R, NEW e, NEW c, ClaudeInv(h, c, R, e), c.sent = TRUE,
           c.thought = Unset, c.text = Unset,
           NEW d, d = FoldLeft(CloseClaudeCall, c, c.calls)
    PROVE  d \in ClaudeStates /\ ClaudeSound(h \o d.out, R, e) /\ AllShut(h \o d.out)
  <1>1. PICK calls : calls = c.calls  OBVIOUS
  <1>2. c \in ClaudeStates /\ calls \in Seq(ClaudeCalls)  BY <1>1 DEF ClaudeInv, ClaudeStates
  <1>3. PICK n \in Nat : n = Len(calls)  BY <1>2, AppendKeeps
  <1>4. DOMAIN calls = 1..n /\ \A k \in 1..n : calls[k] \in ClaudeCalls  BY <1>2, <1>3
  <1>5. CASE ~NoEnd(h \o c.out)
    <2> DEFINE U == Over(h, R, e)
               D == [k \in 0..n |-> U]
    <2>1. c \in U  BY <1>2, <1>5 DEF Over, ClaudeInv
    <2>2. \A k \in 1..n : \A v \in U : CloseClaudeCall(v, calls[k]) \in U
      BY <1>4, CloseCallAfterEnd
    <2>3. \A k \in 0..n : D[k] = U  OBVIOUS
    <2> HIDE DEF U, D
    <2>4. d \in U
      <3>1. \A k \in 1..n : k - 1 \in 0..n /\ k \in 0..n  OBVIOUS
      <3>2. FoldLeft(CloseClaudeCall, c, calls) \in D[n]
        <4>1. \A k \in 1..n : \A v \in D[k - 1] : CloseClaudeCall(v, calls[k]) \in D[k]
          BY <2>2, <2>3, <3>1
        <4>2. c \in D[0] /\ n \in Nat  BY <2>1, <2>3
        <4> QED BY ONLY <1>4, <4>1, <4>2, CloseClaudeCallFolds
      <3> QED BY <1>1, <2>3, <3>2
    <2> QED BY <2>4 DEF U, Over, AllShut
  <1>6. CASE NoEnd(h \o c.out)
    <2> DEFINE D == [k \in 0..n |-> Closing(h, R, e, calls, k)]
    <2>1. Distinct(calls)
      <3>1. InStep(h \o c.out, c)  BY <1>6, StepsIn
      <3> QED BY <1>1, <3>1 DEF InStep, Apart, Distinct
    <2>2. c \in Closing(h, R, e, calls, 0)
      <3>1. WithCalls(c, calls, 0) = c
        <4>1. SubSeq(calls, 0 + 1, Len(calls)) = calls  BY <1>2
        <4> QED BY <1>1, <1>2, <4>1 DEF WithCalls, ClaudeStates
      <3> QED BY <1>2, <3>1 DEF Closing
    <2>3. \A k \in 1..n : \A v \in Closing(h, R, e, calls, k - 1) :
              CloseClaudeCall(v, calls[k]) \in Closing(h, R, e, calls, k)
      BY <1>2, <1>3, <2>1, CloseCallKeeps
    <2>4. \A k \in 0..n : D[k] = Closing(h, R, e, calls, k)  OBVIOUS
    <2>6. \A k \in 1..n : k - 1 \in 0..n /\ k \in 0..n  OBVIOUS
    <2>7. 0 \in 0..n /\ n \in 0..n  OBVIOUS
    <2> HIDE DEF D
    <2>8. FoldLeft(CloseClaudeCall, c, calls) \in D[n]
      <3>1. \A k \in 1..n : \A v \in D[k - 1] : CloseClaudeCall(v, calls[k]) \in D[k]
        BY <2>3, <2>4, <2>6
      <3>2. c \in D[0]  BY <2>2, <2>4, <2>7
      <3> QED BY ONLY <1>3, <1>4, <3>1, <3>2, CloseClaudeCallFolds
    <2>9. d \in Closing(h, R, e, calls, n)  BY <1>1, <2>4, <2>7, <2>8
    <2>10. PICK x : x = WithCalls(d, calls, n)  OBVIOUS
    <2>11. SubSeq(calls, n + 1, n) = <<>>  BY <1>2, <1>3
    <2>12. /\ d \in ClaudeStates /\ d.thought = Unset /\ d.text = Unset /\ d.sent = TRUE
           /\ ClaudeInv(h, x, R, e) /\ x = [d EXCEPT !.calls = <<>>]
      BY <1>3, <2>9, <2>10, <2>11 DEF Closing, WithCalls
    <2>13. x.out = d.out /\ x.sent = TRUE /\ x.calls = <<>> /\ x.thought = Unset /\ x.text = Unset
      BY <2>12 DEF ClaudeStates
    <2>14. \A id, kind : ~IsOpen(x, id, kind)
      <3>1. DOMAIN <<>> = {}  OBVIOUS
      <3> QED BY <2>13, <3>1 DEF IsOpen
    <2>15. AllShut(h \o d.out)
      BY <2>12, <2>13, <2>14, StepsIn DEF AllShut, InStep
    <2> QED BY <2>12, <2>13, <2>15 DEF ClaudeInv
  <1> QED BY <1>5, <1>6

\* A frame appended to the second of two sequences.
LEMMA ConcatAppend ==
    ASSUME NEW X, NEW s \in Seq(X), NEW o \in Seq(X), NEW f \in X
    PROVE  s \o Append(o, f) = Append(s \o o, f) /\ Append(o, f) \in Seq(X) /\ s \o o \in Seq(X)
  OBVIOUS

\* The finish of a Claude message: all blocks stop, then the message.
LEMMA ClaudeFinishKeeps ==
    ASSUME NEW h \in Seq(Frames), NEW R, NEW e, NEW c, ClaudeInv(h, c, R, e), c.sent = TRUE,
           NEW r \in Kinds, r \in R
    PROVE  ClaudeInv(h, ClaudeFinish(c, r), R, TRUE) \/ r = "none"
  <1> SUFFICES ASSUME r # "none" PROVE ClaudeInv(h, ClaudeFinish(c, r), R, TRUE)
    OBVIOUS
  <1>1. PICK a : a = StopThinkingBlock(c)  OBVIOUS
  <1>2. PICK b : b = StopTextBlock(a)  OBVIOUS
  <1>3. /\ ClaudeInv(h, a, R, e) /\ a.sent = TRUE /\ a.thought = Unset /\ a.calls = c.calls
    <2>1. ClaudeInv(h, a, R, e) /\ a.sent = TRUE /\ a.thought = Unset  BY <1>1, StopThinkingKeeps
    <2>2. c \in ClaudeStates  BY DEF ClaudeInv
    <2>3. a.calls = c.calls  BY <1>1, <2>2 DEF StopThinkingBlock, Emit, ClaudeStates
    <2> QED BY <2>1, <2>3
  <1>4. /\ ClaudeInv(h, b, R, e) /\ b.sent = TRUE /\ b.text = Unset
        /\ b.thought = Unset /\ b.calls = c.calls
    <2>0. h \in Seq(Frames) /\ ClaudeInv(h, a, R, e) /\ a.sent = TRUE  BY <1>3
    <2>1. ClaudeInv(h, b, R, e) /\ b.sent = TRUE /\ b.text = Unset
      BY ONLY <1>2, <2>0, StopTextKeeps
    <2>2. a \in ClaudeStates  BY <1>3 DEF ClaudeInv
    <2>3. b.calls = a.calls /\ b.thought = a.thought
      BY <1>2, <2>2 DEF StopTextBlock, Emit, ClaudeStates
    <2> QED BY <1>3, <2>1, <2>3
  <1>5. PICK d : d = FoldLeft(CloseClaudeCall, b, b.calls)  OBVIOUS
  <1>6. d \in ClaudeStates /\ ClaudeSound(h \o d.out, R, e) /\ AllShut(h \o d.out)
    BY <1>4, <1>5, CallsAreClosed
  <1>7. PICK f : f = Frame("message_delta", 0, r, <<>>)  OBVIOUS
  <1>8. PICK g : g = Frame("message_stop", 0, "none", <<>>)  OBVIOUS
  <1>9. f \in Frames /\ g \in Frames  BY <1>7, <1>8, Literals DEF Frame, Frames
  <1>10. PICK w : w = [d EXCEPT !.out = Append(d.out, f)]  OBVIOUS
  <1>11. PICK u : u = [w EXCEPT !.out = Append(w.out, g)]  OBVIOUS
  <1>12. Emitted(d, f, w)  BY <1>6, <1>9, <1>10, EmitOut
  <1>12s. w \in ClaudeStates  BY <1>12 DEF Emitted
  <1>13. Emitted(w, g, u)  BY <1>9, <1>11, <1>12s, EmitOut
  <1>14. u.out = Append(Append(d.out, f), g) /\ u \in ClaudeStates
    BY <1>12, <1>13 DEF Emitted
  <1>15. d.out \in Seq(Frames)  BY <1>6 DEF ClaudeStates
  <1>16. h \o u.out = Append(Append(h \o d.out, f), g)
    <2>1. PICK o : o = Append(d.out, f)  OBVIOUS
    <2>2. o \in Seq(Frames) /\ h \o o = Append(h \o d.out, f)  BY <1>9, <1>15, <2>1, ConcatAppend
    <2>3. h \o Append(o, g) = Append(h \o o, g)
      <3>1. h \in Seq(Frames) /\ o \in Seq(Frames) /\ g \in Frames  BY <1>9, <2>2
      <3> QED BY ONLY <3>1, ConcatAppend
    <2> QED BY <1>14, <2>1, <2>2, <2>3
  <1>17. PICK s : s = h \o d.out  OBVIOUS
  <1>18. ClaudeSound(Append(Append(s, f), g), R, TRUE) /\ ~NoEnd(Append(Append(s, f), g))
    BY <1>6, <1>7, <1>8, <1>17, FinishSound
  <1>19. ClaudeInv(h, u, R, TRUE)  BY <1>14, <1>16, <1>17, <1>18 DEF ClaudeInv
  <1>20. u = Emit(Emit(d, "message_delta", 0, r, <<>>), "message_stop", 0, "none", <<>>)
    <2>1. w = Emit(d, "message_delta", 0, r, <<>>)  BY <1>7, <1>10 DEF Emit
    <2>2. u = Emit(w, "message_stop", 0, "none", <<>>)  BY <1>8, <1>11 DEF Emit
    <2> QED BY <2>1, <2>2
  <1>21. u = ClaudeFinish(c, r)
    <2>1. d = FoldLeft(CloseClaudeCall, StopTextBlock(StopThinkingBlock(c)), c.calls)
      BY <1>1, <1>2, <1>4, <1>5
    <2> QED BY ONLY <1>20, <2>1, r # "none" DEF ClaudeFinish
  <1> QED BY <1>19, <1>21

\* A whole chunk sent to a Claude client.
LEMMA ToClaudeKeeps ==
    ASSUME NEW h \in Seq(Frames), NEW R, NEW e, NEW c, ClaudeInv(h, c, R, e),
           NEW chunk \in Chunks, chunk.finish = "none" \/ chunk.finish \in R
    PROVE  ClaudeInv(h, ToClaude(c, chunk), R, e \/ chunk.finish # "none")
  <1>0. /\ chunk.text \in Seq(Int) /\ chunk.thought \in Seq(Int) /\ chunk.calls \in Seq(CallParts)
        /\ chunk.finish \in Finishes
    BY DEF Chunks
  <1>1. PICK a : a = MessageStart(c)  OBVIOUS
  <1>2. PICK b : b = ClaudeThought(a, chunk.thought)  OBVIOUS
  <1>3. PICK d : d = ClaudeText(b, chunk.text)  OBVIOUS
  <1>4. PICK g : g = FoldLeft(ClaudeToolCall, d, chunk.calls)  OBVIOUS
  <1>5. PICK r : r = chunk.finish  OBVIOUS
  <1>6. ClaudeInv(h, a, R, e) /\ a.sent = TRUE  BY <1>1, MessageStartKeeps
  <1>7. ClaudeInv(h, b, R, e) /\ b.sent = TRUE  BY <1>0, <1>2, <1>6, ThoughtKeeps
  <1>8. ClaudeInv(h, d, R, e) /\ d.sent = TRUE  BY <1>0, <1>3, <1>7, TextKeeps
  <1>9. ClaudeInv(h, g, R, e) /\ g.sent = TRUE
    <2>1. PICK calls : calls = chunk.calls  OBVIOUS
    <2>2. ClaudeInv(h, FoldLeft(ClaudeToolCall, d, calls), R, e)
      BY <1>0, <1>8, <2>1, ToolCallsKeep
    <2>3. FoldLeft(ClaudeToolCall, d, calls).sent = TRUE
      BY <1>0, <1>8, <2>1, ToolCallsKeep
    <2> QED BY <1>4, <2>1, <2>2, <2>3
  <1>10. ToClaude(c, chunk) = ClaudeFinish(g, r)
    BY ONLY <1>1, <1>2, <1>3, <1>4, <1>5 DEF ToClaude
  <1>11. CASE r = "none"
    <2>1. ClaudeFinish(g, r) = g  BY <1>11 DEF ClaudeFinish
    <2>2. (e \/ r # "none") = e \/ ClaudeInv(h, g, R, e \/ r # "none")
      BY <1>9, <1>11 DEF ClaudeInv, ClaudeSound
    <2> QED BY <1>5, <1>9, <1>10, <1>11, <2>1 DEF ClaudeInv, ClaudeSound
  <1>12. CASE r # "none"
    <2>1. r \in Kinds /\ r \in R  BY <1>0, <1>5, <1>12 DEF Finishes, Kinds
    <2>2. ClaudeInv(h, ClaudeFinish(g, r), R, TRUE)  BY <1>9, <1>12, <2>1, ClaudeFinishKeeps
    <2> QED BY <1>5, <1>10, <1>12, <2>2 DEF ClaudeInv, ClaudeSound
  <1> QED BY <1>11, <1>12

\* What FlattenSeq's function is.
Flattens(g, ss, n) ==
    /\ g \in [1..n -> Seq(Int)]
    /\ \A i \in 1..n : g[i] = IF i = 1 THEN ss[i] ELSE g[i - 1] \o ss[i]

\* The sequence that flattens n parts goes on to one that flattens n + 1.
LEMMA FlattensOn ==
    ASSUME NEW n \in Nat, NEW ss \in [1..(n + 1) -> Seq(Int)],
           NEW h, Flattens(h, ss, n)
    PROVE  \E g : Flattens(g, ss, n + 1)
  <1>1. PICK x : x = IF n = 0 THEN ss[n + 1] ELSE h[n] \o ss[n + 1]  OBVIOUS
  <1>2. n + 1 \in 1..(n + 1) /\ (n # 0 => n \in 1..n)  OBVIOUS
  <1>3. x \in Seq(Int)
    <2>1. ss[n + 1] \in Seq(Int)  BY <1>2
    <2>2. CASE n = 0  BY <1>1, <2>1, <2>2
    <2>3. CASE n # 0
      <3>1. h[n] \in Seq(Int)  BY <1>2, <2>3 DEF Flattens
      <3> QED BY <1>1, <2>1, <2>3, <3>1, ConcatProperties
    <2> QED BY <2>2, <2>3
  <1>4. PICK g : g = [i \in 1..(n + 1) |-> IF i = n + 1 THEN x ELSE h[i]]  OBVIOUS
  <1>5. \A i \in 1..n : i \in 1..(n + 1) /\ i # n + 1 /\ (i # 1 => i - 1 \in 1..n)  OBVIOUS
  <1>6. \A i \in 1..(n + 1) : i \in 1..n \/ i = n + 1  BY UpToNext
  <1>7. g \in [1..(n + 1) -> Seq(Int)]
    <2> SUFFICES ASSUME NEW i \in 1..(n + 1) PROVE g[i] \in Seq(Int)
      BY <1>4
    <2>1. i = n + 1 \/ i \in 1..n  BY <1>6
    <2> QED BY <1>3, <1>4, <2>1 DEF Flattens
  <1>8. \A i \in 1..n : g[i] = h[i]  BY <1>4, <1>5
  <1>9. ASSUME NEW i \in 1..(n + 1)
        PROVE  g[i] = IF i = 1 THEN ss[i] ELSE g[i - 1] \o ss[i]
    <2>1. CASE i \in 1..n
      BY <1>5, <1>8, <2>1 DEF Flattens
    <2>2. CASE i = n + 1
      <3>1. g[i] = x /\ (i = 1 <=> n = 0) /\ i - 1 = n  BY <1>2, <1>4, <2>2
      <3>2. n # 0 => g[n] = h[n]  BY <1>2, <1>8
      <3> QED BY <1>1, <2>2, <3>1, <3>2
    <2> QED BY <1>6, <2>1, <2>2
  <1>10. Flattens(g, ss, n + 1)  BY <1>7, <1>9 DEF Flattens
  <1> QED BY <1>10

\* Parts can be flattened.
LEMMA FlattensExist ==
    ASSUME NEW n \in Nat, NEW ss \in [1..n -> Seq(Int)]
    PROVE  \E g : Flattens(g, ss, n)
  <1> DEFINE T == {m \in Nat : \A s \in [1..m -> Seq(Int)] : \E g : Flattens(g, s, m)}
  <1>1. 0 \in T
    <2> SUFFICES ASSUME NEW s \in [1..0 -> Seq(Int)] PROVE Flattens(s, s, 0)
      OBVIOUS
    <2>1. 1..0 = {}  OBVIOUS
    <2> QED BY <2>1 DEF Flattens
  <1>2. ASSUME NEW m \in Nat, m \in T PROVE m + 1 \in T
    <2> SUFFICES ASSUME NEW s \in [1..(m + 1) -> Seq(Int)] PROVE \E g : Flattens(g, s, m + 1)
      OBVIOUS
    <2>1. \A i \in 1..m : i \in 1..(m + 1)  OBVIOUS
    <2>2. PICK q : q = [i \in 1..m |-> s[i]]  OBVIOUS
    <2>3. q \in [1..m -> Seq(Int)] /\ \A i \in 1..m : q[i] = s[i]  BY <2>1, <2>2
    <2>4. PICK h : Flattens(h, q, m)  BY <1>2, <2>3
    <2>5. Flattens(h, s, m)  BY <2>3, <2>4 DEF Flattens
    <2> QED BY <2>5, FlattensOn
  <1> HIDE DEF T
  <1>3. n \in T  BY <1>1, <1>2, ByInduction
  <1> QED BY <1>3 DEF T

\* There is one way to flatten parts.
LEMMA FlattensOnce ==
    ASSUME NEW n \in Nat, NEW ss, NEW g, NEW h, NEW m \in Nat, m >= n,
           Flattens(g, ss, n), Flattens(h, ss, m)
    PROVE  \A i \in 1..n : g[i] = h[i]
  <1> DEFINE T == {k \in Nat : k + 1 <= n => g[k + 1] = h[k + 1]}
  <1>1. 0 \in T
    <2> SUFFICES ASSUME 1 <= n PROVE g[1] = h[1]
      OBVIOUS
    <2>1. 1 \in 1..n /\ 1 \in 1..m  OBVIOUS
    <2> QED BY <2>1 DEF Flattens
  <1>2. ASSUME NEW k \in Nat, k \in T PROVE k + 1 \in T
    <2> SUFFICES ASSUME (k + 1) + 1 <= n PROVE g[(k + 1) + 1] = h[(k + 1) + 1]
      OBVIOUS
    <2>1. PICK i : i = (k + 1) + 1  OBVIOUS
    <2>2. i \in 1..n /\ i \in 1..m /\ i # 1 /\ i - 1 = k + 1 /\ k + 1 <= n  BY <2>1
    <2>3. g[i] = g[i - 1] \o ss[i] /\ h[i] = h[i - 1] \o ss[i]  BY <2>2 DEF Flattens
    <2>4. g[k + 1] = h[k + 1]  BY <1>2, <2>2
    <2> QED BY <2>1, <2>2, <2>3, <2>4
  <1> HIDE DEF T
  <1>3. \A k \in Nat : k \in T  BY <1>1, <1>2, ByInduction
  <1> SUFFICES ASSUME NEW i \in 1..n PROVE g[i] = h[i]
    OBVIOUS
  <1>4. i - 1 \in Nat /\ (i - 1) + 1 = i /\ i <= n  OBVIOUS
  <1>5. i - 1 \in T  BY <1>3, <1>4
  <1> QED BY <1>4, <1>5 DEF T

\* FlattenSeq is the last value of its function.
LEMMA FlattenIs ==
    ASSUME NEW n \in Nat, n # 0, NEW ss \in [1..n -> Seq(Int)], NEW h, Flattens(h, ss, n)
    PROVE  FlattenSeq(ss) = h[n] /\ h[n] \in Seq(Int)
  <1>0. DOMAIN ss = 1..n /\ Len(ss) = n /\ n \in 1..n
    <2>1. ss \in Seq(Seq(Int)) /\ DOMAIN ss = 1..n  OBVIOUS
    <2>2. Len(ss) = n  BY <2>1, LenProperties
    <2> QED BY <2>1, <2>2
  <1> DEFINE Goes(f) == f = [i \in 1..n |-> IF i = 1 THEN ss[i] ELSE f[i - 1] \o ss[i]]
             g == CHOOSE f : Goes(f)
  <1>1. Goes(h)
    <2>1. h = [i \in 1..n |-> h[i]]  BY DEF Flattens
    <2> QED BY <2>1 DEF Flattens
  <1>2. Goes(g)  BY <1>1
  <1>3. FlattenSeq(ss) = g[n]  BY <1>0 DEF FlattenSeq
  <1> HIDE DEF g
  <1> DEFINE T == {k \in Nat : k + 1 <= n => g[k + 1] = h[k + 1]}
  <1>4. \A i \in 1..n : g[i] = IF i = 1 THEN ss[i] ELSE g[i - 1] \o ss[i]  BY <1>2
  <1>5. 0 \in T
    <2>1. 1 \in 1..n  BY <1>0
    <2> QED BY <1>4, <2>1 DEF Flattens
  <1>6. ASSUME NEW k \in Nat, k \in T PROVE k + 1 \in T
    <2> SUFFICES ASSUME (k + 1) + 1 <= n PROVE g[(k + 1) + 1] = h[(k + 1) + 1]
      OBVIOUS
    <2>1. PICK i : i = (k + 1) + 1  OBVIOUS
    <2>2. i \in 1..n /\ i # 1 /\ i - 1 = k + 1 /\ k + 1 <= n  BY <2>1
    <2>3. h[i] = h[i - 1] \o ss[i]  BY <2>2 DEF Flattens
    <2>4. g[i] = g[i - 1] \o ss[i]  BY <1>4, <2>2
    <2>5. g[k + 1] = h[k + 1]  BY <1>6, <2>2
    <2> QED BY <2>1, <2>2, <2>3, <2>4, <2>5
  <1> HIDE DEF T
  <1>7. \A k \in Nat : k \in T  BY <1>5, <1>6, ByInduction
  <1>8. n - 1 \in Nat /\ (n - 1) + 1 = n  OBVIOUS
  <1>9. n - 1 \in T  BY <1>7, <1>8
  <1>10. g[n] = h[n]  BY <1>8, <1>9 DEF T
  <1> QED BY <1>0, <1>3, <1>10 DEF Flattens

\* FlattenSeq, from one part to the next.
LEMMA FlattenAppend ==
    ASSUME NEW n \in Nat, NEW ss \in [1..(n + 1) -> Seq(Int)],
           NEW tt, tt = [i \in 1..n |-> ss[i]]
    PROVE  /\ FlattenSeq(ss) = FlattenSeq(tt) \o ss[n + 1]
           /\ FlattenSeq(tt) \in Seq(Int) /\ FlattenSeq(ss) \in Seq(Int)
  <1>1. n + 1 \in 1..(n + 1) /\ \A i \in 1..n : i \in 1..(n + 1)  OBVIOUS
  <1>2. tt \in [1..n -> Seq(Int)]  BY <1>1
  <1>3. PICK h : Flattens(h, ss, n + 1)
    <2>1. n + 1 \in Nat  OBVIOUS
    <2> QED BY <2>1, FlattensExist
  <1>4. PICK g : Flattens(g, tt, n)  BY <1>2, FlattensExist
  <1>5. ss[n + 1] \in Seq(Int)  BY <1>1
  <1>6. FlattenSeq(ss) = h[n + 1] /\ h[n + 1] \in Seq(Int)
    <2>1. PICK m : m = n + 1  OBVIOUS
    <2>2. m \in Nat /\ m # 0 /\ ss \in [1..m -> Seq(Int)] /\ Flattens(h, ss, m)  BY <1>3, <2>1
    <2> QED BY <2>1, <2>2, FlattenIs
  <1>7. CASE n = 0
    <2>1. tt = <<>>  BY <1>2, <1>7
    <2>2. FlattenSeq(tt) = <<>>  BY <2>1 DEF FlattenSeq
    <2>3. h[n + 1] = ss[n + 1]  BY <1>1, <1>3, <1>7 DEF Flattens
    <2>4. <<>> \in Seq(Int) /\ <<>> \o ss[n + 1] = ss[n + 1]  BY <1>5
    <2> QED BY <1>6, <2>2, <2>3, <2>4
  <1>8. CASE n # 0
    <2>1. FlattenSeq(tt) = g[n] /\ g[n] \in Seq(Int)  BY <1>2, <1>4, <1>8, FlattenIs
    <2>2. Flattens(g, ss, n)  BY <1>4 DEF Flattens
    <2>3. g[n] = h[n]
      <3>1. \A i \in 1..n : g[i] = h[i]
        <4>1. PICK m : m = n + 1  OBVIOUS
        <4>2. m \in Nat /\ m >= n /\ Flattens(h, ss, m)  BY <1>3, <4>1
        <4> QED BY <2>2, <4>2, FlattensOnce
      <3> QED BY <1>8, <3>1
    <2>4. h[n + 1] = h[n] \o ss[n + 1]
      <3>1. n + 1 # 1 /\ (n + 1) - 1 = n  BY <1>8
      <3> QED BY <1>1, <1>3, <3>1 DEF Flattens
    <2> QED BY <1>6, <2>1, <2>3, <2>4
  <1> QED BY <1>7, <1>8

\* Nothing flattens to nothing.
LEMMA FlattenNone == FlattenSeq(<<>>) = <<>>
  BY DEF FlattenSeq

PieceOf(f, id, kind) == IF f.t = "delta" /\ f.id = id /\ f.kind = kind THEN f.ps ELSE <<>>
Sent(s, i, id, kind) == FlattenSeq([j \in 1..i |-> PieceOf(s[j], id, kind)])

\* What an item was sent up to position i does not change when a frame is
\* appended.
LEMMA SentSame ==
    ASSUME NEW s \in Seq(Frames), NEW f \in Frames, NEW id, NEW kind, NEW i \in 1..Len(s)
    PROVE  Sent(Append(s, f), i, id, kind) = Sent(s, i, id, kind)
  <1>1. \A j \in 1..i : j \in 1..Len(s)  BY AppendKeeps
  <1>2. \A j \in 1..i : Append(s, f)[j] = s[j]  BY <1>1, AppendKeeps
  <1>3. [j \in 1..i |-> PieceOf(Append(s, f)[j], id, kind)]
            = [j \in 1..i |-> PieceOf(s[j], id, kind)]
    BY <1>2
  <1> QED BY <1>3 DEF Sent

\* What an item was sent, after a frame more.
LEMMA SentAfter ==
    ASSUME NEW s \in Seq(Frames), NEW f \in Frames, NEW id, NEW kind
    PROVE  /\ Sent(Append(s, f), Len(s) + 1, id, kind)
                  = Sent(s, Len(s), id, kind) \o PieceOf(f, id, kind)
           /\ Sent(s, Len(s), id, kind) \in Seq(Int)
  <1>1. PICK z : z = Append(s, f)  OBVIOUS
  <1>2. PICK n \in Nat : n = Len(s)  BY AppendKeeps
  <1>3. z[n + 1] = f /\ \A i \in 1..n : z[i] = s[i]  BY <1>1, <1>2, AppendKeeps
  <1>5. PICK ss : ss = [j \in 1..(n + 1) |-> PieceOf(z[j], id, kind)]  OBVIOUS
  <1>6. PICK tt : tt = [j \in 1..n |-> PieceOf(s[j], id, kind)]  OBVIOUS
  <1>7. \A j \in 1..n : s[j] \in Frames  BY <1>2
  <1>8. ss \in [1..(n + 1) -> Seq(Int)]
    <2> SUFFICES ASSUME NEW j \in 1..(n + 1) PROVE PieceOf(z[j], id, kind) \in Seq(Int)
      BY <1>5
    <2>1. z[j] \in Frames
      <3>1. j \in 1..n \/ j = n + 1  BY UpToNext
      <3> QED BY <1>3, <1>7, <3>1
    <2>2. z[j].ps \in Seq(Int)  BY <2>1 DEF Frames
    <2> QED BY <2>2, Literals DEF PieceOf
  <1>9. tt = [j \in 1..n |-> ss[j]]
    <2>1. \A j \in 1..n : j \in 1..(n + 1)  OBVIOUS
    <2> QED BY <1>3, <1>5, <1>6, <2>1
  <1>10. ss[n + 1] = PieceOf(f, id, kind)
    <2>1. n + 1 \in 1..(n + 1)  OBVIOUS
    <2> QED BY <1>3, <1>5, <2>1
  <1>11. FlattenSeq(ss) = FlattenSeq(tt) \o ss[n + 1] /\ FlattenSeq(tt) \in Seq(Int)
    BY <1>8, <1>9, FlattenAppend
  <1>12. Sent(z, n + 1, id, kind) = FlattenSeq(ss) /\ Sent(s, n, id, kind) = FlattenSeq(tt)
    BY <1>5, <1>6 DEF Sent
  <1> QED BY <1>1, <1>2, <1>10, <1>11, <1>12

Completes(f) == f.t = "completed"
Going(s) == \A j \in DOMAIN s : ~Completes(s[j])

ResponseFits(s, i) ==
    /\ (s[i].t = "created") = (i = 1) /\ s[i].t # "message_delta"
    /\ s[i].t = "added" => ~Was(s, i, "added", s[i].id, s[i].kind)
    /\ s[i].t \in {"delta", "done"} => /\ Was(s, i, "added", s[i].id, s[i].kind)
                                      /\ s[i].kind # "none"
    /\ s[i].t = "done" => /\ ~Was(s, i, "done", s[i].id, s[i].kind)
                          /\ s[i].ps = Sent(s, i, s[i].id, s[i].kind)
    /\ s[i].t = "completed" =>
          /\ i = Len(s)
          /\ \A j \in 1..(i - 1) : s[j].t = "added" => Was(s, i, "done", s[j].id, s[j].kind)

ResponseSound(s) == s \in Seq(Frames) /\ \A i \in DOMAIN s : ResponseFits(s, i)

MayAnswer(s, f) ==
    /\ f \in Frames
    /\ (f.t = "created") = (s = <<>>) /\ f.t # "message_delta"
    /\ f.t = "added" => ~Has(s, "added", f.id, f.kind)
    /\ f.t \in {"delta", "done"} => Has(s, "added", f.id, f.kind) /\ f.kind # "none"
    /\ f.t = "done" => /\ ~Has(s, "done", f.id, f.kind)
                       /\ f.ps = Sent(s, Len(s), f.id, f.kind)
    /\ f.t = "completed" => \A id \in Int, kind \in Kinds :
                                Has(s, "added", id, kind) => Has(s, "done", id, kind)

\* A response goes on unless the frame appended completes it.
LEMMA AppendGoing ==
    ASSUME NEW X, NEW s \in Seq(X), NEW f \in X
    PROVE  Going(Append(s, f)) <=> Going(s) /\ ~Completes(f)
  <1> PICK z : z = Append(s, f)  OBVIOUS
  <1> PICK n \in Nat : n = Len(s)  BY AppendKeeps
  <1>1. /\ z[n + 1] = f /\ \A i \in 1..n : z[i] = s[i]
        /\ DOMAIN z = 1..(n + 1) /\ DOMAIN s = 1..n
    BY AppendKeeps
  <1>2. 1..(n + 1) = (1..n) \cup {n + 1}  OBVIOUS
  <1> QED BY <1>1, <1>2 DEF Going

\* What a Responses client can parse stays so when the next frame may follow.
LEMMA ResponseAppend ==
    ASSUME NEW s, ResponseSound(s), Going(s), NEW f, MayAnswer(s, f)
    PROVE  ResponseSound(Append(s, f))
  <1>0. s \in Seq(Frames) /\ f \in Frames  BY DEF ResponseSound, MayAnswer
  <1>p1. PICK z : z = Append(s, f)  OBVIOUS
  <1>p2. PICK n \in Nat : n = Len(s)  BY <1>0, AppendKeeps
  <1>1. /\ z[n + 1] = f /\ \A i \in 1..n : z[i] = s[i]
        /\ DOMAIN z = 1..(n + 1) /\ DOMAIN s = 1..n /\ Len(z) = n + 1
    BY <1>0, <1>p1, <1>p2, AppendKeeps
  <1>2. \A i \in 1..(n + 1) : \A t, id, kind : Was(z, i, t, id, kind) <=> Was(s, i, t, id, kind)
    BY <1>0, <1>p1, <1>p2, AppendWas
  <1>3. ASSUME NEW i \in 1..n PROVE ResponseFits(z, i)
    <2>1. ResponseFits(s, i) /\ i \in 1..(n + 1) /\ z[i] = s[i]  BY <1>1 DEF ResponseSound
    <2>2. s[i].t # "completed"  BY <1>1 DEF Going, Completes
    <2>3. \A id, kind : Sent(z, i, id, kind) = Sent(s, i, id, kind)
      <3> SUFFICES ASSUME NEW id, NEW kind PROVE Sent(z, i, id, kind) = Sent(s, i, id, kind)
        OBVIOUS
      <3>1. i \in 1..Len(s)  BY <1>p2
      <3>2. Sent(Append(s, f), i, id, kind) = Sent(s, i, id, kind)
        BY ONLY <1>0, <3>1, SentSame
      <3> QED BY <1>p1, <3>2
    <2> QED BY <1>2, <2>1, <2>2, <2>3 DEF ResponseFits
  <1>4. ResponseFits(z, n + 1)
    <2>1. (n + 1) - 1 = n /\ n + 1 \in 1..(n + 1)  OBVIOUS
    <2>2. \A t, id, kind : Was(z, n + 1, t, id, kind) <=> Has(s, t, id, kind)
      BY <1>2, <1>p2, <2>1 DEF Has
    <2>3. (n + 1 = 1) <=> s = <<>>
      <3>1. s = <<>> <=> n = 0  BY <1>0, <1>p2
      <3> QED BY <3>1
    <2>4. f.t = "done" => f.ps = Sent(z, n + 1, f.id, f.kind)
      <3> SUFFICES ASSUME f.t = "done" PROVE f.ps = Sent(z, n + 1, f.id, f.kind)
        OBVIOUS
      <3>1. PieceOf(f, f.id, f.kind) = <<>>  BY DEF PieceOf
      <3>2. PICK id, kind : id = f.id /\ kind = f.kind  OBVIOUS
      <3>3. /\ Sent(z, n + 1, id, kind) = Sent(s, n, id, kind) \o PieceOf(f, id, kind)
            /\ Sent(s, n, id, kind) \in Seq(Int)
        BY <1>0, <1>p1, <1>p2, SentAfter
      <3>4. Sent(s, n, id, kind) \o <<>> = Sent(s, n, id, kind)  BY <3>3
      <3>5. f.ps = Sent(s, n, f.id, f.kind)  BY <1>p2 DEF MayAnswer
      <3> QED BY <3>1, <3>2, <3>3, <3>4, <3>5
    <2>5. f.t = "completed" =>
              \A j \in 1..n : z[j].t = "added" => Was(z, n + 1, "done", z[j].id, z[j].kind)
      <3> SUFFICES ASSUME f.t = "completed", NEW j \in 1..n, s[j].t = "added"
                   PROVE  Has(s, "done", s[j].id, s[j].kind)
        BY <1>1, <2>2
      <3>1. Has(s, "added", s[j].id, s[j].kind)
        <4>1. (Len(s) + 1) - 1 = n  BY <1>p2
        <4> QED BY <4>1 DEF Has, Was
      <3>2. s[j] \in Frames  BY <1>0, <1>1
      <3>3. s[j].id \in Int /\ s[j].kind \in Kinds  BY <3>2 DEF Frames
      <3> QED BY <3>1, <3>3 DEF MayAnswer
    <2> QED BY <1>1, <2>1, <2>2, <2>3, <2>4, <2>5 DEF ResponseFits, MayAnswer
  <1>5. \A i \in 1..(n + 1) : i \in 1..n \/ i = n + 1  BY UpToNext
  <1>6. z \in Seq(Frames)  BY <1>0, <1>p1
  <1> QED BY <1>1, <1>3, <1>4, <1>5, <1>6, <1>p1 DEF ResponseSound

Items == ({"text", "thought"} \X {0}) \cup ({"call"} \X Int)
ResponseStates ==
    [started : BOOLEAN, completed : BOOLEAN, added : SUBSET Items, done : SUBSET Items,
     text : Seq(Int), thought : Seq(Int), args : UNION {[S -> Seq(Int)] : S \in SUBSET Int},
     out : Seq(Frames)]

Buffer(r, kind, id) == CASE kind = "text" -> r.text
                         [] kind = "thought" -> r.thought
                         [] OTHER -> ArgsOf(r, id)

\* What the state knows of the frames it has sent.
Knowing(s, r) ==
    /\ r.started <=> s # <<>>
    /\ r.completed <=> ~Going(s)
    /\ r.done \subseteq r.added
    /\ \A id \in Int, kind \in Kinds : Has(s, "added", id, kind) <=> <<kind, id>> \in r.added
    /\ \A id \in Int, kind \in Kinds : Has(s, "done", id, kind) <=> <<kind, id>> \in r.done
    /\ \A item \in Items : Sent(s, Len(s), item[2], item[1]) = Buffer(r, item[1], item[2])

ResponseInv(h, r) ==
    /\ r \in ResponseStates /\ IsFiniteSet(r.added)
    /\ ResponseSound(h \o r.out)
    /\ Knowing(h \o r.out, r)

\* d is r after it has sent f and noted it.
Notes(r, f, d) ==
    /\ d \in ResponseStates /\ d.out = Append(r.out, f)
    /\ d.started = TRUE
    /\ d.completed <=> r.completed \/ f.t = "completed"
    /\ d.added = r.added \cup (IF f.t = "added" THEN {<<f.kind, f.id>>} ELSE {})
    /\ d.done = r.done \cup (IF f.t = "done" THEN {<<f.kind, f.id>>} ELSE {})
    /\ d.done \subseteq d.added
    /\ \A item \in Items :
          Buffer(d, item[1], item[2]) = Buffer(r, item[1], item[2]) \o PieceOf(f, item[2], item[1])

\* The same with the state, when it notes the frame.
LEMMA ResponseGoesOn ==
    ASSUME NEW h \in Seq(Frames), NEW r, ResponseInv(h, r), ~r.completed,
           NEW f, MayAnswer(h \o r.out, f), NEW d, Notes(r, f, d)
    PROVE  ResponseInv(h, d)
  <1>p. PICK s : s = h \o r.out  OBVIOUS
  <1>1. r.out \in Seq(Frames) /\ f \in Frames  BY DEF ResponseInv, ResponseStates, MayAnswer
  <1>2. s \in Seq(Frames) /\ h \o d.out = Append(s, f)
    BY <1>1, <1>p, ConcatAppend DEF Notes
  <1>3. Going(s) /\ ResponseSound(s) /\ Knowing(s, r)  BY <1>p DEF ResponseInv, Knowing
  <1>4. ResponseSound(Append(s, f))  BY <1>3, <1>p, ResponseAppend
  <1>5. IsFiniteSet(d.added)
    <2>1. PICK x : x = <<f.kind, f.id>>  OBVIOUS
    <2>2. d.added = r.added \cup {x} \/ d.added = r.added  BY <2>1 DEF Notes
    <2>3. IsFiniteSet(r.added)  BY DEF ResponseInv
    <2> QED BY <2>2, <2>3, FS_AddElement
  <1>6. Append(s, f) # <<>>  BY <1>1, <1>2, AppendNotEmpty
  <1>7. d.completed <=> ~Going(Append(s, f))
    <2>1. Going(Append(s, f)) <=> Going(s) /\ ~Completes(f)  BY <1>1, <1>2, AppendGoing
    <2> QED BY <1>3, <2>1 DEF Completes, Notes
  <1>8. ASSUME NEW id \in Int, NEW kind \in Kinds
        PROVE  Has(Append(s, f), "added", id, kind) <=> <<kind, id>> \in d.added
    <2>1. Has(Append(s, f), "added", id, kind)
              <=> Has(s, "added", id, kind) \/ (f.t = "added" /\ f.id = id /\ f.kind = kind)
      BY <1>1, <1>2, AppendHas
    <2>2. <<kind, id>> \in d.added
              <=> <<kind, id>> \in r.added \/ (f.t = "added" /\ f.id = id /\ f.kind = kind)
      BY DEF Notes
    <2> QED BY <1>3, <2>1, <2>2 DEF Knowing
  <1>9. ASSUME NEW id \in Int, NEW kind \in Kinds
        PROVE  Has(Append(s, f), "done", id, kind) <=> <<kind, id>> \in d.done
    <2>1. Has(Append(s, f), "done", id, kind)
              <=> Has(s, "done", id, kind) \/ (f.t = "done" /\ f.id = id /\ f.kind = kind)
      BY <1>1, <1>2, AppendHas
    <2>2. <<kind, id>> \in d.done
              <=> <<kind, id>> \in r.done \/ (f.t = "done" /\ f.id = id /\ f.kind = kind)
      BY DEF Notes
    <2> QED BY <1>3, <2>1, <2>2 DEF Knowing
  <1>10. ASSUME NEW item \in Items
         PROVE  Sent(Append(s, f), Len(Append(s, f)), item[2], item[1])
                    = Buffer(d, item[1], item[2])
    <2>1. PICK id, kind : id = item[2] /\ kind = item[1]  OBVIOUS
    <2>2. Len(Append(s, f)) = Len(s) + 1  BY <1>1, <1>2, AppendKeeps
    <2>3. Sent(Append(s, f), Len(s) + 1, id, kind) = Sent(s, Len(s), id, kind) \o PieceOf(f, id, kind)
      BY <1>1, <1>2, SentAfter
    <2>4. Sent(s, Len(s), id, kind) = Buffer(r, kind, id)  BY <1>3, <2>1 DEF Knowing
    <2>5. Buffer(d, kind, id) = Buffer(r, kind, id) \o PieceOf(f, id, kind)  BY <2>1 DEF Notes
    <2> QED BY <2>1, <2>2, <2>3, <2>4, <2>5
  <1>11. Knowing(Append(s, f), d)
    <2>1. d.started = TRUE /\ d.done \subseteq d.added  BY DEF Notes
    <2> QED BY <1>6, <1>7, <1>8, <1>9, <1>10, <2>1 DEF Knowing
  <1> QED BY <1>2, <1>4, <1>5, <1>11 DEF ResponseInv, Notes

\* The same but for what has been sent.
Sends(r, f, z) ==
    /\ z \in ResponseStates /\ z.out = Append(r.out, f)
    /\ z.started = r.started /\ z.completed = r.completed /\ z.added = r.added
    /\ z.done = r.done /\ z.text = r.text /\ z.thought = r.thought /\ z.args = r.args

\* What emitting a frame leaves as it was.
LEMMA SendsOut ==
    ASSUME NEW r \in ResponseStates, NEW f \in Frames, NEW z,
           z = [r EXCEPT !.out = Append(r.out, f)]
    PROVE  Sends(r, f, z)
  <1>1. Append(r.out, f) \in Seq(Frames)  BY DEF ResponseStates
  <1> QED BY <1>1 DEF ResponseStates, Sends

\* A buffer holds pieces.
LEMMA BufferTyped ==
    ASSUME NEW r \in ResponseStates, NEW kind, NEW id
    PROVE  Buffer(r, kind, id) \in Seq(Int)
  <1>1. r.text \in Seq(Int) /\ r.thought \in Seq(Int)  BY DEF ResponseStates
  <1>2. ArgsOf(r, id) \in Seq(Int)
    <2>1. PICK S \in SUBSET Int : r.args \in [S -> Seq(Int)]  BY DEF ResponseStates
    <2>2. DOMAIN r.args = S  BY <2>1
    <2> QED BY <2>1, <2>2, Literals DEF ArgsOf
  <1> QED BY <1>1, <1>2 DEF Buffer

\* A frame that is no delta is noted by a state with the same buffers.
LEMMA QuietNotes ==
    ASSUME NEW r \in ResponseStates, NEW f \in Frames, f.t # "delta",
           NEW d \in ResponseStates, d.out = Append(r.out, f), d.started = TRUE,
           d.completed <=> r.completed \/ f.t = "completed",
           d.added = r.added \cup (IF f.t = "added" THEN {<<f.kind, f.id>>} ELSE {}),
           d.done = r.done \cup (IF f.t = "done" THEN {<<f.kind, f.id>>} ELSE {}),
           d.done \subseteq d.added,
           d.text = r.text, d.thought = r.thought, d.args = r.args
    PROVE  Notes(r, f, d)
  <1>1. ASSUME NEW item \in Items
        PROVE  Buffer(d, item[1], item[2]) = Buffer(r, item[1], item[2]) \o PieceOf(f, item[2], item[1])
    <2>1. PICK b : b = Buffer(r, item[1], item[2])  OBVIOUS
    <2>2. b \in Seq(Int)  BY <2>1, BufferTyped
    <2>3. b \o <<>> = b  BY <2>2
    <2>4. PieceOf(f, item[2], item[1]) = <<>>  BY DEF PieceOf
    <2>5. Buffer(d, item[1], item[2]) = b  BY <2>1 DEF Buffer, ArgsOf
    <2> QED BY <2>1, <2>3, <2>4, <2>5
  <1> QED BY <1>1 DEF Notes

Live(h, r) == ResponseInv(h, r) /\ r.started = TRUE /\ r.completed = FALSE

\* What holds of a response that has started and is not complete.
LEMMA LiveIs ==
    ASSUME NEW h, NEW r, Live(h, r)
    PROVE  /\ r \in ResponseStates /\ IsFiniteSet(r.added) /\ r.done \subseteq r.added
           /\ r.out \in Seq(Frames) /\ h \o r.out # <<>>
           /\ \A id \in Int, kind \in Kinds :
                 Has(h \o r.out, "added", id, kind) <=> <<kind, id>> \in r.added
           /\ \A id \in Int, kind \in Kinds :
                 Has(h \o r.out, "done", id, kind) <=> <<kind, id>> \in r.done
  BY DEF Live, ResponseInv, Knowing, ResponseStates

\* response.created is sent once, first.
LEMMA ResponsesStartKeeps ==
    ASSUME NEW h \in Seq(Frames), NEW r, ResponseInv(h, r), ~r.completed
    PROVE  Live(h, ResponsesStart(r))
  <1>1. r \in ResponseStates /\ r.completed = FALSE  BY DEF ResponseInv, ResponseStates
  <1>2. CASE r.started
    <2>1. r.started = TRUE  BY <1>1, <1>2 DEF ResponseStates
    <2> QED BY <1>1, <1>2, <2>1 DEF ResponsesStart, Live
  <1>3. CASE ~r.started
    <2>1. PICK f : f = Frame("created", 0, "none", <<>>)  OBVIOUS
    <2>2. f \in Frames /\ f.t = "created"  BY <2>1, Literals DEF Frame, Frames
    <2>3. PICK z : z = [r EXCEPT !.out = Append(r.out, f)]  OBVIOUS
    <2>4. Sends(r, f, z)  BY <1>1, <2>2, <2>3, SendsOut
    <2>5. z = Emit(r, "created", 0, "none", <<>>)  BY <2>1, <2>3 DEF Emit
    <2>6. PICK d : d = [z EXCEPT !.started = TRUE]  OBVIOUS
    <2>7. d = ResponsesStart(r)  BY <1>3, <2>5, <2>6 DEF ResponsesStart
    <2>8. /\ d \in ResponseStates /\ d.out = z.out /\ d.started = TRUE
          /\ d.completed = z.completed /\ d.added = z.added /\ d.done = z.done
          /\ d.text = z.text /\ d.thought = z.thought /\ d.args = z.args
      BY <2>4, <2>6 DEF Sends, ResponseStates
    <2>9. r.done \subseteq r.added  BY DEF ResponseInv, Knowing
    <2>10. Notes(r, f, d)
      BY <1>1, <2>2, <2>4, <2>8, <2>9, QuietNotes DEF Sends
    <2>11. h \o r.out = <<>>  BY <1>3 DEF ResponseInv, Knowing
    <2>12. MayAnswer(h \o r.out, f)  BY <2>2, <2>11 DEF MayAnswer
    <2>13. ResponseInv(h, d)  BY <2>10, <2>12, ResponseGoesOn
    <2>14. d.completed = FALSE  BY <1>1, <2>4, <2>8 DEF Sends
    <2> QED BY <2>7, <2>8, <2>13, <2>14 DEF Live
  <1> QED BY <1>2, <1>3

\* The kind and the index of an item.
LEMMA ItemsTyped ==
    ASSUME NEW kind, NEW id, <<kind, id>> \in Items
    PROVE  kind \in Kinds /\ id \in Int /\ kind # "none"
  BY DEF Items, Kinds

\* Nothing but the items added and done is changed.
SameBuffers(r, d) == d.text = r.text /\ d.thought = r.thought /\ d.args = r.args

\* An item is added once.
LEMMA AddItemKeeps ==
    ASSUME NEW h \in Seq(Frames), NEW r, Live(h, r), NEW kind, NEW id, <<kind, id>> \in Items,
           NEW d, d = AddItem(r, kind, id)
    PROVE  Live(h, d) /\ <<kind, id>> \in d.added /\ SameBuffers(r, d) /\ r.added \subseteq d.added
  <1>1. /\ r \in ResponseStates /\ r.done \subseteq r.added /\ h \o r.out # <<>>
        /\ r.started = TRUE /\ r.completed = FALSE /\ ResponseInv(h, r)
    BY LiveIs DEF Live
  <1>2. kind \in Kinds /\ id \in Int  BY ItemsTyped
  <1>3. CASE <<kind, id>> \in r.added
    BY <1>3 DEF AddItem, SameBuffers
  <1>4. CASE <<kind, id>> \notin r.added
    <2>1. PICK f : f = Frame("added", id, kind, <<>>)  OBVIOUS
    <2>2. f \in Frames /\ f.t = "added" /\ f.kind = kind /\ f.id = id
      BY <1>2, <2>1, Literals DEF Frame, Frames
    <2>3. PICK z : z = [r EXCEPT !.out = Append(r.out, f)]  OBVIOUS
    <2>4. Sends(r, f, z)  BY <1>1, <2>2, <2>3, SendsOut
    <2>5. z = Emit(r, "added", id, kind, <<>>)  BY <2>1, <2>3 DEF Emit
    <2>6. PICK x : x = z.added \cup {<<kind, id>>}  OBVIOUS
    <2>7. x \in SUBSET Items  BY <2>4, <2>6 DEF Sends, ResponseStates
    <2>8. d = [z EXCEPT !.added = x]  BY <1>4, <2>5, <2>6 DEF AddItem
    <2>9. /\ d \in ResponseStates /\ d.out = z.out /\ d.started = z.started
          /\ d.completed = z.completed /\ d.added = x /\ d.done = z.done
          /\ d.text = z.text /\ d.thought = z.thought /\ d.args = z.args
      BY <2>4, <2>7, <2>8 DEF Sends, ResponseStates
    <2>10. Notes(r, f, d)
      BY <1>1, <2>2, <2>4, <2>6, <2>9, QuietNotes, ZenonT(60) DEF Sends
    <2>11. ~Has(h \o r.out, "added", id, kind)  BY <1>2, <1>4, LiveIs
    <2>12. MayAnswer(h \o r.out, f)  BY <1>1, <2>2, <2>11 DEF MayAnswer
    <2>13. ResponseInv(h, d)  BY <1>1, <2>10, <2>12, ResponseGoesOn
    <2> QED BY <1>1, <2>4, <2>6, <2>9, <2>13 DEF Live, Sends, SameBuffers
  <1> QED BY <1>3, <1>4

\* d is r with one more item done, if there was one to do.
Finishes1(r, d, kind, id) ==
    /\ d.added = r.added /\ SameBuffers(r, d) /\ r.done \subseteq d.done
    /\ <<kind, id>> \in d.added => <<kind, id>> \in d.done

\* An item is done once, with all that was sent for it.
LEMMA DoneItemKeeps ==
    ASSUME NEW h \in Seq(Frames), NEW r, Live(h, r), NEW kind, NEW id, <<kind, id>> \in Items,
           NEW ps, ps = Buffer(r, kind, id), NEW d, d = DoneItem(r, kind, id, ps)
    PROVE  Live(h, d) /\ Finishes1(r, d, kind, id)
  <1>1. /\ r \in ResponseStates /\ r.done \subseteq r.added /\ h \o r.out # <<>>
        /\ r.started = TRUE /\ r.completed = FALSE /\ ResponseInv(h, r)
    BY LiveIs DEF Live
  <1>2. kind \in Kinds /\ id \in Int /\ kind # "none" /\ ps \in Seq(Int)
    BY <1>1, ItemsTyped, BufferTyped
  <1>3. CASE <<kind, id>> \notin r.added \/ <<kind, id>> \in r.done
    BY <1>3 DEF DoneItem, Finishes1, SameBuffers
  <1>4. CASE ~(<<kind, id>> \notin r.added \/ <<kind, id>> \in r.done)
    <2>1. PICK f : f = Frame("done", id, kind, ps)  OBVIOUS
    <2>2. f \in Frames /\ f.t = "done" /\ f.kind = kind /\ f.id = id /\ f.ps = ps
      BY <1>2, <2>1, Literals DEF Frame, Frames
    <2>3. PICK z : z = [r EXCEPT !.out = Append(r.out, f)]  OBVIOUS
    <2>4. Sends(r, f, z)  BY <1>1, <2>2, <2>3, SendsOut
    <2>5. z = Emit(r, "done", id, kind, ps)  BY <2>1, <2>3 DEF Emit
    <2>6. PICK x : x = z.done \cup {<<kind, id>>}  OBVIOUS
    <2>7. x \in SUBSET Items  BY <2>4, <2>6 DEF Sends, ResponseStates
    <2>8. d = [z EXCEPT !.done = x]  BY <1>4, <2>5, <2>6 DEF DoneItem
    <2>9. /\ d \in ResponseStates /\ d.out = z.out /\ d.started = z.started
          /\ d.completed = z.completed /\ d.done = x /\ d.added = z.added
          /\ d.text = z.text /\ d.thought = z.thought /\ d.args = z.args
      BY <2>4, <2>7, <2>8 DEF Sends, ResponseStates
    <2>10. Notes(r, f, d)
      <3>1. d.done = r.done \cup {<<f.kind, f.id>>} /\ d.added = r.added
        BY <2>2, <2>4, <2>6, <2>9 DEF Sends
      <3>2. d.done \subseteq d.added  BY <1>1, <1>4, <2>2, <3>1
      <3>3. d.completed <=> r.completed \/ f.t = "completed"  BY <2>2, <2>4, <2>9 DEF Sends
      <3>4. d.added = r.added \cup (IF f.t = "added" THEN {<<f.kind, f.id>>} ELSE {})
        BY <2>2, <3>1
      <3>5. d.done = r.done \cup (IF f.t = "done" THEN {<<f.kind, f.id>>} ELSE {})
        BY <2>2, <3>1
      <3>6. /\ d.out = Append(r.out, f) /\ d.started = TRUE /\ d.text = r.text
            /\ d.thought = r.thought /\ d.args = r.args /\ f.t # "delta"
        BY <1>1, <2>2, <2>4, <2>9 DEF Sends
      <3> QED BY ONLY <1>1, <2>2, <2>9, <3>2, <3>3, <3>4, <3>5, <3>6, QuietNotes
    <2>11. Has(h \o r.out, "added", id, kind) /\ ~Has(h \o r.out, "done", id, kind)
      BY <1>2, <1>4, LiveIs
    <2>12. ps = Sent(h \o r.out, Len(h \o r.out), id, kind)
      <3>1. PICK item : item = <<kind, id>>  OBVIOUS
      <3>2. item \in Items /\ item[1] = kind /\ item[2] = id  BY <3>1
      <3> QED BY <3>2 DEF Live, ResponseInv, Knowing
    <2>13. MayAnswer(h \o r.out, f)  BY <1>1, <1>2, <2>2, <2>11, <2>12 DEF MayAnswer
    <2>14. ResponseInv(h, d)  BY <1>1, <2>10, <2>13, ResponseGoesOn
    <2> QED BY <1>1, <2>4, <2>6, <2>9, <2>14 DEF Live, Sends, SameBuffers, Finishes1
  <1> QED BY <1>3, <1>4

\* d is r after it has said ps for an item and kept it.
Said(r, d, kind, id, ps) ==
    /\ d \in ResponseStates /\ d.out = Append(r.out, Frame("delta", id, kind, ps))
    /\ d.started = r.started /\ d.completed = r.completed
    /\ d.added = r.added /\ d.done = r.done
    /\ \A item \in Items :
          Buffer(d, item[1], item[2])
              = Buffer(r, item[1], item[2]) \o (IF item = <<kind, id>> THEN ps ELSE <<>>)

\* A delta of an item that was added, kept in its buffer.
LEMMA SaidKeeps ==
    ASSUME NEW h \in Seq(Frames), NEW r, Live(h, r), NEW kind, NEW id, <<kind, id>> \in Items,
           <<kind, id>> \in r.added, NEW ps \in Seq(Int), NEW d, Said(r, d, kind, id, ps)
    PROVE  Live(h, d)
  <1>1. /\ r \in ResponseStates /\ r.done \subseteq r.added /\ h \o r.out # <<>>
        /\ r.started = TRUE /\ r.completed = FALSE /\ ResponseInv(h, r)
    BY LiveIs DEF Live
  <1>2. kind \in Kinds /\ id \in Int /\ kind # "none"  BY ItemsTyped
  <1>3. PICK f : f = Frame("delta", id, kind, ps)  OBVIOUS
  <1>4. f \in Frames /\ f.t = "delta" /\ f.kind = kind /\ f.id = id /\ f.ps = ps
    BY <1>2, <1>3, Literals DEF Frame, Frames
  <1>5. ASSUME NEW item \in Items
        PROVE  Buffer(d, item[1], item[2]) = Buffer(r, item[1], item[2]) \o PieceOf(f, item[2], item[1])
    <2>1. item = <<item[1], item[2]>>  BY DEF Items
    <2>2. (IF item = <<kind, id>> THEN ps ELSE <<>>) = PieceOf(f, item[2], item[1])
      <3>1. item = <<kind, id>> <=> item[1] = kind /\ item[2] = id  BY <2>1
      <3> QED BY <1>4, <3>1 DEF PieceOf
    <2> QED BY <2>2 DEF Said
  <1>6. Notes(r, f, d)
    <2>1. /\ d \in ResponseStates /\ d.out = Append(r.out, f) /\ d.started = TRUE
          /\ (d.completed <=> r.completed \/ f.t = "completed")
          /\ d.added = r.added /\ d.done = r.done /\ d.done \subseteq d.added
      BY <1>1, <1>3, <1>4 DEF Said
    <2>2. /\ d.added = r.added \cup (IF f.t = "added" THEN {<<f.kind, f.id>>} ELSE {})
          /\ d.done = r.done \cup (IF f.t = "done" THEN {<<f.kind, f.id>>} ELSE {})
      BY <1>4, <2>1
    <2> QED BY ONLY <1>5, <2>1, <2>2 DEF Notes
  <1>7. Has(h \o r.out, "added", id, kind)  BY <1>2, LiveIs
  <1>8. MayAnswer(h \o r.out, f)  BY <1>1, <1>2, <1>4, <1>7 DEF MayAnswer
  <1>9. ResponseInv(h, d)  BY <1>1, <1>6, <1>8, ResponseGoesOn
  <1> QED BY <1>1, <1>9 DEF Live, Said

\* Nothing appended.
LEMMA NoMore == ASSUME NEW ps \in Seq(Int) PROVE ps \o <<>> = ps
  OBVIOUS

\* A delta of the reasoning item.
LEMMA SaysThought ==
    ASSUME NEW h \in Seq(Frames), NEW r, Live(h, r), <<"thought", 0>> \in r.added,
           NEW ps \in Seq(Int), NEW d,
           d = [Emit(r, "delta", 0, "thought", ps) EXCEPT !.thought = @ \o ps]
    PROVE  Live(h, d)
  <1>1. r \in ResponseStates  BY LiveIs
  <1>2. <<"thought", 0>> \in Items  BY DEF Items
  <1>3. PICK f : f = Frame("delta", 0, "thought", ps)  OBVIOUS
  <1>4. f \in Frames  BY <1>3, Literals DEF Frame, Frames
  <1>5. PICK z : z = [r EXCEPT !.out = Append(r.out, f)]  OBVIOUS
  <1>6. Sends(r, f, z)  BY <1>1, <1>4, <1>5, SendsOut
  <1>7. z = Emit(r, "delta", 0, "thought", ps)  BY <1>3, <1>5 DEF Emit
  <1>8. PICK x : x = z.thought \o ps  OBVIOUS
  <1>9. x \in Seq(Int) /\ x = r.thought \o ps
    <2>1. z.thought \in Seq(Int) /\ z.thought = r.thought  BY <1>6 DEF Sends, ResponseStates
    <2> QED BY <1>8, <2>1
  <1>10. d = [z EXCEPT !.thought = x]  BY <1>7, <1>8
  <1>11. /\ d \in ResponseStates /\ d.out = z.out /\ d.started = z.started
         /\ d.completed = z.completed /\ d.done = z.done /\ d.added = z.added
         /\ d.text = z.text /\ d.thought = x /\ d.args = z.args
    BY <1>6, <1>9, <1>10 DEF Sends, ResponseStates
  <1>12. ASSUME NEW item \in Items
         PROVE  Buffer(d, item[1], item[2])
                    = Buffer(r, item[1], item[2]) \o (IF item = <<"thought", 0>> THEN ps ELSE <<>>)
    <2>1. Buffer(r, item[1], item[2]) \in Seq(Int)  BY <1>1, BufferTyped
    <2>2. CASE item = <<"thought", 0>>
      BY <1>9, <1>11, <2>2 DEF Buffer
    <2>3. CASE item # <<"thought", 0>>
      <3>1. item[1] # "thought"  BY <2>3 DEF Items
      <3>2. Buffer(d, item[1], item[2]) = Buffer(r, item[1], item[2])
        BY <1>6, <1>11, <3>1 DEF Buffer, ArgsOf, Sends
      <3> QED BY <2>1, <2>3, <3>2, NoMore
    <2> QED BY <2>2, <2>3
  <1>13. Said(r, d, "thought", 0, ps)  BY <1>3, <1>6, <1>11, <1>12 DEF Said, Sends
  <1> QED BY <1>2, <1>13, SaidKeeps

\* A delta of the message item.
LEMMA SaysText ==
    ASSUME NEW h \in Seq(Frames), NEW r, Live(h, r), <<"text", 0>> \in r.added,
           NEW ps \in Seq(Int), NEW d,
           d = [Emit(r, "delta", 0, "text", ps) EXCEPT !.text = @ \o ps]
    PROVE  Live(h, d)
  <1>1. r \in ResponseStates  BY LiveIs
  <1>2. <<"text", 0>> \in Items  BY DEF Items
  <1>3. PICK f : f = Frame("delta", 0, "text", ps)  OBVIOUS
  <1>4. f \in Frames  BY <1>3, Literals DEF Frame, Frames
  <1>5. PICK z : z = [r EXCEPT !.out = Append(r.out, f)]  OBVIOUS
  <1>6. Sends(r, f, z)  BY <1>1, <1>4, <1>5, SendsOut
  <1>7. z = Emit(r, "delta", 0, "text", ps)  BY <1>3, <1>5 DEF Emit
  <1>8. PICK x : x = z.text \o ps  OBVIOUS
  <1>9. x \in Seq(Int) /\ x = r.text \o ps
    <2>1. z.text \in Seq(Int) /\ z.text = r.text  BY <1>6 DEF Sends, ResponseStates
    <2> QED BY <1>8, <2>1
  <1>10. d = [z EXCEPT !.text = x]  BY <1>7, <1>8
  <1>11. /\ d \in ResponseStates /\ d.out = z.out /\ d.started = z.started
         /\ d.completed = z.completed /\ d.done = z.done /\ d.added = z.added
         /\ d.text = x /\ d.thought = z.thought /\ d.args = z.args
    BY <1>6, <1>9, <1>10 DEF Sends, ResponseStates
  <1>12. ASSUME NEW item \in Items
         PROVE  Buffer(d, item[1], item[2])
                    = Buffer(r, item[1], item[2]) \o (IF item = <<"text", 0>> THEN ps ELSE <<>>)
    <2>1. Buffer(r, item[1], item[2]) \in Seq(Int)  BY <1>1, BufferTyped
    <2>2. CASE item = <<"text", 0>>
      BY <1>9, <1>11, <2>2 DEF Buffer
    <2>3. CASE item # <<"text", 0>>
      <3>1. item[1] # "text"  BY <2>3 DEF Items
      <3>2. Buffer(d, item[1], item[2]) = Buffer(r, item[1], item[2])
        BY <1>6, <1>11, <3>1 DEF Buffer, ArgsOf, Sends
      <3> QED BY <2>1, <2>3, <3>2, NoMore
    <2> QED BY <2>2, <2>3
  <1>13. Said(r, d, "text", 0, ps)  BY <1>3, <1>6, <1>11, <1>12 DEF Said, Sends
  <1> QED BY <1>2, <1>13, SaidKeeps

\* A delta of a call's item.
LEMMA SaysArgs ==
    ASSUME NEW h \in Seq(Frames), NEW r, Live(h, r), NEW index \in Int,
           <<"call", index>> \in r.added, NEW ps \in Seq(Int), NEW a,
           a = [i \in DOMAIN r.args \cup {index} |->
                   ArgsOf(r, i) \o (IF i = index THEN ps ELSE <<>>)],
           NEW d, d = [Emit(r, "delta", index, "call", ps) EXCEPT !.args = a]
    PROVE  Live(h, d)
  <1>1. r \in ResponseStates  BY LiveIs
  <1>2. <<"call", index>> \in Items  BY DEF Items
  <1>3. PICK f : f = Frame("delta", index, "call", ps)  OBVIOUS
  <1>4. f \in Frames  BY <1>3, Literals DEF Frame, Frames
  <1>5. PICK z : z = [r EXCEPT !.out = Append(r.out, f)]  OBVIOUS
  <1>6. Sends(r, f, z)  BY <1>1, <1>4, <1>5, SendsOut
  <1>7. z = Emit(r, "delta", index, "call", ps)  BY <1>3, <1>5 DEF Emit
  <1>8. PICK S \in SUBSET Int : r.args \in [S -> Seq(Int)]  BY <1>1 DEF ResponseStates
  <1>9. DOMAIN r.args = S /\ S \cup {index} \in SUBSET Int  BY <1>8
  <1>10. \A i : ArgsOf(r, i) \in Seq(Int)
    BY <1>8, <1>9, Literals DEF ArgsOf
  <1>11. \A i : ArgsOf(r, i) \o (IF i = index THEN ps ELSE <<>>) \in Seq(Int)
    <2> SUFFICES ASSUME NEW i PROVE ArgsOf(r, i) \o (IF i = index THEN ps ELSE <<>>) \in Seq(Int)
      OBVIOUS
    <2>1. ArgsOf(r, i) \in Seq(Int)  BY <1>10
    <2>2. (IF i = index THEN ps ELSE <<>>) \in Seq(Int)  BY Literals
    <2> QED BY <2>1, <2>2, ConcatProperties
  <1>12. a \in [S \cup {index} -> Seq(Int)]  BY <1>9, <1>11
  <1>13. a \in UNION {[Y -> Seq(Int)] : Y \in SUBSET Int}  BY <1>9, <1>12
  <1>14. d = [z EXCEPT !.args = a]  BY <1>7
  <1>15. /\ d \in ResponseStates /\ d.out = z.out /\ d.started = z.started
         /\ d.completed = z.completed /\ d.done = z.done /\ d.added = z.added
         /\ d.text = z.text /\ d.thought = z.thought /\ d.args = a
    BY <1>6, <1>13, <1>14 DEF Sends, ResponseStates
  <1>16. ASSUME NEW i PROVE ArgsOf(d, i) = ArgsOf(r, i) \o (IF i = index THEN ps ELSE <<>>)
    <2>1. CASE i \in S \cup {index}
      <3>1. DOMAIN a = S \cup {index}  BY <1>12
      <3>2. a[i] = ArgsOf(r, i) \o (IF i = index THEN ps ELSE <<>>)  BY <1>9, <2>1
      <3> QED BY <1>15, <2>1, <3>1, <3>2 DEF ArgsOf
    <2>2. CASE i \notin S \cup {index}
      <3>1. ArgsOf(d, i) = <<>> /\ ArgsOf(r, i) = <<>>  BY <1>9, <1>12, <1>15, <2>2 DEF ArgsOf
      <3>2. <<>> \o <<>> = <<>>  BY Literals, NoMore
      <3> QED BY <2>2, <3>1, <3>2
    <2> QED BY <2>1, <2>2
  <1>17. ASSUME NEW item \in Items
         PROVE  Buffer(d, item[1], item[2])
                    = Buffer(r, item[1], item[2]) \o (IF item = <<"call", index>> THEN ps ELSE <<>>)
    <2>1. Buffer(r, item[1], item[2]) \in Seq(Int)  BY <1>1, BufferTyped
    <2>2. CASE item[1] = "call"
      <3>1. item = <<"call", item[2]>>  BY <2>2 DEF Items
      <3>2. item = <<"call", index>> <=> item[2] = index  BY <3>1
      <3>3. Buffer(d, item[1], item[2]) = ArgsOf(d, item[2])
            /\ Buffer(r, item[1], item[2]) = ArgsOf(r, item[2])
        BY <2>2 DEF Buffer
      <3> QED BY <1>16, <3>2, <3>3
    <2>3. CASE item[1] # "call"
      <3>1. item # <<"call", index>>  BY <2>3
      <3>2. item[1] \in {"text", "thought"}  BY <2>3 DEF Items
      <3>3. Buffer(d, item[1], item[2]) = Buffer(r, item[1], item[2])
        BY <1>6, <1>15, <3>2 DEF Buffer, Sends
      <3> QED BY <2>1, <3>1, <3>3, NoMore
    <2> QED BY <2>2, <2>3
  <1>18. Said(r, d, "call", index, ps)  BY <1>3, <1>6, <1>15, <1>17 DEF Said, Sends
  <1> QED BY <1>2, <1>18, SaidKeeps

\* The reasoning and the message are items.
LEMMA ItemsOfText == <<"text", 0>> \in Items /\ <<"thought", 0>> \in Items
  BY DEF Items

\* Closing the reasoning item, if it is open.
LEMMA CloseReasoningKeeps ==
    ASSUME NEW h \in Seq(Frames), NEW r, Live(h, r), NEW d, d = CloseReasoning(r)
    PROVE  Live(h, d) /\ Finishes1(r, d, "thought", 0)
  <1>1. PICK ps : ps = Buffer(r, "thought", 0)  OBVIOUS
  <1>2. ps = r.thought  BY <1>1 DEF Buffer
  <1>3. d = DoneItem(r, "thought", 0, ps)  BY <1>2 DEF CloseReasoning
  <1>4. PICK kind, id : kind = "thought" /\ id = 0  OBVIOUS
  <1>5. <<kind, id>> \in Items /\ ps = Buffer(r, kind, id) /\ d = DoneItem(r, kind, id, ps)
    BY <1>1, <1>3, <1>4, ItemsOfText
  <1>6. Live(h, d) /\ Finishes1(r, d, kind, id)  BY <1>5, DoneItemKeeps
  <1> QED BY <1>4, <1>6

\* Closing the message item, if it is open.
LEMMA CloseMessageKeeps ==
    ASSUME NEW h \in Seq(Frames), NEW r, Live(h, r), NEW d, d = CloseMessage(r)
    PROVE  Live(h, d) /\ Finishes1(r, d, "text", 0)
  <1>1. PICK ps : ps = Buffer(r, "text", 0)  OBVIOUS
  <1>2. ps = r.text  BY <1>1 DEF Buffer
  <1>3. d = DoneItem(r, "text", 0, ps)  BY <1>2 DEF CloseMessage
  <1>4. PICK kind, id : kind = "text" /\ id = 0  OBVIOUS
  <1>5. <<kind, id>> \in Items /\ ps = Buffer(r, kind, id) /\ d = DoneItem(r, kind, id, ps)
    BY <1>1, <1>3, <1>4, ItemsOfText
  <1>6. Live(h, d) /\ Finishes1(r, d, kind, id)  BY <1>5, DoneItemKeeps
  <1> QED BY <1>4, <1>6

\* A thought sent to a Responses client.
LEMMA ResponsesThoughtKeeps ==
    ASSUME NEW h \in Seq(Frames), NEW r, Live(h, r), NEW ps \in Seq(Int),
           NEW d, d = ResponsesThought(r, ps)
    PROVE  Live(h, d)
  <1>1. CASE ps = <<>>  BY <1>1 DEF ResponsesThought
  <1>2. CASE ps # <<>>
    <2>1. PICK kind, id : kind = "thought" /\ id = 0  OBVIOUS
    <2>2. PICK a : a = AddItem(r, kind, id)  OBVIOUS
    <2>3. <<kind, id>> \in Items  BY <2>1, ItemsOfText
    <2>4. Live(h, a) /\ <<kind, id>> \in a.added  BY <2>2, <2>3, AddItemKeeps
    <2>5. d = [Emit(a, "delta", 0, "thought", ps) EXCEPT !.thought = @ \o ps]
      BY <1>2, <2>1, <2>2 DEF ResponsesThought
    <2> QED BY <2>1, <2>4, <2>5, SaysThought
  <1> QED BY <1>1, <1>2

\* A text sent to a Responses client.
LEMMA ResponsesTextKeeps ==
    ASSUME NEW h \in Seq(Frames), NEW r, Live(h, r), NEW ps \in Seq(Int),
           NEW d, d = ResponsesText(r, ps)
    PROVE  Live(h, d)
  <1>1. CASE ps = <<>>  BY <1>1 DEF ResponsesText
  <1>2. CASE ps # <<>>
    <2>1. PICK kind, id : kind = "text" /\ id = 0  OBVIOUS
    <2>0. PICK b : b = CloseReasoning(r)  OBVIOUS
    <2>a. Live(h, b)  BY <2>0, CloseReasoningKeeps
    <2>2. PICK a : a = AddItem(b, kind, id)  OBVIOUS
    <2>3. <<kind, id>> \in Items  BY <2>1, ItemsOfText
    <2>4. Live(h, a) /\ <<kind, id>> \in a.added  BY <2>2, <2>3, <2>a, AddItemKeeps
    <2>5. d = [Emit(a, "delta", 0, "text", ps) EXCEPT !.text = @ \o ps]
      BY <1>2, <2>0, <2>1, <2>2 DEF ResponsesText
    <2> QED BY <2>1, <2>4, <2>5, SaysText
  <1> QED BY <1>1, <1>2

\* A call, or a part of one, sent to a Responses client.
LEMMA ResponsesToolCallKeeps ==
    ASSUME NEW h \in Seq(Frames), NEW r, Live(h, r), NEW call \in CallParts,
           NEW d, d = ResponsesToolCall(r, call)
    PROVE  Live(h, d)
  <1>0. call.index \in Int /\ call.ps \in Seq(Int)  BY DEF CallParts
  <1>1. PICK kind, id : kind = "call" /\ id = call.index  OBVIOUS
  <1>2. PICK b : b = CloseMessage(r)  OBVIOUS
  <1>3. Live(h, b) /\ SameBuffers(r, b)  BY <1>2, CloseMessageKeeps DEF Finishes1
  <1>4. PICK e : e = AddItem(b, kind, id)  OBVIOUS
  <1>5. <<kind, id>> \in Items  BY <1>0, <1>1 DEF Items
  <1>6. Live(h, e) /\ <<kind, id>> \in e.added /\ SameBuffers(b, e)
    BY <1>3, <1>4, <1>5, AddItemKeeps
  <1>7. PICK a : a = IF <<"call", call.index>> \in r.added THEN r
                     ELSE AddItem(CloseMessage(r), "call", call.index)
    OBVIOUS
  <1>8. Live(h, a) /\ <<kind, id>> \in a.added /\ a.args = r.args
    BY <1>1, <1>2, <1>3, <1>4, <1>6, <1>7 DEF SameBuffers
  <1>9. CASE call.ps = <<>>
    <2>1. d = a  BY <1>7, <1>9 DEF ResponsesToolCall
    <2> QED BY <1>8, <2>1
  <1>10. CASE call.ps # <<>>
    <2>1. PICK g : g = [i \in DOMAIN r.args \cup {call.index} |->
                           ArgsOf(r, i) \o (IF i = call.index THEN call.ps ELSE <<>>)]
      OBVIOUS
    <2>2. d = [Emit(a, "delta", call.index, "call", call.ps) EXCEPT !.args = g]
      BY <1>7, <1>10, <2>1 DEF ResponsesToolCall
    <2>3. PICK ps : ps = call.ps  OBVIOUS
    <2>4. g = [i \in DOMAIN a.args \cup {id} |-> ArgsOf(a, i) \o (IF i = id THEN ps ELSE <<>>)]
      BY <1>1, <1>8, <2>1, <2>3 DEF ArgsOf
    <2>5. d = [Emit(a, "delta", id, "call", ps) EXCEPT !.args = g]  BY <1>1, <2>2, <2>3
    <2>6. id \in Int /\ ps \in Seq(Int) /\ <<"call", id>> \in a.added  BY <1>0, <1>1, <1>8, <2>3
    <2> QED BY <1>8, <2>4, <2>5, <2>6, SaysArgs
  <1> QED BY <1>9, <1>10

\* All calls of a chunk sent to a Responses client.
LEMMA ResponsesCallsKeep ==
    ASSUME NEW h \in Seq(Frames), NEW r, Live(h, r), NEW calls \in Seq(CallParts),
           NEW d, d = FoldLeft(ResponsesToolCall, r, calls)
    PROVE  Live(h, d)
  <1> DEFINE U == {v \in ResponseStates : Live(h, v)}
  <1>1. PICK n \in Nat : n = Len(calls)  BY AppendKeeps
  <1> DEFINE D == [k \in 0..n |-> U]
  <1>2. DOMAIN calls = 1..n  BY <1>1
  <1>3. r \in U  BY LiveIs
  <1>4. \A k \in 1..n : \A v \in U : ResponsesToolCall(v, calls[k]) \in U
    <2> SUFFICES ASSUME NEW k \in 1..n, NEW v \in U PROVE ResponsesToolCall(v, calls[k]) \in U
      OBVIOUS
    <2>1. calls[k] \in CallParts  BY <1>2
    <2>2. PICK w : w = ResponsesToolCall(v, calls[k])  OBVIOUS
    <2>3. Live(h, w)  BY <2>1, <2>2, ResponsesToolCallKeeps
    <2>4. w \in ResponseStates  BY <2>3, LiveIs
    <2> QED BY <2>2, <2>3, <2>4
  <1>5. \A k \in 0..n : D[k] = U  BY <1>1
  <1> HIDE DEF U, D
  <1>6. FoldLeft(ResponsesToolCall, r, calls) \in D[n]
    <2>1. \A k \in 1..n : k - 1 \in 0..n /\ k \in 0..n  BY <1>1
    <2>2. \A k \in 1..n : \A v \in D[k - 1] : ResponsesToolCall(v, calls[k]) \in D[k]
      BY <1>4, <1>5, <2>1
    <2>3. r \in D[0] /\ n \in Nat  BY <1>1, <1>3, <1>5
    <2> QED BY ONLY <1>2, <2>2, <2>3, ResponsesToolCallFolds
  <1>7. FoldLeft(ResponsesToolCall, r, calls) \in U  BY <1>1, <1>5, <1>6
  <1> QED BY <1>7 DEF U

\* What holds after every call has been closed, from the least index upwards.
LEMMA CloseToolCallsFolds ==
    ASSUME NEW r, NEW S \in SUBSET Int, IsFiniteSet(S),
           S = {item[2] : item \in {added \in r.added : added[1] = "call"}},
           NEW D, r \in D[{}],
           \A s \in SUBSET S : \A v \in D[s \ {Max(s)}] :
               s # {} => CloseToolCall(v, Max(s)) \in D[s]
    PROVE  CloseToolCalls(r) \in D[S]
  <1> DEFINE After(h, s) == IF s = {} THEN r ELSE CloseToolCall(h[s \ {Max(s)}], Max(s))
             Goes(h) == h = [s \in SUBSET S |-> After(h, s)]
             g == CHOOSE h : Goes(h)
             Part(h, k) == h = [s \in Small(S, k) |-> After(h, s)]
             T == {k \in Nat : \E h : Part(h, k)}
  <1>1. 0 \in T
    <2>1. Small(S, 0) = {{}}  BY SmallOnes
    <2>2. Part([s \in Small(S, 0) |-> r], 0)  BY <2>1
    <2> QED BY <2>2
  <1>2. ASSUME NEW k \in Nat, k \in T PROVE k + 1 \in T
    <2>1. PICK h : Part(h, k)  BY <1>2
    <2>2. PICK f : f = [s \in Small(S, k + 1) |-> After(h, s)]  OBVIOUS
    <2>3. \A s \in Small(S, k) : s \in Small(S, k + 1)  BY SmallOnes
    <2>4. \A s \in Small(S, k + 1) : s # {} => s \ {Max(s)} \in Small(S, k)  BY SmallOnes
    <2>5. \A s \in Small(S, k) : f[s] = h[s]  BY <2>1, <2>2, <2>3
    <2>6. \A s \in Small(S, k + 1) : After(f, s) = After(h, s)  BY <2>4, <2>5
    <2>7. Part(f, k + 1)  BY <2>2, <2>6
    <2>8. k + 1 \in Nat  OBVIOUS
    <2> HIDE DEF Part
    <2> QED BY <2>7, <2>8
  <1>3. \E h : Goes(h)
    <2> HIDE DEF T
    <2>1. Cardinality(S) \in T  BY <1>1, <1>2, ByInduction, FS_CardinalityType
    <2>2. Small(S, Cardinality(S)) = SUBSET S  BY SmallOnes
    <2> QED BY <2>1, <2>2 DEF T
  <1> HIDE DEF T
  <1>4. Goes(g)  BY <1>3
  <1>5. CloseToolCalls(r) = g[S]  BY DEF CloseToolCalls, MapThenFoldSet
  <1>6. \A s \in SUBSET S : g[s] = After(g, s)  BY <1>4
  <1> HIDE DEF g
  <1> DEFINE I == {k \in Nat : \A s \in SUBSET S : Cardinality(s) = k => g[s] \in D[s]}
  <1>7. \A s \in SUBSET S : IsFiniteSet(s) /\ Cardinality(s) \in Nat
    BY FS_Subset, FS_CardinalityType
  <1>8. 0 \in I
    <2> SUFFICES ASSUME NEW s \in SUBSET S, Cardinality(s) = 0
                 PROVE  g[s] \in D[s]
      OBVIOUS
    <2>1. s = {}  BY <1>7, FS_EmptySet
    <2>2. g[s] = r  BY <1>6, <2>1
    <2> QED BY <2>1, <2>2
  <1>9. ASSUME NEW k \in Nat, k \in I PROVE k + 1 \in I
    <2> SUFFICES ASSUME NEW s \in SUBSET S, Cardinality(s) = k + 1
                 PROVE  g[s] \in D[s]
      <3>1. k + 1 \in Nat  OBVIOUS
      <3> QED BY <3>1
    <2>1. s # {}
      <3>1. Cardinality({}) = 0  BY FS_EmptySet
      <3>2. k + 1 # 0  OBVIOUS
      <3> QED BY <3>1, <3>2
    <2>2. PICK m : m = Max(s)  OBVIOUS
    <2>3. m \in s
      <3>1. IsFiniteSet(s) /\ s \in SUBSET Int  BY <1>7
      <3> QED BY <2>1, <2>2, <3>1, MaxIn
    <2>4. Cardinality(s \ {m}) = k
      <3>1. Cardinality(s \ {m}) = Cardinality(s) - 1
        BY <1>7, <2>3, FS_RemoveElement, Zenon
      <3> QED BY <3>1
    <2>5. s \ {m} \in SUBSET S  OBVIOUS
    <2>6. g[s \ {m}] \in D[s \ {m}]  BY <1>9, <2>4, <2>5
    <2>7. g[s] = CloseToolCall(g[s \ {m}], m)  BY <1>6, <2>1, <2>2
    <2>8. CloseToolCall(g[s \ {m}], m) \in D[s]  BY <2>1, <2>2, <2>6
    <2> QED BY <2>7, <2>8
  <1> HIDE DEF I
  <1>10. Cardinality(S) \in I  BY <1>7, <1>8, <1>9, ByInduction, FS_CardinalityType
  <1>11. S \in SUBSET S  OBVIOUS
  <1>12. g[S] \in D[S]  BY <1>10, <1>11 DEF I
  <1> QED BY <1>5, <1>12

\* d is r with items done: all the calls of K.
CallsDone(r, d, K) ==
    /\ d.added = r.added /\ SameBuffers(r, d) /\ r.done \subseteq d.done
    /\ \A k \in K : <<"call", k>> \in d.done

\* Closing one call's item, if it is open.
LEMMA CloseToolCallKeeps ==
    ASSUME NEW h \in Seq(Frames), NEW r, Live(h, r), NEW k \in Int,
           NEW d, d = CloseToolCall(r, k)
    PROVE  Live(h, d) /\ Finishes1(r, d, "call", k)
  <1>1. PICK ps : ps = Buffer(r, "call", k)  OBVIOUS
  <1>2. ps = ArgsOf(r, k)  BY <1>1 DEF Buffer
  <1>3. d = DoneItem(r, "call", k, ps)  BY <1>2 DEF CloseToolCall
  <1>4. PICK kind : kind = "call"  OBVIOUS
  <1>5. <<kind, k>> \in Items /\ ps = Buffer(r, kind, k) /\ d = DoneItem(r, kind, k, ps)
    BY <1>1, <1>3, <1>4 DEF Items
  <1>6. Live(h, d) /\ Finishes1(r, d, kind, k)  BY <1>5, DoneItemKeeps
  <1> QED BY <1>4, <1>6

\* Closing all of them: every call that was added is done.
LEMMA CloseToolCallsKeep ==
    ASSUME NEW h \in Seq(Frames), NEW r, Live(h, r), NEW d, d = CloseToolCalls(r)
    PROVE  /\ Live(h, d) /\ d.added = r.added /\ r.done \subseteq d.done
           /\ \A k : <<"call", k>> \in r.added => <<"call", k>> \in d.done
  <1>1. r \in ResponseStates /\ IsFiniteSet(r.added) /\ r.added \in SUBSET Items
    BY LiveIs DEF ResponseStates
  <1>2. PICK C : C = {added \in r.added : added[1] = "call"}  OBVIOUS
  <1>3. PICK S : S = {item[2] : item \in C}  OBVIOUS
  <1>4. C \subseteq {"call"} \X Int  BY <1>1, <1>2 DEF Items
  <1>5. S \in SUBSET Int  BY <1>3, <1>4
  <1>6. IsFiniteSet(S)
    <2>1. IsFiniteSet(C)  BY <1>1, <1>2, FS_Subset
    <2>2. PICK m : m = [item \in C |-> item[2]]  OBVIOUS
    <2>3. IsFiniteSet(S) /\ Cardinality(S) <= Cardinality(C)
      <3>1. m \in Surjection(C, S)  BY <1>3, <2>2 DEF Surjection
      <3> QED BY <2>1, <3>1, FS_Surjection
    <2> QED BY <2>3
  <1> DEFINE D == [s \in SUBSET S |-> {v \in ResponseStates : Live(h, v) /\ CallsDone(r, v, s)}]
  <1>7. r \in D[{}]  BY <1>1 DEF CallsDone, SameBuffers
  <1>8. \A s \in SUBSET S : \A v \in D[s \ {Max(s)}] :
            s # {} => CloseToolCall(v, Max(s)) \in D[s]
    <2> SUFFICES ASSUME NEW s \in SUBSET S, NEW v \in D[s \ {Max(s)}], s # {}
                 PROVE  CloseToolCall(v, Max(s)) \in D[s]
      OBVIOUS
    <2>1. PICK m : m = Max(s)  OBVIOUS
    <2>2. m \in s /\ m \in Int
      <3>1. IsFiniteSet(s) /\ s \in SUBSET Int  BY <1>5, <1>6, FS_Subset
      <3> QED BY <2>1, <3>1, MaxIn
    <2>3. PICK w : w = CloseToolCall(v, m)  OBVIOUS
    <2>4. Live(h, v) /\ CallsDone(r, v, s \ {m})
      <3>1. s \ {m} \in SUBSET S  OBVIOUS
      <3> QED BY <2>1, <3>1
    <2>5. Live(h, w) /\ Finishes1(v, w, "call", m)  BY <2>2, <2>3, <2>4, CloseToolCallKeeps
    <2>6. <<"call", m>> \in r.added
      <3>1. m \in S  BY <2>2
      <3>2. PICK item \in C : item[2] = m  BY <1>3, <3>1
      <3>3. item = <<"call", m>>  BY <1>4, <3>2
      <3> QED BY <1>2, <3>2, <3>3
    <2>7. CallsDone(r, w, s)
      BY <2>4, <2>5, <2>6 DEF CallsDone, Finishes1, SameBuffers
    <2>8. w \in ResponseStates  BY <2>5, LiveIs
    <2> QED BY <2>1, <2>3, <2>5, <2>7, <2>8
  <1>11. D[S] = {v \in ResponseStates : Live(h, v) /\ CallsDone(r, v, S)}  OBVIOUS
  <1>12. S = {item[2] : item \in {added \in r.added : added[1] = "call"}}  BY <1>2, <1>3
  <1> HIDE DEF D
  <1>13. CloseToolCalls(r) \in D[S]
    BY ONLY <1>5, <1>6, <1>7, <1>8, <1>12, CloseToolCallsFolds
  <1>14. Live(h, d) /\ CallsDone(r, d, S)  BY <1>11, <1>13
  <1>15. ASSUME NEW k, <<"call", k>> \in r.added PROVE <<"call", k>> \in d.done
    <2>1. <<"call", k>> \in C  BY <1>2, <1>15
    <2>2. k \in S  BY <1>3, <2>1
    <2> QED BY <1>14, <2>2 DEF CallsDone
  <1> QED BY <1>14, <1>15 DEF CallsDone

\* The flush: every item is done and the response completes, unless nothing was
\* started or it has completed before.
LEMMA FlushKeeps ==
    ASSUME NEW h \in Seq(Frames), NEW r, ResponseInv(h, r), NEW d, d = ResponsesFlush(r)
    PROVE  ResponseInv(h, d) /\ (d.completed \/ h \o d.out = <<>>) /\ d.started = r.started
  <1>0. r \in ResponseStates  BY DEF ResponseInv
  <1>1. CASE r.completed \/ ~r.started
    BY <1>0, <1>1 DEF ResponsesFlush, ResponseInv, Knowing, ResponseStates
  <1>2. CASE ~(r.completed \/ ~r.started)
    <2>1. Live(h, r)  BY <1>0, <1>2 DEF Live, ResponseStates
    <2>2. PICK a : a = CloseMessage(r)  OBVIOUS
    <2>3. PICK b : b = CloseReasoning(a)  OBVIOUS
    <2>4. PICK c : c = CloseToolCalls(b)  OBVIOUS
    <2>5. Live(h, a) /\ Finishes1(r, a, "text", 0)  BY <2>1, <2>2, CloseMessageKeeps
    <2>6. Live(h, b) /\ Finishes1(a, b, "thought", 0)  BY <2>3, <2>5, CloseReasoningKeeps
    <2>7. /\ Live(h, c) /\ c.added = b.added /\ b.done \subseteq c.done
          /\ \A k : <<"call", k>> \in b.added => <<"call", k>> \in c.done
      BY <2>4, <2>6, CloseToolCallsKeep
    <2>8. c \in ResponseStates /\ c.added \subseteq Items /\ c.done \subseteq c.added
      BY <2>7, LiveIs DEF ResponseStates
    <2>9. ASSUME NEW item \in c.added PROVE item \in c.done
      <3>1. \/ item = <<"text", 0>> \/ item = <<"thought", 0>> \/ \E k \in Int : item = <<"call", k>>
        BY <2>8 DEF Items
      <3> QED BY <2>5, <2>6, <2>7, <3>1 DEF Finishes1
    <2>10. PICK f : f = Frame("completed", 0, "none", <<>>)  OBVIOUS
    <2>11. f \in Frames /\ f.t = "completed"  BY <2>10, Literals DEF Frame, Frames
    <2>12. PICK z : z = [c EXCEPT !.out = Append(c.out, f)]  OBVIOUS
    <2>13. Sends(c, f, z)  BY <2>8, <2>11, <2>12, SendsOut
    <2>14. z = Emit(c, "completed", 0, "none", <<>>)  BY <2>10, <2>12 DEF Emit
    <2>15. d = [z EXCEPT !.completed = TRUE]
      BY <1>2, <2>2, <2>3, <2>4, <2>14 DEF ResponsesFlush
    <2>16. /\ d \in ResponseStates /\ d.out = z.out /\ d.started = z.started
           /\ d.completed = TRUE /\ d.done = z.done /\ d.added = z.added
           /\ d.text = z.text /\ d.thought = z.thought /\ d.args = z.args
      BY <2>13, <2>15 DEF Sends, ResponseStates
    <2>17. c.started = TRUE /\ c.completed = FALSE /\ ResponseInv(h, c)  BY <2>7 DEF Live
    <2>18. Notes(c, f, d)
      <3>1. d.added = c.added \cup (IF f.t = "added" THEN {<<f.kind, f.id>>} ELSE {})
        BY <2>11, <2>13, <2>16 DEF Sends
      <3>2. d.done = c.done \cup (IF f.t = "done" THEN {<<f.kind, f.id>>} ELSE {})
        BY <2>11, <2>13, <2>16 DEF Sends
      <3>3. /\ d.out = Append(c.out, f) /\ d.started = TRUE /\ d.text = c.text
            /\ d.thought = c.thought /\ d.args = c.args /\ f.t # "delta" /\ d.done \subseteq d.added
            /\ (d.completed <=> c.completed \/ f.t = "completed")
        BY <2>8, <2>11, <2>13, <2>16, <2>17 DEF Sends
      <3> QED BY ONLY <2>8, <2>11, <2>16, <3>1, <3>2, <3>3, QuietNotes
    <2>19. MayAnswer(h \o c.out, f)
      BY <2>7, <2>9, <2>11, LiveIs DEF MayAnswer
    <2>20. ResponseInv(h, d)  BY <2>17, <2>18, <2>19, ResponseGoesOn
    <2>21. d.started = r.started  BY <1>0, <1>2, <2>13, <2>16, <2>17 DEF Sends, ResponseStates
    <2> QED BY <2>16, <2>20, <2>21
  <1> QED BY <1>1, <1>2

Contentless(chunk) == chunk.text = <<>> /\ chunk.thought = <<>> /\ chunk.calls = <<>>

\* No calls to send.
LEMMA FoldNothing ==
    ASSUME NEW r
    PROVE  FoldLeft(ResponsesToolCall, r, <<>>) = r
  <1>1. PICK n : n = 0  OBVIOUS
  <1>2. PICK D : D = [k \in 0..0 |-> {r}]  OBVIOUS
  <1>3. PICK seq : seq = <<>>  OBVIOUS
  <1>4. n \in Nat /\ DOMAIN seq = 1..n /\ r \in D[0] /\ 1..n = {} /\ D[n] = {r}
    BY <1>1, <1>2, <1>3
  <1>5. \A k \in 1..n : \A v \in D[k - 1] : ResponsesToolCall(v, seq[k]) \in D[k]
    BY <1>4
  <1>6. FoldLeft(ResponsesToolCall, r, seq) \in D[n]
    BY ONLY <1>4, <1>5, ResponsesToolCallFolds
  <1> QED BY <1>3, <1>4, <1>6

\* A whole chunk sent to a Responses client.
LEMMA ToResponsesKeeps ==
    ASSUME NEW h \in Seq(Frames), NEW r, ResponseInv(h, r), NEW chunk \in Chunks,
           r.completed => Contentless(chunk), NEW d, d = ToResponses(r, chunk)
    PROVE  /\ ResponseInv(h, d)
           /\ d.completed => r.completed \/ chunk.finish # "none"
  <1>0. /\ chunk.text \in Seq(Int) /\ chunk.thought \in Seq(Int) /\ chunk.calls \in Seq(CallParts)
        /\ r \in ResponseStates
    BY DEF Chunks, ResponseInv
  <1>1. PICK a : a = ResponsesStart(r)  OBVIOUS
  <1>2. PICK b : b = ResponsesThought(a, chunk.thought)  OBVIOUS
  <1>3. PICK c : c = ResponsesText(b, chunk.text)  OBVIOUS
  <1>4. PICK e : e = FoldLeft(ResponsesToolCall, c, chunk.calls)  OBVIOUS
  <1>5. d = IF chunk.finish = "none" THEN e ELSE ResponsesFlush(e)
    BY <1>1, <1>2, <1>3, <1>4 DEF ToResponses
  <1>6. CASE r.completed
    <2>1. r.started = TRUE
      <3>1. ~Going(h \o r.out) /\ (r.started <=> h \o r.out # <<>>)
        BY <1>6 DEF ResponseInv, Knowing
      <3>2. DOMAIN <<>> = {}  OBVIOUS
      <3>3. h \o r.out # <<>>  BY <3>1, <3>2 DEF Going
      <3> QED BY <1>0, <3>1, <3>3 DEF ResponseStates
    <2>2. a = r  BY <1>1, <2>1 DEF ResponsesStart
    <2>3. Contentless(chunk)  BY <1>6
    <2>4. b = r  BY <1>2, <2>2, <2>3 DEF ResponsesThought, Contentless
    <2>5. c = r  BY <1>3, <2>3, <2>4 DEF ResponsesText, Contentless
    <2>6. e = r  BY <1>4, <2>3, <2>5, FoldNothing DEF Contentless
    <2>7. ResponsesFlush(e) = r  BY <1>6, <2>6 DEF ResponsesFlush
    <2> QED BY <1>5, <1>6, <2>6, <2>7
  <1>7. CASE ~r.completed
    <2>1. Live(h, a)  BY <1>1, <1>7, ResponsesStartKeeps
    <2>2. Live(h, b)  BY <1>0, <1>2, <2>1, ResponsesThoughtKeeps
    <2>3. Live(h, c)  BY <1>0, <1>3, <2>2, ResponsesTextKeeps
    <2>4. Live(h, e)  BY <1>0, <1>4, <2>3, ResponsesCallsKeep
    <2>5. ResponseInv(h, e) /\ e.completed = FALSE  BY <2>4 DEF Live
    <2>6. PICK g : g = ResponsesFlush(e)  OBVIOUS
    <2>7. ResponseInv(h, g)  BY <2>5, <2>6, FlushKeeps
    <2> QED BY <1>5, <2>5, <2>6, <2>7
  <1> QED BY <1>6, <1>7

JsonCalls == [index : Int, ps : Seq(Int)]
JsonStates == [text : Seq(Int), thought : Seq(Int), calls : Seq(JsonCalls), finish : Finishes,
               out : {<<>>}]

\* The body gathered so far: its finish is one of R, and it has calls if m.
JsonInv(j, R, m) ==
    /\ j \in JsonStates
    /\ j.finish = "none" \/ j.finish \in R
    /\ m => j.calls # <<>>

\* A call, or a part of one, merged into a JSON body.
LEMMA MergeKeeps ==
    ASSUME NEW j \in JsonStates, NEW call \in CallParts, NEW d, d = MergeToolCall(j, call)
    PROVE  d \in JsonStates /\ d.calls # <<>> /\ d.finish = j.finish
  <1>0. /\ j.calls \in Seq(JsonCalls) /\ call.index \in Int /\ call.ps \in Seq(Int)
    BY DEF JsonStates, CallParts
  <1>1. CASE HasCall(j, call.index)
    <2>1. PICK q : q = AddPieces(j.calls, call)  OBVIOUS
    <2>2. PICK n \in Nat : n = Len(j.calls)  BY <1>0, AppendKeeps
    <2>3. DOMAIN j.calls = 1..n /\ \A i \in 1..n : j.calls[i] \in JsonCalls  BY <1>0, <2>2
    <2>4. q = [i \in 1..n |-> IF j.calls[i].index = call.index
                              THEN [j.calls[i] EXCEPT !.ps = j.calls[i].ps \o call.ps]
                              ELSE j.calls[i]]
      BY <2>1, <2>3 DEF AddPieces
    <2>5. \A i \in 1..n : q[i] \in JsonCalls
      <3> SUFFICES ASSUME NEW i \in 1..n PROVE q[i] \in JsonCalls
        OBVIOUS
      <3>1. PICK c : c = j.calls[i]  OBVIOUS
      <3>2. c.ps \in Seq(Int) /\ c \in JsonCalls  BY <2>3, <3>1 DEF JsonCalls
      <3>3. c.ps \o call.ps \in Seq(Int)  BY <1>0, <3>2
      <3>4. [c EXCEPT !.ps = c.ps \o call.ps] \in JsonCalls  BY <3>2, <3>3 DEF JsonCalls
      <3> QED BY <2>4, <3>1, <3>2, <3>4
    <2>6. q \in Seq(JsonCalls) /\ Len(q) = n
      <3>1. q \in [1..n -> JsonCalls]  BY <2>4, <2>5
      <3> QED BY <3>1, SeqDef, LenProperties
    <2>7. n # 0  BY <1>1, <2>3 DEF HasCall
    <2>8. q # <<>>  BY <2>6, <2>7
    <2>9. d = [j EXCEPT !.calls = q]  BY <1>1, <2>1 DEF MergeToolCall
    <2> QED BY <2>6, <2>8, <2>9 DEF JsonStates
  <1>2. CASE ~HasCall(j, call.index)
    <2>1. PICK r : r = [index |-> call.index, ps |-> call.ps]  OBVIOUS
    <2>2. r \in JsonCalls  BY <1>0, <2>1 DEF JsonCalls
    <2>3. PICK q : q = Append(j.calls, r)  OBVIOUS
    <2>4. q \in Seq(JsonCalls) /\ q # <<>>  BY <1>0, <2>2, <2>3, AppendNotEmpty, AppendKeeps
    <2>5. d = [j EXCEPT !.calls = q]  BY <1>2, <2>1, <2>3 DEF MergeToolCall
    <2> QED BY <2>4, <2>5 DEF JsonStates
  <1> QED BY <1>1, <1>2

\* All calls of a chunk merged into a JSON body.
LEMMA MergesKeep ==
    ASSUME NEW j \in JsonStates, NEW calls \in Seq(CallParts), NEW d,
           d = FoldLeft(MergeToolCall, j, calls)
    PROVE  /\ d \in JsonStates /\ d.finish = j.finish
           /\ j.calls # <<>> \/ calls # <<>> => d.calls # <<>>
  <1>1. PICK n \in Nat : n = Len(calls)  BY AppendKeeps
  <1>2. DOMAIN calls = 1..n /\ \A k \in 1..n : calls[k] \in CallParts  BY <1>1
  <1> DEFINE U(k) == {v \in JsonStates : /\ v.finish = j.finish
                                         /\ j.calls # <<>> \/ k > 0 => v.calls # <<>>}
             D == [k \in 0..n |-> U(k)]
  <1>3. \A k \in 1..n : \A v \in U(k - 1) : MergeToolCall(v, calls[k]) \in U(k)
    <2> SUFFICES ASSUME NEW k \in 1..n, NEW v \in U(k - 1)
                 PROVE  MergeToolCall(v, calls[k]) \in U(k)
      OBVIOUS
    <2>1. PICK w : w = MergeToolCall(v, calls[k])  OBVIOUS
    <2>2. w \in JsonStates /\ w.calls # <<>> /\ w.finish = v.finish
      BY <1>2, <2>1, MergeKeeps
    <2> QED BY <2>1, <2>2
  <1>4. \A k \in 1..n : \A v \in D[k - 1] : MergeToolCall(v, calls[k]) \in D[k]
    <2>1. \A k \in 1..n : k - 1 \in 0..n /\ k \in 0..n  BY <1>1
    <2>2. \A k \in 0..n : D[k] = U(k)  OBVIOUS
    <2> HIDE DEF D, U
    <2> QED BY <1>3, <2>1, <2>2
  <1>5. j \in D[0] /\ D[n] = U(n)  BY <1>1
  <1> HIDE DEF D
  <1>6. FoldLeft(MergeToolCall, j, calls) \in D[n]
    BY ONLY <1>1, <1>2, <1>4, <1>5, MergeToolCallFolds
  <1>7. calls # <<>> => n > 0  BY <1>1
  <1> QED BY <1>5, <1>6, <1>7

\* A whole chunk merged into a JSON body.
LEMMA ToJsonKeeps ==
    ASSUME NEW R, NEW m, NEW j, JsonInv(j, R, m), NEW chunk \in Chunks,
           chunk.finish = "none" \/ chunk.finish \in R, NEW d, d = ToJson(j, chunk)
    PROVE  JsonInv(d, R, m \/ chunk.calls # <<>>)
  <1>1. /\ chunk.text \in Seq(Int) /\ chunk.thought \in Seq(Int) /\ chunk.calls \in Seq(CallParts)
        /\ chunk.finish \in Finishes /\ j \in JsonStates
    BY DEF Chunks, JsonInv
  <1>2. PICK w : w = FoldLeft(MergeToolCall, j, chunk.calls)  OBVIOUS
  <1>3. /\ w \in JsonStates /\ w.finish = j.finish
        /\ j.calls # <<>> \/ chunk.calls # <<>> => w.calls # <<>>
    BY <1>1, <1>2, MergesKeep
  <1>4. PICK x : x = w.text \o chunk.text  OBVIOUS
  <1>5. PICK y : y = w.thought \o chunk.thought  OBVIOUS
  <1>6. PICK f : f = IF chunk.finish = "none" THEN w.finish ELSE chunk.finish  OBVIOUS
  <1>7. x \in Seq(Int) /\ y \in Seq(Int) /\ f \in Finishes
    <2>1. w.text \in Seq(Int) /\ w.thought \in Seq(Int) /\ w.finish \in Finishes
      BY <1>3 DEF JsonStates
    <2> QED BY <1>1, <1>4, <1>5, <1>6, <2>1
  <1>8. d = [w EXCEPT !.text = x, !.thought = y, !.finish = f]
    BY <1>2, <1>4, <1>5, <1>6 DEF ToJson
  <1>9. d \in JsonStates /\ d.finish = f /\ d.calls = w.calls
    BY <1>3, <1>7, <1>8 DEF JsonStates
  <1>10. f = "none" \/ f \in R  BY <1>3, <1>6 DEF JsonInv
  <1> QED BY <1>3, <1>9, <1>10 DEF JsonInv

OpenStates == [out : Seq(Chunks)]
Downs == ClaudeStates \cup ResponseStates \cup JsonStates \cup OpenStates

ChunksSound(s, R, e) ==
    /\ s \in Seq(Chunks)
    /\ \A i \in DOMAIN s : s[i].finish = "none" \/ s[i].finish \in R
    /\ e => \E i \in DOMAIN s : s[i].finish # "none"

\* What the client has been sent, h and then the frames in d, and what d knows of it.
DownInv(h, d, R, e, m) ==
    CASE source = "claude" -> h \in Seq(Frames) /\ ClaudeInv(h, d, R, e)
      [] source = "responses" -> h \in Seq(Frames) /\ ResponseInv(h, d)
      [] source = "json" -> h = <<>> /\ JsonInv(d, R, m)
      [] OTHER -> h \in Seq(Chunks) /\ d \in OpenStates /\ ChunksSound(h \o d.out, R, e)

\* The client's response is complete.
Complete(d) == source = "responses" /\ d.completed = TRUE

\* The state of a client is one of its format.
LEMMA DownsAre ==
    ASSUME NEW h, NEW d, NEW R, NEW e, NEW m, DownInv(h, d, R, e, m)
    PROVE  d \in Downs
  BY DEF DownInv, Downs, ClaudeInv, ResponseInv, JsonInv

\* A chunk sent to an OpenAI client as it is.
LEMMA ChunkAppend ==
    ASSUME NEW s, NEW R, NEW e, ChunksSound(s, R, e), NEW f \in Chunks,
           f.finish = "none" \/ f.finish \in R
    PROVE  ChunksSound(Append(s, f), R, e \/ f.finish # "none")
  <1>1. s \in Seq(Chunks)  BY DEF ChunksSound
  <1>2. PICK z : z = Append(s, f)  OBVIOUS
  <1>3. PICK n \in Nat : n = Len(s)  BY <1>1, AppendKeeps
  <1>4. /\ z[n + 1] = f /\ \A i \in 1..n : z[i] = s[i]
        /\ DOMAIN z = 1..(n + 1) /\ DOMAIN s = 1..n /\ z \in Seq(Chunks)
    BY <1>1, <1>2, <1>3, AppendKeeps
  <1>5. 1..(n + 1) = (1..n) \cup {n + 1}  BY UpToNext
  <1> QED BY <1>2, <1>4, <1>5 DEF ChunksSound

\* One chunk sent to a client of any format.
LEMMA OneChunkKeeps ==
    ASSUME NEW h, NEW d, NEW R, NEW e, NEW m, DownInv(h, d, R, e, m),
           NEW chunk \in Chunks, chunk.finish = "none" \/ chunk.finish \in R,
           Complete(d) => Contentless(chunk),
           NEW w, w = ToOneClient(d, chunk)
    PROVE  /\ DownInv(h, w, R, e \/ chunk.finish # "none", m \/ chunk.calls # <<>>)
           /\ Complete(w) => Complete(d) \/ chunk.finish # "none"
  <1>1. CASE source = "claude"
    <2>1. w = ToClaude(d, chunk)  BY <1>1 DEF ToOneClient
    <2>2. h \in Seq(Frames) /\ ClaudeInv(h, d, R, e)  BY <1>1 DEF DownInv
    <2>3. ClaudeInv(h, w, R, e \/ chunk.finish # "none")  BY <2>1, <2>2, ToClaudeKeeps
    <2> QED BY <1>1, <2>2, <2>3 DEF DownInv, Complete
  <1>2. CASE source = "responses"
    <2>1. w = ToResponses(d, chunk)  BY <1>2 DEF ToOneClient
    <2>2. h \in Seq(Frames) /\ ResponseInv(h, d)  BY <1>2 DEF DownInv
    <2>3. d.completed => Contentless(chunk)
      <3>1. d.completed \in BOOLEAN  BY <2>2 DEF ResponseInv, ResponseStates
      <3> QED BY <1>2, <3>1 DEF Complete
    <2>4. ResponseInv(h, w) /\ (w.completed => d.completed \/ chunk.finish # "none")
      BY ONLY <2>1, <2>2, <2>3, chunk \in Chunks, ToResponsesKeeps
    <2>5. d.completed \in BOOLEAN  BY <2>2 DEF ResponseInv, ResponseStates
    <2> QED BY <1>2, <2>2, <2>4, <2>5 DEF DownInv, Complete
  <1>3. CASE source = "json"
    <2>1. w = ToJson(d, chunk)  BY <1>3 DEF ToOneClient
    <2>2. h = <<>> /\ JsonInv(d, R, m)  BY <1>3 DEF DownInv
    <2>3. JsonInv(w, R, m \/ chunk.calls # <<>>)  BY <2>1, <2>2, ToJsonKeeps
    <2> QED BY <1>3, <2>2, <2>3 DEF DownInv, Complete
  <1>4. CASE source \notin {"claude", "responses", "json"}
    <2>1. w = [d EXCEPT !.out = Append(d.out, chunk)]  BY <1>4 DEF ToOneClient
    <2>2. h \in Seq(Chunks) /\ d \in OpenStates /\ ChunksSound(h \o d.out, R, e)
      BY <1>4 DEF DownInv
    <2>3. d.out \in Seq(Chunks)  BY <2>2 DEF OpenStates
    <2>4. PICK o : o = Append(d.out, chunk)  OBVIOUS
    <2>5. h \o o = Append(h \o d.out, chunk) /\ o \in Seq(Chunks)
      BY <2>2, <2>3, <2>4, ConcatAppend
    <2>6. w \in OpenStates /\ w.out = o  BY <2>1, <2>2, <2>4, <2>5 DEF OpenStates
    <2>7. ChunksSound(h \o w.out, R, e \/ chunk.finish # "none")
      <3>1. PICK s : s = h \o d.out  OBVIOUS
      <3>2. ChunksSound(Append(s, chunk), R, e \/ chunk.finish # "none")
        BY <2>2, <3>1, ChunkAppend
      <3> QED BY <2>5, <2>6, <3>1, <3>2
    <2> QED BY <1>4, <2>2, <2>6, <2>7 DEF DownInv, Complete
  <1> QED BY <1>1, <1>2, <1>3, <1>4

\* A provider's event became cs: finishes are of R, and nothing is said after one.
Told(cs, R) ==
    /\ cs \in Seq(Chunks)
    /\ \A i \in DOMAIN cs : cs[i].finish = "none" \/ cs[i].finish \in R
    /\ \A i, j \in DOMAIN cs : i < j /\ cs[i].finish # "none" => Contentless(cs[j])
FinishIn(cs) == \E i \in DOMAIN cs : cs[i].finish # "none"
CallIn(cs) == \E i \in DOMAIN cs : cs[i].calls # <<>>
Silent(cs) == \A i \in DOMAIN cs : Contentless(cs[i])

\* All chunks of a step sent to a client of any format.
LEMMA ToClientKeeps ==
    ASSUME NEW h, NEW d, NEW R, NEW e, NEW m, DownInv(h, d, R, e, m),
           NEW cs, Told(cs, R), Complete(d) => Silent(cs),
           NEW w, w = ToClient(d, cs)
    PROVE  /\ DownInv(h, w, R, e \/ FinishIn(cs), m \/ CallIn(cs))
           /\ Complete(w) => Complete(d) \/ FinishIn(cs)
  <1>1. PICK n \in Nat : n = Len(cs)  BY AppendKeeps DEF Told
  <1>2. DOMAIN cs = 1..n /\ \A k \in 1..n : cs[k] \in Chunks  BY <1>1 DEF Told
  <1> DEFINE F(k) == \E i \in 1..k : cs[i].finish # "none"
             C(k) == \E i \in 1..k : cs[i].calls # <<>>
             U(k) == {v \in Downs : /\ DownInv(h, v, R, e \/ F(k), m \/ C(k))
                                    /\ Complete(v) => Complete(d) \/ F(k)}
             D == [k \in 0..n |-> U(k)]
  <1>3. \A k \in 1..n : \A v \in U(k - 1) : ToOneClient(v, cs[k]) \in U(k)
    <2> SUFFICES ASSUME NEW k \in 1..n, NEW v \in U(k - 1)
                 PROVE  ToOneClient(v, cs[k]) \in U(k)
      OBVIOUS
    <2>1. PICK x : x = ToOneClient(v, cs[k])  OBVIOUS
    <2>2. PICK chunk : chunk = cs[k]  OBVIOUS
    <2>3. chunk \in Chunks /\ (chunk.finish = "none" \/ chunk.finish \in R)
      BY <1>2, <2>2 DEF Told
    <2>4. \A i \in 1..k : i \in 1..(k - 1) \/ i = k  OBVIOUS
    <2>4a. \A i \in 1..(k - 1) : i \in 1..k /\ i < k /\ i \in 1..n  OBVIOUS
    <2>5. F(k) <=> F(k - 1) \/ chunk.finish # "none"
      <3> HIDE DEF U
      <3> QED BY <2>2, <2>4, <2>4a
    <2>6. C(k) <=> C(k - 1) \/ chunk.calls # <<>>
      <3> HIDE DEF U
      <3> QED BY <2>2, <2>4, <2>4a
    <2>7. Complete(v) => Contentless(chunk)
      <3>1. Complete(d) => Contentless(chunk)  BY <1>2, <2>2 DEF Silent
      <3>2. F(k - 1) => Contentless(chunk)  BY <1>2, <2>2, <2>4a DEF Told
      <3> QED BY <3>1, <3>2
    <2>8. PICK e1 : e1 = (e \/ F(k - 1))  OBVIOUS
    <2>9. PICK m1 : m1 = (m \/ C(k - 1))  OBVIOUS
    <2>10. DownInv(h, v, R, e1, m1)  BY <2>8, <2>9
    <2> HIDE DEF F, C
    <2>11. /\ DownInv(h, x, R, e1 \/ chunk.finish # "none", m1 \/ chunk.calls # <<>>)
           /\ Complete(x) => Complete(v) \/ chunk.finish # "none"
      BY ONLY <2>1, <2>2, <2>3, <2>7, <2>10, OneChunkKeeps
    <2>12. (e1 \/ chunk.finish # "none") = (e \/ F(k))  BY <2>5, <2>8
    <2>13. (m1 \/ chunk.calls # <<>>) = (m \/ C(k))  BY <2>6, <2>9
    <2>14. DownInv(h, x, R, e \/ F(k), m \/ C(k))  BY <2>11, <2>12, <2>13
    <2>15. Complete(x) => Complete(d) \/ F(k)  BY <2>5, <2>11
    <2>16. x \in Downs  BY <2>14, DownsAre
    <2> QED BY <2>1, <2>14, <2>15, <2>16
  <1>4. \A k \in 1..n : \A v \in D[k - 1] : ToOneClient(v, cs[k]) \in D[k]
    <2>1. \A k \in 1..n : k - 1 \in 0..n /\ k \in 0..n  BY <1>1
    <2>2. \A k \in 0..n : D[k] = U(k)  OBVIOUS
    <2> HIDE DEF D, U
    <2> QED BY <1>3, <2>1, <2>2
  <1>5. d \in D[0] /\ D[n] = U(n)
    <2>1. F(0) = FALSE /\ C(0) = FALSE  OBVIOUS
    <2>3. DownInv(h, d, R, e \/ F(0), m \/ C(0))
      BY <2>1 DEF DownInv, ClaudeInv, ClaudeSound, JsonInv, ChunksSound
    <2>4. d \in Downs  BY DownsAre
    <2>5. D[0] = U(0) /\ D[n] = U(n)  BY <1>1
    <2> HIDE DEF F, C, D
    <2> QED BY <2>3, <2>4, <2>5
  <1> HIDE DEF D
  <1>6. FoldLeft(ToOneClient, d, cs) \in D[n]
    BY ONLY <1>1, <1>2, <1>4, <1>5, ToOneClientFolds
  <1>7. w \in U(n)  BY <1>5, <1>6 DEF ToClient
  <1>8. FinishIn(cs) = F(n) /\ CallIn(cs) = C(n)  BY <1>2 DEF FinishIn, CallIn
  <1> QED BY <1>7, <1>8

Announcing == {"gemini", "ollama"} \cup Binary
Allowed == IF target \in Announcing /\ talk.calls > 0 THEN {"tool_calls"} ELSE Reasons
Phases == {"answering", "finished", "failed", "over"}
IsEvent(e, k, tag) == e.k = k /\ e.id \in Int /\ e.ps \in Seq(Nat) /\ e.tag = tag

TalkTyped ==
    /\ talk.calls \in 0..MaxCalls /\ talk.phase \in Phases
    /\ talk.block \in Int /\ talk.blocks \in Int
    /\ said \in [text : Nat, thought : Nat, args : [CallIds -> Nat]]
    /\ talk.kind = "call" => talk.calls > 0
    /\ target \in {"openai", "claude", "gemini", "ollama", "commandcode", "grok", "perplexity",
                   "kiro", "cursor"}

\* The pieces of an event are numbers.
LEMMA CountUp ==
    ASSUME NEW n \in Nat
    PROVE  /\ Next1(n) \in Seq(Nat)
           /\ \A ps \in Repeats(n) : ps \in Seq(Nat)
           /\ UpTo(n) \in Seq(Nat)
  <1>1. \A m \in Nat : UpTo(m) \in Seq(Nat)
    <2> SUFFICES ASSUME NEW m \in Nat PROVE UpTo(m) \in Seq(Nat)
      OBVIOUS
    <2>1. UpTo(m) \in [1..m -> Nat]  BY DEF UpTo
    <2> QED BY <2>1, SeqDef
  <1>2. Next1(n) \in Seq(Nat)  BY DEF Next1
  <1>3. \A m \in {n, n + 1} \ {0} : m \in Nat  OBVIOUS
  <1> QED BY <1>1, <1>2, <1>3 DEF Repeats

\* The last of some numbers is one.
LEMMA LastOfNats ==
    ASSUME NEW ps \in Seq(Nat), ps # <<>>
    PROVE  Last(ps) \in Nat
  <1>1. Len(ps) \in 1..Len(ps)  OBVIOUS
  <1> QED BY <1>1 DEF Last

\* What an ending looks like.
LEMMA EndingTyped ==
    ASSUME NEW k, NEW e \in Ending(k)
    PROVE  IsEvent(e, k, e.tag) /\ e.id = 0 /\ e.ps = <<>> /\ e.tag \in Reasons
  <1>1. PICK r \in Reasons : e = Event(k, 0, <<>>, r)  BY DEF Ending
  <1>2. <<>> \in Seq(Nat)  OBVIOUS
  <1> QED BY <1>1, <1>2 DEF Event, IsEvent

\* What a new call looks like.
LEMMA NewCallTyped ==
    ASSUME TalkTyped, NEW k, NEW ps \in Seq(Nat), NEW e \in NewCall(k, ps)
    PROVE  /\ IsEvent(e, k, "none") /\ e.id = talk.calls + 1 /\ e.ps = ps
           /\ talk.calls < MaxCalls
  <1>1. talk.calls < MaxCalls /\ e = Event(k, talk.calls + 1, ps, "none")  BY DEF NewCall
  <1>2. talk.calls + 1 \in Int  BY DEF TalkTyped
  <1> QED BY <1>1, <1>2 DEF Event, IsEvent

\* What a fragment of a call's arguments looks like.
LEMMA ArgsTyped ==
    ASSUME TalkTyped, NEW k, NEW e \in Args(k)
    PROVE  IsEvent(e, k, "none") /\ e.id \in 1..talk.calls /\ ~(e.id > talk.calls)
  <1>1. PICK i \in 1..talk.calls : e = Event(k, i, Next1(said.args[i]), "none")  BY DEF Args
  <1>2. i \in CallIds /\ talk.calls \in Int  BY StreamAssumption DEF TalkTyped, CallIds
  <1>3. said.args[i] \in Nat  BY <1>2 DEF TalkTyped
  <1>4. Next1(said.args[i]) \in Seq(Nat)  BY <1>3, CountUp
  <1>5. i \in Int /\ ~(i > talk.calls)  BY <1>1, <1>2
  <1> QED BY <1>1, <1>4, <1>5 DEF Event, IsEvent

\* What text, thought and error look like.
LEMMA TextTyped ==
    ASSUME TalkTyped
    PROVE  /\ IsEvent(NewText, "text", "none") /\ IsEvent(NewThought, "thought", "none")
           /\ IsEvent(Error, "error", "none")
  <1>1. said.text \in Nat /\ said.thought \in Nat  BY DEF TalkTyped
  <1>2. Next1(said.text) \in Seq(Nat) /\ Next1(said.thought) \in Seq(Nat)
    BY <1>1, CountUp
  <1>3. <<>> \in Seq(Nat)  OBVIOUS
  <1> QED BY <1>2, <1>3 DEF NewText, NewThought, Error, Event, IsEvent

Plain(e, ks) == e.k \in ks /\ e.tag = "none"
Ended1(e, ks) == e.k \in ks /\ e.tag \in Reasons
Places == {"numbered", "first", "next"}

\* An event the provider may send while it answers, by the provider's format.
Shaped(e) ==
    /\ target = "openai" => Plain(e, {"text", "thought", "open", "args"}) \/ Ended1(e, {"finish"})
    /\ target = "claude" =>
          \/ e.k \in {"message_start", "message_stop", "block_start", "block_delta", "block_stop"}
          \/ Ended1(e, {"message_delta"})
    /\ target = "gemini" =>
          \/ e.k \in {"text", "thought", "call"} /\ e.tag \in {"none", "stop"}
          \/ e.k = "finish" /\ e.tag = "stop"
    /\ target = "ollama" => \/ Plain(e, {"text", "thought"}) \/ (e.k = "done" /\ e.tag = "stop")
                            \/ e.k = "call" /\ e.tag \in Places
    /\ target = "commandcode" => \/ Plain(e, {"text", "thought", "open", "args", "call", "error"})
                                 \/ Ended1(e, {"finish_step", "finish"})
    /\ target = "grok" => Plain(e, {"text", "thought", "whole", "error"})
    /\ target = "perplexity" => Plain(e, {"text", "thought", "error"})
    /\ target = "kiro" => Plain(e, {"text", "thought", "call", "stop", "error"})
    /\ target = "cursor" => Plain(e, {"text", "thought", "call", "stop", "error"}
                                        \cup {"mark", "embedded", "exec"})

\* What an event carries, and that a call it opens is one more than before.
Carries(e) ==
    /\ e.id \in Int /\ e.ps \in Seq(Nat)
    /\ e.k \in {"open", "call"} /\ e.id > talk.calls =>
          talk.calls < MaxCalls /\ e.id = talk.calls + 1
    /\ e.k = "block_start" /\ e.tag = "call" => talk.calls < MaxCalls

\* What an OpenAI provider may send.
LEMMA OpenAiShaped ==
    ASSUME TalkTyped, NEW e \in OpenAiEvents
    PROVE  /\ Carries(e)
           /\ Plain(e, {"text", "thought", "open", "args"}) \/ Ended1(e, {"finish"})
  <1>1. <<>> \in Seq(Nat) /\ <<1>> \in Seq(Nat)  OBVIOUS
  <1>2. CASE e \in {NewText, NewThought}
    BY <1>2, TextTyped DEF IsEvent, Plain, Carries
  <1>3. CASE e \in NewCall("open", <<>>) \cup NewCall("open", <<1>>)
    <2>1. PICK k, ps : k = "open" /\ ps \in {<<>>, <<1>>} /\ e \in NewCall(k, ps)  BY <1>3
    <2>2. ps \in Seq(Nat)  BY <1>1, <2>1
    <2>3. /\ IsEvent(e, k, "none") /\ e.id = talk.calls + 1 /\ e.ps = ps
          /\ talk.calls < MaxCalls
      BY <2>1, <2>2, NewCallTyped
    <2> QED BY <2>1, <2>3 DEF IsEvent, Plain, Carries
  <1>4. CASE e \in Args("args")
    BY <1>4, ArgsTyped DEF IsEvent, Plain, Carries
  <1>5. CASE e \in Ending("finish")
    BY <1>1, <1>5, EndingTyped DEF IsEvent, Ended1, Carries
  <1> QED BY <1>2, <1>3, <1>4, <1>5 DEF OpenAiEvents

\* What a Claude provider may send.
LEMMA ClaudeShaped ==
    ASSUME TalkTyped, NEW e \in ClaudeEvents
    PROVE  /\ Carries(e)
           /\ \/ e.k \in {"message_start", "message_stop", "block_start", "block_delta", "block_stop"}
              \/ Ended1(e, {"message_delta"})
  <1>1. <<>> \in Seq(Nat) /\ 0 \in Int /\ talk.block \in Int /\ talk.blocks \in Int
    BY DEF TalkTyped
  <1>2. CASE e = Event("message_start", 0, <<>>, "none") \/ e = Event("message_stop", 0, <<>>, "none")
    <2>1. e.k \in {"message_start", "message_stop"} /\ e.id = 0 /\ e.ps = <<>>  BY <1>2 DEF Event
    <2> QED BY <1>1, <2>1 DEF Carries
  <1>3. CASE e \in {Event("block_start", talk.blocks, <<>>, kind) :
                        kind \in {"text", "thought", "server"}
                                     \cup (IF talk.calls < MaxCalls THEN {"call"} ELSE {})}
    <2>1. PICK kind \in {"text", "thought", "server"}
                            \cup (IF talk.calls < MaxCalls THEN {"call"} ELSE {}) :
                  e = Event("block_start", talk.blocks, <<>>, kind)
      BY <1>3
    <2>2. /\ e.k = "block_start" /\ e.id = talk.blocks /\ e.ps = <<>> /\ e.tag = kind
      BY <2>1 DEF Event
    <2>3. kind = "call" => talk.calls < MaxCalls  BY <2>1
    <2> QED BY <1>1, <2>2, <2>3 DEF Carries
  <1>4. CASE e \in Ending("message_delta")
    BY <1>1, <1>4, EndingTyped DEF IsEvent, Ended1, Carries
  <1>5. CASE e = Event("block_stop", talk.block, <<>>, talk.kind)
    BY <1>1, <1>5 DEF Event, Carries
  <1>6. CASE e = Event("block_delta", talk.block,
                       Next1(CASE talk.kind = "text" -> said.text
                               [] talk.kind = "thought" -> said.thought
                               [] talk.kind = "call" -> said.args[talk.calls]
                               [] OTHER -> 0), talk.kind)
    <2>1. PICK n : n = CASE talk.kind = "text" -> said.text
                         [] talk.kind = "thought" -> said.thought
                         [] talk.kind = "call" -> said.args[talk.calls]
                         [] OTHER -> 0
      OBVIOUS
    <2>2. n \in Nat
      <3>1. talk.kind = "call" => talk.calls \in CallIds
        BY StreamAssumption DEF TalkTyped, CallIds
      <3> QED BY <2>1, <3>1 DEF TalkTyped
    <2>3. Next1(n) \in Seq(Nat)  BY <2>2, CountUp
    <2>4. e = Event("block_delta", talk.block, Next1(n), talk.kind)  BY <1>6, <2>1
    <2> QED BY <1>1, <2>3, <2>4 DEF Event, Carries
  <1> QED BY <1>2, <1>3, <1>4, <1>5, <1>6 DEF ClaudeEvents

\* What a Gemini provider may send.
LEMMA GeminiShaped ==
    ASSUME TalkTyped, NEW e \in GeminiEvents
    PROVE  /\ Carries(e)
           /\ \/ e.k \in {"text", "thought", "call"} /\ e.tag \in {"none", "stop"}
              \/ e.k = "finish" /\ e.tag = "stop"
  <1>1. <<>> \in Seq(Nat) /\ <<1>> \in Seq(Nat) /\ said.text \in Nat /\ said.thought \in Nat
    BY DEF TalkTyped
  <1>2. Next1(said.text) \in Seq(Nat) /\ Next1(said.thought) \in Seq(Nat)  BY <1>1, CountUp
  <1>3. CASE e = Event("finish", 0, <<>>, "stop")
    BY <1>1, <1>3 DEF Event, Carries
  <1>4. ASSUME NEW d \in {NewText, NewThought} \cup NewCall("call", << 1 >>), NEW r \in {"none", "stop"},
               e = [d EXCEPT !.tag = r]
        PROVE  Carries(e) /\ e.k \in {"text", "thought", "call"} /\ e.tag \in {"none", "stop"}
    <2>1. CASE d \in {NewText, NewThought}
      BY <1>2, <1>4, <2>1 DEF NewText, NewThought, Event, Carries
    <2>2. CASE d \in NewCall("call", <<1>>)
      <3>1. d = Event("call", talk.calls + 1, <<1>>, "none") /\ talk.calls < MaxCalls
        BY <2>2 DEF NewCall
      <3>2. talk.calls + 1 \in Int  BY DEF TalkTyped
      <3> QED BY <1>1, <1>4, <3>1, <3>2 DEF Event, Carries
    <2> QED BY <1>4, <2>1, <2>2
  <1> QED BY <1>3, <1>4 DEF GeminiEvents

\* What an Ollama provider may send.
LEMMA OllamaShaped ==
    ASSUME TalkTyped, NEW e \in OllamaEvents
    PROVE  /\ Carries(e)
           /\ \/ Plain(e, {"text", "thought"}) \/ (e.k = "done" /\ e.tag = "stop")
              \/ e.k = "call" /\ e.tag \in Places
  <1>1. <<>> \in Seq(Nat) /\ <<1>> \in Seq(Nat)  OBVIOUS
  <1>2. CASE e \in {NewText, NewThought}
    BY <1>2, TextTyped DEF IsEvent, Plain, Carries
  <1>3. ASSUME NEW d \in NewCall("call", << 1 >>), NEW p \in Places, e = [d EXCEPT !.tag = p]
        PROVE  Carries(e) /\ e.k = "call" /\ e.tag \in Places
    <2>1. d = Event("call", talk.calls + 1, <<1>>, "none") /\ talk.calls < MaxCalls
      BY <1>3 DEF NewCall
    <2>2. talk.calls + 1 \in Int  BY DEF TalkTyped
    <2> QED BY <1>1, <1>3, <2>1, <2>2 DEF Event, Carries
  <1>4. CASE e = Event("done", 0, <<>>, "stop")
    BY <1>1, <1>4 DEF Event, Carries
  <1>5. e \in {NewText, NewThought, Event("done", 0, <<>>, "stop")}
           \/ \E d \in NewCall("call", <<1>>), p \in Places : e = [d EXCEPT !.tag = p]
    BY DEF OllamaEvents, Places
  <1> QED BY <1>2, <1>3, <1>4, <1>5

\* What a CommandCode provider may send.
LEMMA CommandCodeShaped ==
    ASSUME TalkTyped, NEW e \in CommandCodeEvents
    PROVE  /\ Carries(e)
           /\ \/ Plain(e, {"text", "thought", "open", "args", "call", "error"})
              \/ Ended1(e, {"finish_step", "finish"})
  <1>1. <<>> \in Seq(Nat) /\ <<1>> \in Seq(Nat)  OBVIOUS
  <1>2. CASE e \in {NewText, NewThought, Error}
    BY <1>2, TextTyped DEF IsEvent, Plain, Carries
  <1>3. CASE e \in NewCall("open", <<>>)
    <2>1. PICK k, ps : k = "open" /\ ps = <<>> /\ e \in NewCall(k, ps)  BY <1>3
    <2>2. ps \in Seq(Nat)  BY <1>1, <2>1
    <2>3. /\ IsEvent(e, k, "none") /\ e.id = talk.calls + 1 /\ e.ps = ps
          /\ talk.calls < MaxCalls
      BY <2>1, <2>2, NewCallTyped
    <2> QED BY <2>1, <2>3 DEF IsEvent, Plain, Carries
  <1>4. CASE e \in NewCall("call", <<1>>)
    <2>1. PICK k, ps : k = "call" /\ ps = <<1>> /\ e \in NewCall(k, ps)  BY <1>4
    <2>2. ps \in Seq(Nat)  BY <1>1, <2>1
    <2>3. /\ IsEvent(e, k, "none") /\ e.id = talk.calls + 1 /\ e.ps = ps
          /\ talk.calls < MaxCalls
      BY <2>1, <2>2, NewCallTyped
    <2> QED BY <2>1, <2>3 DEF IsEvent, Plain, Carries
  <1>5. CASE e \in Args("args")
    BY <1>5, ArgsTyped DEF IsEvent, Plain, Carries
  <1>6. CASE e \in Ending("finish_step")
    BY <1>1, <1>6, EndingTyped DEF IsEvent, Ended1, Carries
  <1>7. CASE e \in Ending("finish")
    BY <1>1, <1>7, EndingTyped DEF IsEvent, Ended1, Carries
  <1>8. CASE e \in {Event("call", i, UpTo(said.args[i]), "none") : i \in 1..talk.calls}
    <2>1. PICK i \in 1..talk.calls : e = Event("call", i, UpTo(said.args[i]), "none")  BY <1>8
    <2>2. i \in CallIds /\ talk.calls \in Int  BY StreamAssumption DEF TalkTyped, CallIds
    <2>3. said.args[i] \in Nat  BY <2>2 DEF TalkTyped
    <2>4. UpTo(said.args[i]) \in Seq(Nat)  BY <2>3, CountUp
    <2>5. i \in Int /\ ~(i > talk.calls)  BY <2>1, <2>2
    <2> QED BY <2>1, <2>4, <2>5 DEF Event, Plain, Carries
  <1> QED BY <1>2, <1>3, <1>4, <1>5, <1>6, <1>7, <1>8 DEF CommandCodeEvents

\* What a Grok provider may send.
LEMMA GrokShaped ==
    ASSUME TalkTyped, NEW e \in GrokEvents
    PROVE  Carries(e) /\ Plain(e, {"text", "thought", "whole", "error"})
  <1>1. <<1>> \in Seq(Nat) /\ said.text \in Nat  BY DEF TalkTyped
  <1>2. CASE e \in {NewText, NewThought, Error}
    BY <1>2, TextTyped DEF IsEvent, Plain, Carries
  <1>3. ASSUME NEW ps \in IF up.thinking THEN {<< 1 >>} ELSE Repeats(said.text),
               e = Event("whole", 0, ps, "none")
        PROVE  Carries(e) /\ Plain(e, {"text", "thought", "whole", "error"})
    <2>1. ps \in Seq(Nat)  BY <1>1, <1>3, CountUp
    <2> QED BY <1>3, <2>1 DEF Event, Plain, Carries
  <1> QED BY <1>2, <1>3 DEF GrokEvents

\* What a Perplexity provider may send.
LEMMA PerplexityShaped ==
    ASSUME TalkTyped, NEW e \in PerplexityEvents
    PROVE  Carries(e) /\ Plain(e, {"text", "thought", "error"})
  <1>1. said.text \in Nat /\ said.thought \in Nat  BY DEF TalkTyped
  <1>2. CASE e = Error
    BY <1>2, TextTyped DEF IsEvent, Plain, Carries
  <1>3. CASE e \in {Event("text", 0, ps, "none") : ps \in Repeats(said.text)}
    <2>1. PICK ps \in Repeats(said.text) : e = Event("text", 0, ps, "none")  BY <1>3
    <2>2. ps \in Seq(Nat)  BY <1>1, CountUp
    <2> QED BY <2>1, <2>2 DEF Event, Plain, Carries
  <1>4. CASE e \in {Event("thought", 0, <<n>>, "none") :
                        n \in {said.thought, said.thought + 1} \ {0}}
    <2>1. PICK n \in {said.thought, said.thought + 1} \ {0} : e = Event("thought", 0, <<n>>, "none")
      BY <1>4
    <2>2. n \in Nat  BY <1>1
    <2>3. <<n>> \in Seq(Nat)  BY <2>2
    <2> QED BY <2>1, <2>3 DEF Event, Plain, Carries
  <1> QED BY <1>2, <1>3, <1>4 DEF PerplexityEvents

\* What Kiro and Cursor both may send.
LEMMA BinaryShaped ==
    ASSUME TalkTyped, NEW e \in BinaryEvents
    PROVE  Carries(e) /\ Plain(e, {"call", "stop", "error"})
  <1>1. <<>> \in Seq(Nat) /\ <<1>> \in Seq(Nat)  OBVIOUS
  <1>2. CASE e = Error
    BY <1>2, TextTyped DEF IsEvent, Plain, Carries
  <1>3. CASE e = Event("stop", 0, <<>>, "none")
    BY <1>1, <1>3 DEF Event, Plain, Carries
  <1>4. CASE e \in NewCall("call", <<1>>)
    <2>1. PICK k, ps : k = "call" /\ ps = <<1>> /\ e \in NewCall(k, ps)  BY <1>4
    <2>2. ps \in Seq(Nat)  BY <1>1, <2>1
    <2>3. /\ IsEvent(e, k, "none") /\ e.id = talk.calls + 1 /\ e.ps = ps
          /\ talk.calls < MaxCalls
      BY <2>1, <2>2, NewCallTyped
    <2> QED BY <2>1, <2>3 DEF IsEvent, Plain, Carries
  <1>5. CASE e \in Args("call")
    BY <1>5, ArgsTyped DEF IsEvent, Plain, Carries
  <1> QED BY <1>2, <1>3, <1>4, <1>5 DEF BinaryEvents

\* What Kiro may send.
LEMMA KiroShaped ==
    ASSUME TalkTyped, NEW e \in KiroEvents
    PROVE  Carries(e) /\ Plain(e, {"text", "thought", "call", "stop", "error"})
  <1>1. CASE e \in {NewText, NewThought}
    BY <1>1, TextTyped DEF IsEvent, Plain, Carries
  <1>2. CASE e \in BinaryEvents
    BY <1>2, BinaryShaped DEF Plain
  <1> QED BY <1>1, <1>2 DEF KiroEvents

\* What Cursor may send.
LEMMA CursorShaped ==
    ASSUME TalkTyped, NEW e \in CursorEvents
    PROVE  /\ Carries(e)
           /\ Plain(e, {"text", "thought", "call", "stop", "error"} \cup {"mark", "embedded", "exec"})
  <1>1. CASE e \in {NewText, NewThought}
    BY <1>1, TextTyped DEF IsEvent, Plain, Carries
  <1>2. CASE e \in BinaryEvents
    BY <1>2, BinaryShaped DEF Plain
  <1>3. CASE e = Event("embedded", 0, Next1(said.text), "none")
    <2>1. Next1(said.text) \in Seq(Nat)
      <3>1. said.text \in Nat  BY DEF TalkTyped
      <3> QED BY <3>1, CountUp
    <2> QED BY <1>3, <2>1 DEF Event, Plain, Carries
  <1>4. CASE e = Event("mark", 0, <<>>, "none") \/ e = Event("exec", 0, <<>>, "none")
    <2>1. <<>> \in Seq(Nat) /\ 0 \in Int  OBVIOUS
    <2>2. e.k \in {"mark", "exec"} /\ e.id = 0 /\ e.ps = <<>> /\ e.tag = "none"
      BY <1>4 DEF Event
    <2> QED BY <2>1, <2>2 DEF Plain, Carries
  <1> QED BY <1>1, <1>2, <1>3, <1>4 DEF CursorEvents

\* What follows the end of an answer.
After(e) ==
    \/ target = "claude" /\ e.k = "message_stop" /\ e.tag = "none"
    \/ target = "commandcode" /\ Ended1(e, {"finish"})

\* What any provider may send, in each phase of its protocol.
LEMMA OffersAre ==
    ASSUME TalkTyped, NEW e \in Offers
    PROVE  /\ Carries(e)
           /\ talk.phase = "answering" => Shaped(e)
           /\ talk.phase # "answering" => After(e)
  <1>1. CASE talk.phase # "answering"
    <2>1. <<>> \in Seq(Nat) /\ 0 \in Int  OBVIOUS
    <2>2. talk.phase \in {"finished", "failed", "over"}  BY <1>1 DEF TalkTyped, Phases
    <2>3. CASE target = "claude" /\ e = Event("message_stop", 0, <<>>, "none")
      BY <1>1, <2>1, <2>3 DEF Event, Carries, After
    <2>4. CASE target = "commandcode" /\ e \in Ending("finish")
      BY <1>1, <2>1, <2>4, EndingTyped DEF IsEvent, Carries, After, Ended1
    <2>5. CASE talk.phase = "finished"
      <3>1. target = "claude" /\ e = Event("message_stop", 0, <<>>, "none")
        BY <2>5 DEF Offers
      <3> QED BY <2>3, <3>1
    <2>6. CASE talk.phase = "failed"
      <3>1. target = "commandcode" /\ e \in Ending("finish")
        BY <2>6 DEF Offers
      <3> QED BY <2>4, <3>1
    <2>7. talk.phase # "over"  BY DEF Offers
    <2> QED BY <2>2, <2>5, <2>6, <2>7
  <1>2. CASE talk.phase = "answering"
    <2>1. CASE target = "openai"
      <3>1. e \in OpenAiEvents  BY <1>2, <2>1 DEF Offers, Answering
      <3> QED BY <1>2, <2>1, <3>1, OpenAiShaped DEF Shaped, Binary
    <2>2. CASE target = "claude"
      <3>1. e \in ClaudeEvents  BY <1>2, <2>2 DEF Offers, Answering
      <3> QED BY <1>2, <2>2, <3>1, ClaudeShaped DEF Shaped, Binary
    <2>3. CASE target = "gemini"
      <3>1. e \in GeminiEvents  BY <1>2, <2>3 DEF Offers, Answering
      <3> QED BY <1>2, <2>3, <3>1, GeminiShaped DEF Shaped, Binary
    <2>4. CASE target = "ollama"
      <3>1. e \in OllamaEvents  BY <1>2, <2>4 DEF Offers, Answering
      <3> QED BY <1>2, <2>4, <3>1, OllamaShaped DEF Shaped, Binary
    <2>5. CASE target = "commandcode"
      <3>1. e \in CommandCodeEvents  BY <1>2, <2>5 DEF Offers, Answering
      <3> QED BY <1>2, <2>5, <3>1, CommandCodeShaped DEF Shaped, Binary
    <2>6. CASE target = "grok"
      <3>1. e \in GrokEvents  BY <1>2, <2>6 DEF Offers, Answering
      <3> QED BY <1>2, <2>6, <3>1, GrokShaped DEF Shaped, Binary
    <2>7. CASE target = "perplexity"
      <3>1. e \in PerplexityEvents  BY <1>2, <2>7 DEF Offers, Answering
      <3> QED BY <1>2, <2>7, <3>1, PerplexityShaped DEF Shaped, Binary
    <2>8. CASE target = "kiro"
      <3>1. e \in KiroEvents  BY <1>2, <2>8 DEF Offers, Answering
      <3> QED BY <1>2, <2>8, <3>1, KiroShaped DEF Shaped
    <2>9. CASE target = "cursor"
      <3>1. e \in CursorEvents  BY <1>2, <2>9 DEF Offers, Answering
      <3> QED BY <1>2, <2>9, <3>1, CursorShaped DEF Shaped
    <2> QED BY <2>1, <2>2, <2>3, <2>4, <2>5, <2>6, <2>7, <2>8, <2>9 DEF TalkTyped
  <1> QED BY <1>1, <1>2

UpStates == [started : BOOLEAN, calls : Seq(Int), finish : Finishes, sent : BOOLEAN, think : Int,
             server : Int, emitted : Nat, seen : SUBSET Seq(Nat), answered : BOOLEAN,
             embedded : Seq(Int), thinking : BOOLEAN]

\* Where an event leaves the conversation.
LEMMA SayKeeps ==
    ASSUME TalkTyped, NEW e \in Offers, Say(e), target' = target
    PROVE  /\ TalkTyped' /\ talk.phase' = PhaseAfter(e)
           /\ talk.phase # "answering" => talk.phase' # "answering" /\ talk.calls' = talk.calls
           /\ talk.calls' = talk.calls \/ e.k \in {"open", "call", "block_start"}
           /\ talk.calls' # talk.calls => talk.calls < MaxCalls
           /\ talk.calls' >= talk.calls
  <1>1. /\ Carries(e) /\ (talk.phase # "answering" => After(e))
        /\ talk.phase = "answering" => Shaped(e)
    BY OffersAre
  <1>2. PICK c : c = IF \/ e.k \in {"open", "call"} /\ e.id > talk.calls
                        \/ e.k = "block_start" /\ e.tag = "call"
                     THEN talk.calls + 1 ELSE talk.calls
    OBVIOUS
  <1>3. /\ talk.calls' = c /\ talk.phase' = PhaseAfter(e)
        /\ talk.block' = CASE e.k = "block_start" -> e.id
                           [] e.k = "block_stop" -> Unset
                           [] OTHER -> talk.block
        /\ talk.kind' = IF e.k = "block_start" \/ target = "ollama" THEN e.tag ELSE talk.kind
        /\ talk.blocks' = talk.blocks + (IF e.k = "block_start" THEN 1 ELSE 0)
    BY <1>2 DEF Say
  <1>4. talk.calls \in Nat /\ MaxCalls \in Nat /\ talk.calls <= MaxCalls
    BY StreamAssumption DEF TalkTyped
  <1>5. c \in 0..MaxCalls /\ c >= talk.calls /\ (c # talk.calls => talk.calls < MaxCalls)
    BY <1>1, <1>2, <1>4 DEF Carries
  <1>6. talk.block' \in Int /\ talk.blocks' \in Int
    <2>1. talk.block \in Int /\ talk.blocks \in Int /\ e.id \in Int /\ Unset \in Int
      BY <1>1 DEF TalkTyped, Carries, Unset
    <2> QED BY <1>3, <2>1
  <1>7. talk.kind' = "call" => c > 0
    <2>1. CASE e.k = "block_start" /\ e.tag = "call"
      BY <1>2, <1>4, <2>1
    <2>2. CASE target = "ollama"
      <3>1. e.tag # "call"  BY <1>1, <2>2 DEF Shaped, After, Plain, Places
      <3>2. talk.kind' = e.tag  BY <1>3, <2>2
      <3> QED BY <3>1, <3>2
    <2>3. CASE target # "ollama" /\ ~(e.k = "block_start" /\ e.tag = "call")
      <3>1. talk.kind' = "call" => talk.kind = "call"  BY <1>3, <2>3
      <3> QED BY <1>4, <1>5, <3>1 DEF TalkTyped
    <2> QED BY <2>1, <2>2, <2>3
  <1>8. talk.phase' \in Phases  BY <1>3 DEF PhaseAfter, Phases
  <1>9. said' \in [text : Nat, thought : Nat, args : [CallIds -> Nat]]
    <2>1. PICK topic, id, n : topic = TopicOf(e) /\ n = Last(e.ps)
                 /\ id = IF e.k = "block_delta" THEN talk.calls ELSE e.id
      OBVIOUS
    <2>2. said' = IF e.ps = <<>> THEN said
                  ELSE CASE topic = "text" -> [said EXCEPT !.text = n]
                         [] topic = "thought" -> [said EXCEPT !.thought = n]
                         [] topic = "call" -> [said EXCEPT !.args[id] = n]
                         [] OTHER -> said
      BY <2>1 DEF Say
    <2>3. e.ps # <<>> => n \in Nat  BY <1>1, <2>1, LastOfNats DEF Carries
    <2> QED BY <2>2, <2>3 DEF TalkTyped
  <1>10. talk.phase # "answering" => talk.phase' # "answering" /\ c = talk.calls
    <2> SUFFICES ASSUME talk.phase # "answering"
                 PROVE  talk.phase' # "answering" /\ c = talk.calls
      OBVIOUS
    <2>1. e.k \in {"message_stop", "finish"}  BY <1>1 DEF After, Ended1
    <2> QED BY <1>2, <1>3, <2>1 DEF PhaseAfter
  <1>11. c = talk.calls \/ e.k \in {"open", "call", "block_start"}  BY <1>2
  <1>12. TalkTyped'
    BY <1>3, <1>5, <1>6, <1>7, <1>8, <1>9 DEF TalkTyped, CallIds
  <1> QED BY <1>3, <1>5, <1>10, <1>11, <1>12

\* What is known of an event that is read.
Happens(e) ==
    /\ Carries(e)
    /\ talk.phase = "answering" => Shaped(e)
    /\ talk.phase # "answering" => After(e)
    /\ TalkTyped' /\ talk.phase' = PhaseAfter(e)
    /\ talk.phase # "answering" => talk.phase' # "answering" /\ talk.calls' = talk.calls
    /\ talk.calls' = talk.calls \/ e.k \in {"open", "call", "block_start"}
    /\ talk.calls' >= talk.calls

\* A torn event is about the same, and carries pieces too.
LEMMA ReadHappens ==
    ASSUME TalkTyped, NEW e \in Offers, Say(e), target' = target, NEW f \in AsRead(e)
    PROVE  Happens(f)
  <1>1. /\ Carries(e) /\ (talk.phase # "answering" => After(e))
        /\ talk.phase = "answering" => Shaped(e)
    BY OffersAre
  <1>2. f.k = e.k /\ f.id = e.id /\ f.tag = e.tag /\ f.ps \in Seq(Nat)
    <2>1. CASE f = e  BY <1>1, <2>1 DEF Carries
    <2>2. CASE f = Event(e.k, e.id, Front(e.ps) \o <<Garbled, Garbled>>, e.tag) /\ e.ps # <<>>
      <3>1. Front(e.ps) \in Seq(Nat)
        <4>1. e.ps \in Seq(Nat) /\ Len(e.ps) \in Nat  BY <1>1 DEF Carries
        <4> QED BY <4>1 DEF Front
      <3>2. <<Garbled, Garbled>> \in Seq(Nat)  BY DEF Garbled
      <3>3. Front(e.ps) \o <<Garbled, Garbled>> \in Seq(Nat)  BY <3>1, <3>2
      <3> QED BY <2>2, <3>3 DEF Event
    <2> QED BY <2>1, <2>2 DEF AsRead
  <1>3. /\ TalkTyped' /\ talk.phase' = PhaseAfter(e)
        /\ talk.phase # "answering" => talk.phase' # "answering" /\ talk.calls' = talk.calls
        /\ talk.calls' = talk.calls \/ e.k \in {"open", "call", "block_start"}
        /\ talk.calls' >= talk.calls
    BY SayKeeps
  <1>4. Carries(f)  BY <1>1, <1>2 DEF Carries
  <1>5. talk.phase = "answering" => Shaped(f)
    BY <1>1, <1>2 DEF Shaped, Plain, Ended1
  <1>6. talk.phase # "answering" => After(f)  BY <1>1, <1>2 DEF After, Ended1
  <1>7. PhaseAfter(f) = PhaseAfter(e)  BY <1>2 DEF PhaseAfter
  <1> QED BY <1>2, <1>3, <1>4, <1>5, <1>6, <1>7 DEF Happens

\* What a step tells: a finish if f, a call if m, and nothing at all if q.
Tells(cs, R, f, m, q) ==
    /\ Told(cs, R)
    /\ f => FinishIn(cs)
    /\ m => CallIn(cs)
    /\ q => Silent(cs)

\* No chunk tells nothing.
LEMMA TellsNothing == ASSUME NEW R PROVE Tells(<<>>, R, FALSE, FALSE, TRUE)
  BY DEF Tells, Told, Silent

\* What one chunk tells.
LEMMA TellsOne ==
    ASSUME NEW R, NEW c \in Chunks, c.finish = "none" \/ c.finish \in R
    PROVE  Tells(<<c>>, R, c.finish # "none", c.calls # <<>>, Contentless(c))
  <1>1. PICK s : s = <<c>>  OBVIOUS
  <1>2. s \in Seq(Chunks) /\ DOMAIN s = 1..1 /\ s[1] = c  BY <1>1
  <1>3. \A i \in DOMAIN s : i = 1  BY <1>2
  <1>4. 1 \in DOMAIN s  BY <1>2
  <1> QED BY <1>1, <1>2, <1>3, <1>4 DEF Tells, Told, Silent, FinishIn, CallIn

\* What two chunks tell, the first without a finish.
LEMMA TellsTwo ==
    ASSUME NEW R, NEW c \in Chunks, c.finish = "none", NEW d \in Chunks,
           d.finish = "none" \/ d.finish \in R
    PROVE  Tells(<<c, d>>, R, d.finish # "none", c.calls # <<>> \/ d.calls # <<>>,
                 Contentless(c) /\ Contentless(d))
  <1>1. PICK s : s = <<c, d>>  OBVIOUS
  <1>2. s \in Seq(Chunks) /\ DOMAIN s = 1..2 /\ s[1] = c /\ s[2] = d  BY <1>1
  <1>3. \A i \in DOMAIN s : i = 1 \/ i = 2  BY <1>2
  <1>4. 1 \in DOMAIN s /\ 2 \in DOMAIN s  BY <1>2
  <1>5. \A i, j \in DOMAIN s : i < j => i = 1  BY <1>3
  <1> QED BY <1>1, <1>2, <1>3, <1>4, <1>5 DEF Tells, Told, Silent, FinishIn, CallIn

\* What chunks tell, one after the other.
LEMMA TellsJoined ==
    ASSUME NEW R, NEW x, NEW f, NEW m, NEW q, Tells(x, R, f, m, q), \A i \in DOMAIN x : x[i].finish = "none",
           NEW y, NEW g, NEW n, NEW p, Tells(y, R, g, n, p)
    PROVE  Tells(x \o y, R, g, m \/ n, q /\ p)
  <1>1. x \in Seq(Chunks) /\ y \in Seq(Chunks)  BY DEF Tells, Told
  <1>2. PICK k \in Nat, l \in Nat : k = Len(x) /\ l = Len(y)  BY <1>1, AppendKeeps
  <1>3. PICK z : z = x \o y  OBVIOUS
  <1>4. /\ z \in Seq(Chunks) /\ DOMAIN z = 1..(k + l) /\ DOMAIN x = 1..k /\ DOMAIN y = 1..l
        /\ \A i \in 1..k : z[i] = x[i]
        /\ \A i \in 1..l : z[i + k] = y[i]
    BY <1>1, <1>2, <1>3, ConcatProperties
  <1>5. ASSUME NEW i \in DOMAIN z PROVE (i \in DOMAIN x /\ z[i] = x[i])
                                       \/ \E j \in DOMAIN y : i = j + k /\ z[i] = y[j]
    <2>1. CASE i <= k  BY <1>4, <1>5, <2>1
    <2>2. CASE ~(i <= k)
      <3>1. PICK j : j = i - k  OBVIOUS
      <3>2. j \in 1..l /\ i = j + k  BY <1>4, <1>5, <2>2, <3>1
      <3> QED BY <1>4, <3>2
    <2> QED BY <2>1, <2>2
  <1>6. \A i \in DOMAIN x : i \in DOMAIN z /\ z[i] = x[i]  BY <1>4
  <1>7. \A j \in DOMAIN y : j + k \in DOMAIN z /\ z[j + k] = y[j]  BY <1>4
  <1>8. Told(z, R)
    <2>1. \A i \in DOMAIN z : z[i].finish = "none" \/ z[i].finish \in R
      BY <1>5 DEF Tells, Told
    <2>2. ASSUME NEW i \in DOMAIN z, NEW j \in DOMAIN z, i < j, z[i].finish # "none"
          PROVE  Contentless(z[j])
      <3>1. PICK a \in DOMAIN y : i = a + k /\ z[i] = y[a]  BY <1>5, <2>2
      <3>2. PICK b \in DOMAIN y : j = b + k /\ z[j] = y[b]
        <4>1. ~(j \in DOMAIN x)  BY <1>4, <2>2, <3>1
        <4> QED BY <1>5, <4>1
      <3>3. a < b  BY <1>4, <2>2, <3>1, <3>2
      <3> QED BY <2>2, <3>1, <3>2, <3>3 DEF Tells, Told
    <2> QED BY <1>4, <2>1, <2>2 DEF Told
  <1>9. g => FinishIn(z)  BY <1>7 DEF Tells, FinishIn
  <1>10. m \/ n => CallIn(z)  BY <1>6, <1>7 DEF Tells, CallIn
  <1>11. q /\ p => Silent(z)  BY <1>5 DEF Tells, Silent
  <1> QED BY <1>3, <1>8, <1>9, <1>10, <1>11 DEF Tells

\* Numbers are integers.
LEMMA NatsAreInts == ASSUME NEW ps \in Seq(Nat) PROVE ps \in Seq(Int)
  OBVIOUS

\* The chunks that the translations are built from.
LEMMA ChunksAre ==
    ASSUME NEW ps \in Seq(Int), NEW index \in Int, NEW opens \in BOOLEAN, NEW r \in Finishes
    PROVE  /\ Text(ps) \in Chunks /\ Text(ps).finish = "none" /\ Text(ps).calls = <<>>
           /\ Thought(ps) \in Chunks /\ Thought(ps).finish = "none" /\ Thought(ps).calls = <<>>
           /\ Call(index, opens, ps) \in Chunks /\ Call(index, opens, ps).finish = "none"
           /\ Call(index, opens, ps).calls # <<>>
           /\ Finish(r) \in Chunks /\ Finish(r).finish = r /\ Contentless(Finish(r))
           /\ Role \in Chunks /\ Role.finish = "none" /\ Contentless(Role)
  <1>1. PICK c : c = [index |-> index, opens |-> opens, ps |-> ps]  OBVIOUS
  <1>2. c \in CallParts  BY <1>1 DEF CallParts
  <1>3. PICK s : s = <<c>>  OBVIOUS
  <1>4. s \in Seq(CallParts) /\ s # <<>>  BY <1>2, <1>3
  <1>5. Call(index, opens, ps) = Chunk(<<>>, <<>>, s, "none")  BY <1>1, <1>3 DEF Call
  <1>6. <<>> \in Seq(Int) /\ <<>> \in Seq(CallParts) /\ "none" \in Finishes  BY DEF Finishes
  <1> QED BY <1>4, <1>5, <1>6 DEF Chunk, Chunks, Text, Thought, Finish, Role, Contentless

RNow == IF talk.phase = "answering" THEN {} ELSE Allowed

UpInv ==
    /\ up \in UpStates
    /\ target = "claude" /\ talk.phase = "answering" => up.sent = FALSE
    /\ target \in Announcing /\ talk.calls > 0 => up.calls # <<>>

\* What the step s that an event takes has to be, for the client to make sense of it.
Delivers(s) ==
    /\ s.u \in UpStates
    /\ Told(s.out, RNow')
    /\ talk.phase # "answering" => Silent(s.out)
    /\ target \notin Binary \cup Unfinishing /\ talk.phase = "answering"
          /\ talk.phase' # "answering" => FinishIn(s.out)
    /\ target = "kiro" /\ s.u.sent = TRUE => up.sent = TRUE \/ FinishIn(s.out)
    /\ target \in Announcing /\ talk.calls' > talk.calls => CallIn(s.out)
    /\ target = "claude" /\ talk.phase' = "answering" => s.u.sent = FALSE
    /\ target \in Announcing /\ talk.calls' > 0 => s.u.calls # <<>>

\* Which formats are binary, which lack a finish, which announce calls.
LEMMA Formats ==
    /\ "openai" \notin Binary \cup Unfinishing \cup Announcing
    /\ "claude" \notin Binary \cup Unfinishing \cup Announcing
    /\ "commandcode" \notin Binary \cup Unfinishing \cup Announcing
    /\ "grok" \in Unfinishing /\ "grok" \notin Binary \cup Announcing
    /\ "perplexity" \in Unfinishing /\ "perplexity" \notin Binary \cup Announcing
    /\ "gemini" \in Announcing /\ "gemini" \notin Binary \cup Unfinishing
    /\ "ollama" \in Announcing /\ "ollama" \notin Binary \cup Unfinishing
    /\ "kiro" \in Announcing /\ "kiro" \in Binary /\ "kiro" \notin Unfinishing
    /\ "cursor" \in Announcing /\ "cursor" \in Binary /\ "cursor" \notin Unfinishing
  BY DEF Binary, Unfinishing, Announcing

\* The reasons a provider that announces nothing may give.
LEMMA FreeReasons ==
    ASSUME target' = target, target \notin Announcing, talk.phase' # "answering"
    PROVE  RNow' = Reasons
  BY DEF RNow, Allowed, Announcing, Binary, Reasons

\* An event of an OpenAI provider is passed on as it is.
LEMMA OpenAiDelivers ==
    ASSUME TalkTyped, UpInv, target = "openai", target' = target, NEW e, Happens(e),
           NEW s, s = FromProvider(e, up)
    PROVE  Delivers(s)
  <1>1. /\ TalkTyped' /\ talk.phase' = PhaseAfter(e)
        /\ talk.phase # "answering" => talk.phase' # "answering" /\ talk.calls' = talk.calls
    BY DEF Happens
  <1>2. Carries(e) /\ (talk.phase = "answering" => Shaped(e)) /\ (talk.phase # "answering" => After(e))
    BY DEF Happens
  <1>3. talk.phase = "answering"  BY <1>2 DEF After
  <1>4. Plain(e, {"text", "thought", "open", "args"}) \/ Ended1(e, {"finish"})
    BY <1>2, <1>3 DEF Shaped
  <1>5. PICK text : text = IF e.k = "text" THEN e.ps ELSE <<>>  OBVIOUS
  <1>6. PICK thought : thought = IF e.k = "thought" THEN e.ps ELSE <<>>  OBVIOUS
  <1>7. PICK calls : calls = IF e.k \in {"open", "args"}
                             THEN <<[index |-> e.id - 1, opens |-> e.k = "open", ps |-> e.ps]>>
                             ELSE <<>>
    OBVIOUS
  <1>8. PICK c : c = Chunk(text, thought, calls, e.tag)  OBVIOUS
  <1>9. s.u = up /\ s.out = <<c>>
    BY <1>5, <1>6, <1>7, <1>8 DEF FromProvider, Step
  <1>10. c \in Chunks /\ c.finish = e.tag
    <2>1. e.ps \in Seq(Int) /\ e.id \in Int  BY <1>2, NatsAreInts DEF Carries
    <2>2. PICK r : r = [index |-> e.id - 1, opens |-> e.k = "open", ps |-> e.ps]  OBVIOUS
    <2>3. r \in CallParts  BY <2>1, <2>2 DEF CallParts
    <2>4. <<r>> \in Seq(CallParts) /\ <<>> \in Seq(CallParts) /\ <<>> \in Seq(Int)  BY <2>3
    <2>5. calls \in Seq(CallParts)  BY <1>7, <2>2, <2>4
    <2>6. e.tag \in Finishes  BY <1>4 DEF Plain, Ended1, Reasons, Finishes
    <2>7. text \in Seq(Int) /\ thought \in Seq(Int)  BY <1>5, <1>6, <2>1, <2>4
    <2> QED BY <1>8, <2>5, <2>6, <2>7 DEF Chunk, Chunks
  <1>11. PICK R : R = RNow'  OBVIOUS
  <1>12. /\ c.finish = "none" \/ c.finish \in R
         /\ talk.phase' # "answering" => c.finish # "none"
    <2>1. CASE Ended1(e, {"finish"})
      <3>1. talk.phase' # "answering"  BY <1>1, <2>1 DEF PhaseAfter, Ended1
      <3>2. R = Reasons  BY <1>11, <3>1, FreeReasons, Formats
      <3> QED BY <1>10, <2>1, <3>2 DEF Ended1, Reasons
    <2>2. CASE Plain(e, {"text", "thought", "open", "args"})
      <3>1. talk.phase' = "answering"  BY <1>1, <1>3, <2>2 DEF PhaseAfter, Plain
      <3> QED BY <1>10, <2>2, <3>1 DEF Plain
    <2> QED BY <1>4, <2>1, <2>2
  <1>13. Tells(s.out, R, c.finish # "none", c.calls # <<>>, Contentless(c))
    BY <1>9, <1>10, <1>12, TellsOne
  <1>14. s.u \in UpStates  BY <1>9 DEF UpInv
  <1> QED BY <1>3, <1>11, <1>12, <1>13, <1>14, Formats DEF Delivers, Tells

\* At most one chunk, which is not a finish.
Quietly(cs) == cs = <<>> \/ \E c \in Chunks : c.finish = "none" /\ cs = <<c>>

\* Chunks without a finish.
LEMMA QuietlyTells ==
    ASSUME NEW cs, Quietly(cs), NEW R
    PROVE  Told(cs, R) /\ cs \in Seq(Chunks) /\ \A i \in DOMAIN cs : cs[i].finish = "none"
  <1>1. CASE cs = <<>>
    <2>1. Told(<<>>, R)  BY TellsNothing DEF Tells
    <2> QED BY <1>1, <2>1 DEF Told
  <1>2. ASSUME NEW c \in Chunks, c.finish = "none", cs = <<c>>
        PROVE  Told(cs, R) /\ cs \in Seq(Chunks) /\ \A i \in DOMAIN cs : cs[i].finish = "none"
    <2>1. Told(cs, R)  BY <1>2, TellsOne DEF Tells
    <2>2. DOMAIN cs = 1..1 /\ cs[1] = c  BY <1>2
    <2>3. \A i \in DOMAIN cs : i = 1  BY <2>2
    <2> QED BY <1>2, <2>1, <2>2, <2>3 DEF Told
  <1> QED BY <1>1, <1>2 DEF Quietly

\* A chunk that is only a finish.
LEMMA FinishTells ==
    ASSUME NEW R, NEW r \in Reasons, r \in R
    PROVE  Told(<<Finish(r)>>, R) /\ FinishIn(<<Finish(r)>>) /\ Silent(<<Finish(r)>>)
  <1>1. r \in Finishes /\ r # "none"  BY DEF Reasons, Finishes
  <1>2. PICK c : c = Finish(r)  OBVIOUS
  <1>3. <<>> \in Seq(Int) /\ 0 \in Int /\ TRUE \in BOOLEAN  OBVIOUS
  <1>4. c \in Chunks /\ c.finish = r /\ Contentless(c)  BY <1>1, <1>2, <1>3, ChunksAre
  <1>5. Tells(<<c>>, R, c.finish # "none", c.calls # <<>>, Contentless(c))
    BY <1>4, TellsOne
  <1> QED BY <1>1, <1>2, <1>4, <1>5 DEF Tells

\* The index of an identifier that was seen.
LEMMA IndexIs ==
    ASSUME NEW calls \in Seq(Int), NEW id \in ToSet(calls)
    PROVE  IndexOf(calls, id) \in Int
  <1>1. \E i \in DOMAIN calls : calls[i] = id  BY DEF ToSet
  <1>2. (CHOOSE i \in DOMAIN calls : calls[i] = id) \in DOMAIN calls  BY <1>1
  <1>3. DOMAIN calls \subseteq Int  OBVIOUS
  <1> QED BY <1>2, <1>3 DEF IndexOf

\* The parts of an answer as chunks.
LEMMA PartsAreQuiet ==
    ASSUME NEW ps \in Seq(Int), NEW index \in Int, NEW opens \in BOOLEAN
    PROVE  /\ Quietly(<<Text(ps)>>) /\ Quietly(<<Thought(ps)>>) /\ Quietly(<<Role>>)
           /\ Quietly(<<Call(index, opens, ps)>>) /\ CallIn(<<Call(index, opens, ps)>>)
           /\ Quietly(<<>>)
  <1>1. "none" \in Finishes  BY DEF Finishes
  <1>2. PICK r : r = "none"  OBVIOUS
  <1>3. PICK c : c = Call(index, opens, ps)  OBVIOUS
  <1>4. /\ Text(ps) \in Chunks /\ Text(ps).finish = "none"
        /\ Thought(ps) \in Chunks /\ Thought(ps).finish = "none"
        /\ c \in Chunks /\ c.finish = "none" /\ c.calls # <<>>
        /\ Role \in Chunks /\ Role.finish = "none"
    BY <1>1, <1>2, <1>3, ChunksAre
  <1>5. CallIn(<<c>>)
    <2>1. 1 \in DOMAIN <<c>> /\ <<c>>[1] = c  OBVIOUS
    <2> QED BY <1>4, <2>1 DEF CallIn
  <1> QED BY <1>3, <1>4, <1>5 DEF Quietly

\* The two parts of a step.
LEMMA StepIs ==
    ASSUME NEW v, NEW cs, NEW s, s = Step(v, cs)
    PROVE  s.u = v /\ s.out = cs
  BY DEF Step

\* An event of a Claude provider that ends nothing.
LEMMA ClaudeTranslates ==
    ASSUME up \in UpStates, NEW e, e.id \in Int, e.ps \in Seq(Nat),
           e.k \in {"message_start", "block_start", "block_delta", "block_stop"},
           NEW s, s = FromClaude(e, up)
    PROVE  s.u \in UpStates /\ s.u.sent = up.sent /\ Quietly(s.out)
  <1>0. /\ e.ps \in Seq(Int) /\ <<OpenTag>> \in Seq(Int) /\ <<CloseTag>> \in Seq(Int)
        /\ <<>> \in Seq(Int) /\ Unset \in Int /\ TRUE \in BOOLEAN /\ FALSE \in BOOLEAN
    BY NatsAreInts DEF OpenTag, CloseTag, Unset
  <1>1. /\ \A ps \in Seq(Int) : Quietly(<<Text(ps)>>) /\ Quietly(<<Thought(ps)>>)
        /\ Quietly(<<Role>>) /\ Quietly(<<>>)
        /\ \A i \in Int, b \in BOOLEAN, ps \in Seq(Int) : Quietly(<<Call(i, b, ps)>>)
    <2>1. PICK z : z = 0  OBVIOUS
    <2>2. z \in Int  BY <2>1
    <2> QED BY <1>0, <2>2, PartsAreQuiet
  <1>q. Quietly(<<Text(<<OpenTag>>)>>) /\ Quietly(<<Text(<<CloseTag>>)>>)
    <2>1. PICK a \in Seq(Int), b \in Seq(Int) : a = <<OpenTag>> /\ b = <<CloseTag>>  BY <1>0
    <2>2. Quietly(<<Text(a)>>) /\ Quietly(<<Text(b)>>)  BY <1>1
    <2> QED BY <2>1, <2>2
  <1>p. Quietly(<<Text(e.ps)>>) /\ Quietly(<<Thought(e.ps)>>)
    <2>1. PICK a \in Seq(Int) : a = e.ps  BY <1>0
    <2>2. Quietly(<<Text(a)>>) /\ Quietly(<<Thought(a)>>)  BY <1>1
    <2> QED BY <2>1, <2>2
  <1>u. /\ up.calls \in Seq(Int) /\ <<>> \in Seq(Int) /\ Append(up.calls, e.id) \in Seq(Int)
        /\ Len(up.calls) \in Int
    BY <1>0 DEF UpStates
  <1>2. CASE e.k = "message_start"
    <2>1. s = Step([up EXCEPT !.calls = <<>>], <<Role>>)  BY <1>2 DEF FromClaude
    <2>2. s.u = [up EXCEPT !.calls = <<>>] /\ s.out = <<Role>>  BY <2>1, StepIs
    <2>3. PICK none \in Seq(Int) : none = <<>>  BY <1>0
    <2>4. s.u = [up EXCEPT !.calls = none]  BY <2>2, <2>3
    <2>5. s.u \in UpStates /\ s.u.sent = up.sent  BY <2>3, <2>4 DEF UpStates
    <2> QED BY <1>1, <2>2, <2>5
  <1>3. CASE e.k = "block_start"
    <2>1. s = ClaudeBlockStart(e, up)  BY <1>3 DEF FromClaude
    <2>2. CASE e.tag = "server"
      <3>1. s = Step([up EXCEPT !.server = e.id], <<>>)  BY <2>1, <2>2 DEF ClaudeBlockStart, Nothing
      <3>2. s.u = [up EXCEPT !.server = e.id] /\ s.out = <<>>  BY <3>1, StepIs
      <3>3. PICK i \in Int : i = e.id  BY <1>0
      <3>4. s.u = [up EXCEPT !.server = i]  BY <3>2, <3>3
      <3>5. s.u \in UpStates /\ s.u.sent = up.sent  BY <3>3, <3>4 DEF UpStates
      <3> QED BY <1>1, <3>2, <3>5
    <2>3. CASE e.tag = "thought"
      <3>1. s = Step([up EXCEPT !.think = e.id], <<Text(<<OpenTag>>)>>)
        BY <2>1, <2>3 DEF ClaudeBlockStart
      <3>2. s.u = [up EXCEPT !.think = e.id] /\ s.out = <<Text(<<OpenTag>>)>>  BY <3>1, StepIs
      <3>3. PICK i \in Int : i = e.id  BY <1>0
      <3>4. s.u = [up EXCEPT !.think = i]  BY <3>2, <3>3
      <3>5. s.u \in UpStates /\ s.u.sent = up.sent  BY <3>3, <3>4 DEF UpStates
      <3>6. Quietly(<<Text(<<OpenTag>>)>>)  BY <1>q
      <3> QED BY <3>2, <3>5, <3>6
    <2>4. CASE e.tag = "call"
      <3>1. PICK calls \in Seq(Int) : calls = Append(up.calls, e.id)  BY <1>u
      <3>2. PICK n \in Int, b \in BOOLEAN, a \in Seq(Int) : n = Len(up.calls) /\ b = TRUE /\ a = <<>>
        BY <1>u
      <3>3. PICK c : c = Call(n, b, a)  OBVIOUS
      <3>4. PICK v : v = [up EXCEPT !.calls = calls]  OBVIOUS
      <3>5. s = Step(v, <<c>>)
        BY <2>1, <2>4, <3>1, <3>2, <3>3, <3>4 DEF ClaudeBlockStart
      <3>6. s.u = v /\ s.out = <<c>>  BY <3>5 DEF Step
      <3>7. Quietly(<<Call(n, b, a)>>)  BY <1>1
      <3>8. v \in UpStates /\ v.sent = up.sent  BY <3>4 DEF UpStates
      <3> QED BY <3>3, <3>6, <3>7, <3>8
    <2>5. CASE e.tag \notin {"server", "thought", "call"}
      <3>1. s = Step(up, <<>>)  BY <2>1, <2>5 DEF ClaudeBlockStart, Nothing
      <3> QED BY <1>1, <3>1, StepIs
    <2> QED BY <2>2, <2>3, <2>4, <2>5
  <1>4. CASE e.k = "block_delta"
    <2>1. s = ClaudeBlockDelta(e, up)  BY <1>4 DEF FromClaude
    <2>2. e.tag = "call" /\ Knows(up, e.id) => IndexOf(up.calls, e.id) \in Int
      BY <1>u, IndexIs DEF Knows
    <2>3. s.u = up /\ Quietly(s.out)
      <3>1. CASE e.id = up.server
        <4>1. s = Step(up, <<>>)  BY <2>1, <3>1 DEF ClaudeBlockDelta, Nothing
        <4> QED BY <1>1, <4>1, StepIs
      <3>2. CASE e.id # up.server /\ e.tag = "text"
        <4>1. s = Step(up, <<Text(e.ps)>>)  BY <2>1, <3>2 DEF ClaudeBlockDelta
        <4>2. s.u = up /\ s.out = <<Text(e.ps)>>  BY <4>1 DEF Step
        <4> QED BY <1>p, <4>2
      <3>3. CASE e.id # up.server /\ e.tag = "thought"
        <4>1. s = Step(up, <<Thought(e.ps)>>)  BY <2>1, <3>3 DEF ClaudeBlockDelta
        <4>2. s.u = up /\ s.out = <<Thought(e.ps)>>  BY <4>1 DEF Step
        <4> QED BY <1>p, <4>2
      <3>4. CASE e.id # up.server /\ e.tag = "call" /\ Knows(up, e.id)
        <4>1. PICK i \in Int, b \in BOOLEAN, a \in Seq(Int) :
                  i = IndexOf(up.calls, e.id) /\ b = FALSE /\ a = e.ps
          BY <1>0, <2>2, <3>4
        <4>2. PICK c : c = Call(i, b, a)  OBVIOUS
        <4>3. s = Step(up, <<c>>)
          BY <2>1, <3>4, <4>1, <4>2 DEF ClaudeBlockDelta
        <4>4. s.u = up /\ s.out = <<c>>  BY <4>3 DEF Step
        <4>5. Quietly(<<Call(i, b, a)>>)  BY <1>1
        <4> QED BY <4>2, <4>4, <4>5
      <3>5. CASE /\ e.id # up.server /\ e.tag \notin {"text", "thought"}
                 /\ ~(e.tag = "call" /\ Knows(up, e.id))
        <4>1. s = Step(up, <<>>)  BY <2>1, <3>5 DEF ClaudeBlockDelta, Nothing
        <4> QED BY <1>1, <4>1, StepIs
      <3> QED BY <3>1, <3>2, <3>3, <3>4, <3>5
    <2> QED BY <2>3
  <1>5. CASE e.k = "block_stop"
    <2>1. s = ClaudeBlockStop(e, up)  BY <1>5 DEF FromClaude
    <2>2. CASE e.id = up.server
      <3>1. s = Step([up EXCEPT !.server = Unset], <<>>)  BY <2>1, <2>2 DEF ClaudeBlockStop, Nothing
      <3>2. s.u = [up EXCEPT !.server = Unset] /\ s.out = <<>>  BY <3>1, StepIs
      <3>3. PICK i \in Int : i = Unset  BY <1>0
      <3>4. s.u = [up EXCEPT !.server = i]  BY <3>2, <3>3
      <3>5. s.u \in UpStates /\ s.u.sent = up.sent  BY <3>3, <3>4 DEF UpStates
      <3> QED BY <1>1, <3>2, <3>5
    <2>3. CASE e.id # up.server /\ e.id = up.think
      <3>1. s = Step([up EXCEPT !.think = Unset], <<Text(<<CloseTag>>)>>)
        BY <2>1, <2>3 DEF ClaudeBlockStop
      <3>2. s.u = [up EXCEPT !.think = Unset] /\ s.out = <<Text(<<CloseTag>>)>>  BY <3>1, StepIs
      <3>3. PICK i \in Int : i = Unset  BY <1>0
      <3>4. s.u = [up EXCEPT !.think = i]  BY <3>2, <3>3
      <3>5. s.u \in UpStates /\ s.u.sent = up.sent  BY <3>3, <3>4 DEF UpStates
      <3> QED BY <1>q, <3>2, <3>5
    <2>4. CASE e.id # up.server /\ e.id # up.think
      <3>1. s = Step(up, <<>>)  BY <2>1, <2>4 DEF ClaudeBlockStop, Nothing
      <3> QED BY <1>1, <3>1, StepIs
    <2> QED BY <2>2, <2>3, <2>4
  <1> QED BY <1>2, <1>3, <1>4, <1>5

\* An event of a Claude provider.
LEMMA ClaudeDelivers ==
    ASSUME TalkTyped, UpInv, target = "claude", target' = target, NEW e, Happens(e),
           NEW s, s = FromProvider(e, up)
    PROVE  Delivers(s)
  <1>1. /\ TalkTyped' /\ talk.phase' = PhaseAfter(e)
        /\ talk.phase # "answering" => talk.phase' # "answering" /\ talk.calls' = talk.calls
    BY DEF Happens
  <1>2. Carries(e) /\ (talk.phase = "answering" => Shaped(e)) /\ (talk.phase # "answering" => After(e))
    BY DEF Happens
  <1>3. s = FromClaude(e, up) /\ up \in UpStates  BY DEF FromProvider, UpInv
  <1>4. PICK R : R = RNow'  OBVIOUS
  <1>5. talk.phase' # "answering" => R = Reasons  BY <1>4, FreeReasons, Formats
  <1>6. CASE e.k \in {"message_start", "block_start", "block_delta", "block_stop"}
    <2>1. talk.phase = "answering"  BY <1>2, <1>6 DEF After
    <2>2. s.u \in UpStates /\ s.u.sent = up.sent /\ Quietly(s.out)
      BY <1>2, <1>3, <1>6, ClaudeTranslates DEF Carries
    <2>3. talk.phase' = "answering"  BY <1>1, <1>6, <2>1 DEF PhaseAfter
    <2>4. up.sent = FALSE  BY <2>1 DEF UpInv
    <2> QED BY <1>4, <2>1, <2>2, <2>3, <2>4, QuietlyTells, Formats DEF Delivers
  <1>7. CASE e.k = "message_stop"
    <2>1. talk.phase' # "answering"  BY <1>1, <1>7 DEF PhaseAfter
    <2>2. s = ClaudeMessageStop(up)  BY <1>3, <1>7 DEF FromClaude
    <2>3. CASE up.sent
      <3>1. s.u = up /\ s.out = <<>>  BY <2>2, <2>3 DEF ClaudeMessageStop, Nothing, Step
      <3>2. talk.phase # "answering"  BY <2>3 DEF UpInv
      <3>3. Told(<<>>, R) /\ Silent(<<>>)  BY TellsNothing DEF Tells
      <3> QED BY <1>3, <1>4, <2>1, <3>1, <3>2, <3>3, Formats DEF Delivers
    <2>4. CASE ~up.sent
      <3>1. PICK r : r = IF up.finish # "none" THEN up.finish
                         ELSE IF up.calls = <<>> THEN "stop" ELSE "tool_calls"
        OBVIOUS
      <3>2. r \in Reasons  BY <1>3, <3>1 DEF UpStates, Finishes, Reasons
      <3>3. s = Step([up EXCEPT !.sent = TRUE], <<Finish(r)>>)
        BY <2>2, <2>4, <3>1 DEF ClaudeMessageStop
      <3>4. s.u \in UpStates /\ s.out = <<Finish(r)>>
        <4>1. [up EXCEPT !.sent = TRUE] \in UpStates  BY <1>3 DEF UpStates
        <4> QED BY <3>3, <4>1, StepIs
      <3>5. Told(s.out, R) /\ FinishIn(s.out) /\ Silent(s.out)
        BY <1>5, <2>1, <3>2, <3>4, FinishTells
      <3> QED BY <1>4, <2>1, <3>4, <3>5, Formats DEF Delivers
    <2> QED BY <2>3, <2>4
  <1>8. CASE Ended1(e, {"message_delta"})
    <2>1. talk.phase = "answering" /\ e.k = "message_delta"  BY <1>2, <1>8 DEF After, Ended1
    <2>2. talk.phase' # "answering"  BY <1>1, <2>1 DEF PhaseAfter
    <2>3. PICK r \in Reasons : r = e.tag  BY <1>8 DEF Ended1
    <2>4. s = Step([up EXCEPT !.finish = r, !.sent = TRUE], <<Finish(r)>>)
      BY <1>3, <2>1, <2>3 DEF FromClaude, ClaudeMessageDelta, Reasons
    <2>5. s.u \in UpStates /\ s.out = <<Finish(r)>>
      <3>1. r \in Finishes  BY <2>3 DEF Reasons, Finishes
      <3>2. [up EXCEPT !.finish = r, !.sent = TRUE] \in UpStates  BY <1>3, <3>1 DEF UpStates
      <3> QED BY <2>4, <3>2, StepIs
    <2>6. Told(s.out, R) /\ FinishIn(s.out)
      BY <1>5, <2>2, <2>3, <2>5, FinishTells
    <2> QED BY <1>4, <2>1, <2>2, <2>5, <2>6, Formats DEF Delivers
  <1>9. \/ e.k \in {"message_start", "message_stop", "block_start", "block_delta", "block_stop"}
        \/ Ended1(e, {"message_delta"})
    BY <1>2 DEF Shaped, After
  <1> QED BY <1>6, <1>7, <1>8, <1>9

\* Chunks of content, of which none is a finish.
Hushed(cs) == cs \in Seq(Chunks) /\ \A i \in DOMAIN cs : cs[i].finish = "none"

\* What chunks without a finish tell.
LEMMA HushedTells ==
    ASSUME NEW cs, Hushed(cs), NEW R
    PROVE  Tells(cs, R, FALSE, CallIn(cs), FALSE)
  BY DEF Hushed, Tells, Told

\* Two runs of chunks without a finish.
LEMMA HushedJoin ==
    ASSUME NEW x, Hushed(x), NEW y, Hushed(y), NEW z, z = x \o y
    PROVE  Hushed(z) /\ (CallIn(y) => CallIn(z))
  <1>1. PICK k \in Nat, l \in Nat : k = Len(x) /\ l = Len(y)  BY AppendKeeps DEF Hushed
  <1>2. /\ z \in Seq(Chunks) /\ DOMAIN z = 1..(k + l) /\ DOMAIN x = 1..k /\ DOMAIN y = 1..l
        /\ \A i \in 1..k : z[i] = x[i]
        /\ \A i \in 1..l : z[i + k] = y[i]
    BY <1>1, ConcatProperties DEF Hushed
  <1>3. ASSUME NEW i \in DOMAIN z PROVE z[i].finish = "none"
    <2>1. CASE i <= k  BY <1>2, <1>3, <2>1 DEF Hushed
    <2>2. CASE ~(i <= k)
      <3>1. PICK j : j = i - k  OBVIOUS
      <3>2. j \in 1..l /\ i = j + k  BY <1>2, <1>3, <2>2, <3>1
      <3> QED BY <1>2, <3>2 DEF Hushed
    <2> QED BY <2>1, <2>2
  <1>4. \A j \in DOMAIN y : j + k \in DOMAIN z /\ z[j + k] = y[j]  BY <1>2
  <1> QED BY <1>2, <1>3, <1>4 DEF Hushed, CallIn

\* Chunks that say nothing of a finish have none.
LEMMA QuietIsHushed == ASSUME NEW cs, Quietly(cs) PROVE Hushed(cs)
  BY QuietlyTells DEF Hushed

\* The parts of an answer are content.
LEMMA Parts ==
    ASSUME NEW ps \in Seq(Nat), NEW index \in Int, NEW opens \in BOOLEAN
    PROVE  /\ Hushed(<<Text(ps)>>) /\ Hushed(<<Thought(ps)>>) /\ Hushed(<<Role>>) /\ Hushed(<<>>)
           /\ Hushed(<<Call(index, opens, ps)>>) /\ CallIn(<<Call(index, opens, ps)>>)
  <1>1. ps \in Seq(Int)  BY NatsAreInts
  <1>2. PICK a, b, c, d, f : a = <<Text(ps)>> /\ b = <<Thought(ps)>> /\ c = <<Role>> /\ d = <<>>
                             /\ f = <<Call(index, opens, ps)>>
    OBVIOUS
  <1>3. Quietly(a) /\ Quietly(b) /\ Quietly(c) /\ Quietly(d) /\ Quietly(f) /\ CallIn(f)
    BY <1>1, <1>2, PartsAreQuiet
  <1>4. Hushed(a) /\ Hushed(b) /\ Hushed(c) /\ Hushed(d) /\ Hushed(f)  BY <1>3, QuietIsHushed
  <1> QED BY <1>2, <1>3, <1>4

\* The reasons a provider that may not announce its calls may give.
LEMMA ReasonsLeft ==
    ASSUME target' = target, talk.phase' # "answering", NEW r \in Reasons,
           target \in Announcing /\ talk.calls' > 0 => r = "tool_calls"
    PROVE  r \in RNow'
  BY DEF RNow, Allowed, Announcing, Binary, Reasons

\* A step that sends content and no finish.
LEMMA ContentDelivers ==
    ASSUME target \in Binary \cup Unfinishing \/ talk.phase' = "answering",
           talk.phase = "answering", target # "claude",
           NEW s, s.u \in UpStates, Hushed(s.out),
           target = "kiro" /\ s.u.sent = TRUE => up.sent = TRUE,
           target \in Announcing =>
               /\ talk.calls' > talk.calls => CallIn(s.out)
               /\ talk.calls' > 0 => s.u.calls # <<>>
    PROVE  Delivers(s)
  <1>1. PICK R : R = RNow'  OBVIOUS
  <1>2. Told(s.out, R)  BY HushedTells DEF Tells
  <1> QED BY <1>1, <1>2 DEF Delivers

\* A step that sends content and then a finish.
LEMMA FinishDelivers ==
    ASSUME target' = target, talk.phase' # "answering", NEW r \in Reasons,
           target \in Announcing /\ talk.calls' > 0 => r = "tool_calls",
           NEW x, Hushed(x), talk.phase = "answering" \/ x = <<>>,
           NEW s, s.u \in UpStates, s.out = x \o <<Finish(r)>>,
           target \in Announcing =>
               /\ talk.calls' > talk.calls => CallIn(x)
               /\ talk.calls' > 0 => s.u.calls # <<>>
    PROVE  Delivers(s)
  <1>1. r \in RNow'  BY ReasonsLeft
  <1>2. PICK R : R = RNow'  OBVIOUS
  <1>3. PICK f : f = <<Finish(r)>>  OBVIOUS
  <1>4. Told(f, R) /\ FinishIn(f) /\ Silent(f)  BY <1>1, <1>2, <1>3, FinishTells
  <1>5. Tells(f, R, TRUE, FALSE, TRUE)  BY <1>4 DEF Tells
  <1>6. PICK m : m = CallIn(x)  OBVIOUS
  <1>7. Tells(x, R, FALSE, m, FALSE)  BY <1>6, HushedTells
  <1>8. PICK o : o = x \o f  OBVIOUS
  <1>9. Tells(x \o f, R, TRUE, m \/ FALSE, FALSE /\ TRUE)
    BY ONLY <1>5, <1>7, Hushed(x), TellsJoined DEF Hushed
  <1>10. Told(o, R) /\ FinishIn(o) /\ (CallIn(x) => CallIn(o))
    BY <1>6, <1>8, <1>9 DEF Tells
  <1>11. x = <<>> => Silent(o)
    <2>1. f \in Seq(Chunks)  BY <1>4 DEF Told
    <2>2. x = <<>> => o = f  BY <1>8, <2>1
    <2> QED BY <1>4, <2>2
  <1>12. s.out = o  BY <1>3, <1>8
  <1> QED BY <1>2, <1>10, <1>11, <1>12 DEF Delivers

\* An error inside a stream of lines is content and a finish in one chunk.
LEMMA FailureDelivers ==
    ASSUME up \in UpStates, target' = target, target \in Unfinishing, talk.phase = "answering",
           talk.phase' # "answering", NEW s, s = FailAndStop(up)
    PROVE  Delivers(s)
  <1>1. target \notin Announcing \cup Binary /\ target # "claude"
    BY DEF Unfinishing, Announcing, Binary
  <1>2. PICK c : c = Chunk(<<Failure>>, <<>>, <<>>, "stop")  OBVIOUS
  <1>3. PICK v : v = [up EXCEPT !.finish = "stop"]  OBVIOUS
  <1>4. s = Step(v, <<c>>)  BY <1>2, <1>3 DEF FailAndStop
  <1>5. s.u = v /\ s.out = <<c>>  BY <1>4 DEF Step
  <1>6. v \in UpStates  BY <1>3 DEF UpStates, Finishes
  <1>7. c \in Chunks /\ c.finish = "stop"
    <2>1. <<Failure>> \in Seq(Int) /\ <<>> \in Seq(Int) /\ <<>> \in Seq(CallParts)  BY DEF Failure
    <2> QED BY <1>2, <2>1 DEF Chunk, Chunks, Finishes
  <1>8. PICK R : R = RNow'  OBVIOUS
  <1>9. "stop" \in R  BY <1>1, <1>8, FreeReasons DEF Reasons
  <1>10. Tells(<<c>>, R, c.finish # "none", c.calls # <<>>, Contentless(c))
    BY <1>7, <1>9, TellsOne
  <1>11. Told(s.out, R)  BY <1>5, <1>10 DEF Tells
  <1>12. target # "kiro"  BY <1>1 DEF Binary
  <1> QED BY <1>1, <1>5, <1>6, <1>8, <1>11, <1>12 DEF Delivers

\* An event of an Ollama provider.
LEMMA OllamaDelivers ==
    ASSUME TalkTyped, UpInv, target = "ollama", target' = target, NEW e, Happens(e),
           NEW s, s = FromProvider(e, up)
    PROVE  Delivers(s)
  <1>1. /\ TalkTyped' /\ talk.phase' = PhaseAfter(e)
        /\ talk.calls' = talk.calls \/ e.k \in {"open", "call", "block_start"}
    BY DEF Happens
  <1>2. Carries(e) /\ (talk.phase = "answering" => Shaped(e)) /\ (talk.phase # "answering" => After(e))
    BY DEF Happens
  <1>3. talk.phase = "answering" /\ e.ps \in Seq(Nat) /\ e.id - 1 \in Int /\ up \in UpStates
    BY <1>2 DEF After, Carries, UpInv
  <1>4. \/ Plain(e, {"text", "thought"}) \/ (e.k = "done" /\ e.tag = "stop")
        \/ e.k = "call" /\ e.tag \in Places
    BY <1>2, <1>3 DEF Shaped
  <1>5. s = FromOllama(e, up)  BY DEF FromProvider
  <1>6. talk.calls > 0 => up.calls # <<>>  BY Formats DEF UpInv
  <1>7. CASE Plain(e, {"text", "thought"})
    <2>1. talk.phase' = "answering" /\ talk.calls' = talk.calls
      BY <1>1, <1>3, <1>7 DEF PhaseAfter, Plain
    <2>2. PICK cs : cs = IF e.k = "text" THEN <<Text(e.ps)>> ELSE <<Thought(e.ps)>>  OBVIOUS
    <2>3. s.u = up /\ s.out = cs  BY <1>5, <1>7, <2>2 DEF FromOllama, Plain, Step
    <2>4. PICK i \in Int, b \in BOOLEAN : i = e.id - 1 /\ b = TRUE  BY <1>3
    <2>5. Hushed(cs)  BY <1>3, <2>2, <2>4, Parts
    <2> QED BY <1>3, <1>6, <2>1, <2>3, <2>5, ContentDelivers, Formats DEF TalkTyped
  <1>8. CASE e.k = "call" /\ e.tag \in Places
    <2>1. talk.phase' = "answering"  BY <1>1, <1>3, <1>8 DEF PhaseAfter
    <2>2. PICK i \in Int, b \in BOOLEAN : i = OllamaIndex(e) /\ b = TRUE
      <3>1. OllamaIndex(e) \in Int  BY <1>3 DEF OllamaIndex
      <3> QED BY <3>1
    <2>3. PICK cs : cs = <<Call(i, b, e.ps)>>  OBVIOUS
    <2>4. PICK calls : calls = Append(up.calls, e.id)  OBVIOUS
    <2>5. PICK v : v = [up EXCEPT !.calls = calls]  OBVIOUS
    <2>6. s = Step(v, cs)  BY <1>5, <1>8, <2>2, <2>3, <2>4, <2>5 DEF FromOllama
    <2>7. s.u = v /\ s.out = cs  BY <2>6 DEF Step
    <2>8. calls \in Seq(Int) /\ calls # <<>>
      <3>1. up.calls \in Seq(Int) /\ e.id \in Int  BY <1>2, <1>3 DEF UpStates, Carries
      <3> QED BY <2>4, <3>1
    <2>9. v \in UpStates /\ v.calls # <<>>  BY <1>3, <2>5, <2>8 DEF UpStates
    <2>10. Hushed(cs) /\ CallIn(cs)  BY <1>3, <2>3, Parts
    <2> QED BY <1>3, <2>1, <2>7, <2>9, <2>10, ContentDelivers, Formats
  <1>9. CASE e.k = "done" /\ e.tag = "stop"
    <2>1. talk.phase' # "answering" /\ talk.calls' = talk.calls
      BY <1>1, <1>3, <1>9 DEF PhaseAfter
    <2>2. PICK r \in Reasons : r = OllamaFinish(e, up) /\ (talk.calls' > 0 => r = "tool_calls")
      BY <1>6, <1>9, <2>1 DEF OllamaFinish, Reasons
    <2>3. PICK v : v = [up EXCEPT !.finish = r]  OBVIOUS
    <2>4. s = Step(v, <<Finish(r)>>)  BY <1>5, <1>9, <2>2, <2>3 DEF FromOllama
    <2>5. s.u = v /\ s.out = <<Finish(r)>>  BY <2>4 DEF Step
    <2>6. v \in UpStates /\ v.calls = up.calls
      BY <1>3, <2>2, <2>3 DEF UpStates, Finishes, Reasons
    <2>7. PICK x : x = <<>>  OBVIOUS
    <2>8. Hushed(x)  BY <2>7 DEF Hushed
    <2>9. s.out = x \o <<Finish(r)>>
      <3>1. <<Finish(r)>> \in Seq({Finish(r)})  OBVIOUS
      <3>2. <<>> \o <<Finish(r)>> = <<Finish(r)>>  BY <3>1
      <3> QED BY <2>5, <2>7, <3>2
    <2>10. ~(talk.calls' > talk.calls)  BY <2>1 DEF TalkTyped
    <2>11. talk.calls' > 0 => s.u.calls # <<>>  BY <1>6, <2>1, <2>5, <2>6
    <2>12. s.u \in UpStates  BY <2>5, <2>6
    <2> QED BY ONLY <1>3, target' = target, <2>1, <2>2, <2>8, <2>9, <2>10, <2>11, <2>12, FinishDelivers
  <1> QED BY <1>4, <1>7, <1>8, <1>9 DEF Plain

\* An event of a Perplexity provider.
LEMMA PerplexityDelivers ==
    ASSUME TalkTyped, UpInv, target = "perplexity", target' = target, NEW e, Happens(e),
           NEW s, s = FromProvider(e, up)
    PROVE  Delivers(s)
  <1>1. /\ TalkTyped' /\ talk.phase' = PhaseAfter(e)
        /\ talk.calls' = talk.calls \/ e.k \in {"open", "call", "block_start"}
    BY DEF Happens
  <1>2. Carries(e) /\ (talk.phase = "answering" => Shaped(e)) /\ (talk.phase # "answering" => After(e))
    BY DEF Happens
  <1>3. talk.phase = "answering" /\ e.ps \in Seq(Nat) /\ up \in UpStates
    BY <1>2 DEF After, Carries, UpInv
  <1>4. Plain(e, {"text", "thought", "error"})  BY <1>2, <1>3 DEF Shaped
  <1>5. s = FromPerplexity(e, up)  BY DEF FromProvider
  <1>6. PICK i \in Int, b \in BOOLEAN : TRUE
    <2>1. 0 \in Int /\ TRUE \in BOOLEAN  OBVIOUS
    <2> QED BY <2>1
  <1>7. CASE e.k = "text"
    <2>1. s = PerplexityAdvance(e, up)  BY <1>5, <1>7 DEF FromPerplexity
    <2>2. PICK n \in Nat : n = Len(e.ps)  BY <1>3
    <2>3. PICK rest : rest = SubSeq(e.ps, up.emitted + 1, Len(e.ps))  OBVIOUS
    <2>4. rest \in Seq(Nat)
      <3>1. up.emitted + 1 \in Nat \ {0}  BY <1>3 DEF UpStates
      <3> QED BY <1>3, <2>2, <2>3, <3>1
    <2>5. CASE n <= up.emitted
      <3>1. s = Step(up, <<>>)  BY <2>1, <2>2, <2>5 DEF PerplexityAdvance, Nothing
      <3>2. s.u = up /\ s.out = <<>>  BY <3>1 DEF Step
      <3>3. Hushed(s.out)  BY <3>2 DEF Hushed
      <3> QED BY <1>3, <3>2, <3>3, ContentDelivers, Formats
    <2>6. CASE ~(n <= up.emitted)
      <3>1. PICK v : v = [up EXCEPT !.emitted = n]  OBVIOUS
      <3>2. PICK cs : cs = <<Text(rest)>>  OBVIOUS
      <3>3. s = Step(v, cs)  BY <2>1, <2>2, <2>3, <2>6, <3>1, <3>2 DEF PerplexityAdvance
      <3>4. s.u = v /\ s.out = cs  BY <3>3 DEF Step
      <3>5. v \in UpStates  BY <1>3, <3>1 DEF UpStates
      <3>6. Hushed(cs)  BY <1>6, <2>4, <3>2, Parts
      <3> QED BY <1>3, <3>4, <3>5, <3>6, ContentDelivers, Formats
    <2> QED BY <2>5, <2>6
  <1>8. CASE e.k = "thought"
    <2>1. s = PerplexityReasoning(e, up)  BY <1>5, <1>8 DEF FromPerplexity
    <2>2. CASE e.ps \in up.seen
      <3>1. s = Step(up, <<>>)  BY <2>1, <2>2 DEF PerplexityReasoning, Nothing
      <3>2. s.u = up /\ s.out = <<>>  BY <3>1 DEF Step
      <3>3. Hushed(s.out)  BY <3>2 DEF Hushed
      <3> QED BY <1>3, <3>2, <3>3, ContentDelivers, Formats
    <2>3. CASE e.ps \notin up.seen
      <3>1. PICK S : S = up.seen \cup {e.ps}  OBVIOUS
      <3>2. PICK v : v = [up EXCEPT !.seen = S]  OBVIOUS
      <3>3. PICK cs : cs = <<Thought(e.ps)>>  OBVIOUS
      <3>4. s = Step(v, cs)  BY <2>1, <2>3, <3>1, <3>2, <3>3 DEF PerplexityReasoning
      <3>5. s.u = v /\ s.out = cs  BY <3>4 DEF Step
      <3>6. v \in UpStates  BY <1>3, <3>1, <3>2 DEF UpStates
      <3>7. Hushed(cs)  BY <1>3, <1>6, <3>3, Parts
      <3> QED BY <1>3, <3>5, <3>6, <3>7, ContentDelivers, Formats
    <2> QED BY <2>2, <2>3
  <1>9. CASE e.k = "error"
    <2>1. s = FailAndStop(up)  BY <1>5, <1>9 DEF FromPerplexity
    <2> QED BY <1>1, <1>3, <1>9, <2>1, FailureDelivers, Formats DEF PhaseAfter
  <1> QED BY <1>4, <1>7, <1>8, <1>9 DEF Plain

\* Nothing before one chunk.
LEMMA EmptyFirst ==
    ASSUME NEW c
    PROVE  <<>> \o <<c>> = <<c>> /\ Hushed(<<>>)
  <1>1. <<c>> \in Seq({c})  OBVIOUS
  <1>2. <<>> \o <<c>> = <<c>>  BY <1>1
  <1>3. Hushed(<<>>)  BY DEF Hushed
  <1> QED BY <1>2, <1>3

\* An event of a Grok provider.
LEMMA GrokDelivers ==
    ASSUME TalkTyped, UpInv, target = "grok", target' = target, NEW e, Happens(e),
           NEW s, s = FromProvider(e, up)
    PROVE  Delivers(s)
  <1>1. TalkTyped' /\ talk.phase' = PhaseAfter(e)  BY DEF Happens
  <1>2. Carries(e) /\ (talk.phase = "answering" => Shaped(e)) /\ (talk.phase # "answering" => After(e))
    BY DEF Happens
  <1>3. talk.phase = "answering" /\ e.ps \in Seq(Nat) /\ up \in UpStates
    BY <1>2 DEF After, Carries, UpInv
  <1>4. Plain(e, {"text", "thought", "whole", "error"})  BY <1>2, <1>3 DEF Shaped
  <1>5. s = FromGrok(e, up)  BY DEF FromProvider
  <1>6. PICK i \in Int, b \in BOOLEAN : TRUE
    <2>1. 0 \in Int /\ TRUE \in BOOLEAN  OBVIOUS
    <2> QED BY <2>1
  <1>7. PICK n \in Nat : n = Len(e.ps)  BY <1>3
  <1>8. CASE e.k \in {"text", "thought"}
    <2>1. s = GrokToken(e, up)  BY <1>5, <1>8 DEF FromGrok
    <2>2. PICK a, c : a = <<Thought(e.ps)>> /\ c = <<Text(e.ps)>>  OBVIOUS
    <2>3. Hushed(a) /\ Hushed(c)  BY <1>3, <1>6, <2>2, Parts
    <2>4. CASE up.thinking /\ ~up.answered
      <3>1. s = Step(up, a)  BY <2>1, <2>2, <2>4 DEF GrokToken
      <3>2. s.u = up /\ s.out = a  BY <3>1 DEF Step
      <3> QED BY <1>3, <2>3, <3>2, ContentDelivers, Formats
    <2>5. CASE ~(up.thinking /\ ~up.answered)
      <3>0. PICK k \in Nat : k = up.emitted + n  BY <1>3 DEF UpStates
      <3>1. PICK v : v = [up EXCEPT !.emitted = k]  OBVIOUS
      <3>2. s = Step(v, c)  BY <3>0, <1>7, <2>1, <2>2, <2>5, <3>1 DEF GrokToken
      <3>3. s.u = v /\ s.out = c  BY <3>2 DEF Step
      <3>4. v \in UpStates  BY <1>3, <3>1 DEF UpStates
      <3> QED BY <1>3, <2>3, <3>3, <3>4, ContentDelivers, Formats
    <2> QED BY <2>4, <2>5
  <1>9. CASE e.k = "whole"
    <2>1. s = GrokMessage(e, up)  BY <1>5, <1>9 DEF FromGrok
    <2>2. PICK v : v = [up EXCEPT !.answered = TRUE]  OBVIOUS
    <2>3. v \in UpStates /\ v.emitted = up.emitted  BY <1>3, <2>2 DEF UpStates
    <2>4. PICK rest : rest = SubSeq(e.ps, up.emitted + 1, n)  OBVIOUS
    <2>5. rest \in Seq(Nat) /\ Len(rest) \in Nat
      <3>1. up.emitted + 1 \in Nat \ {0}  BY <1>3 DEF UpStates
      <3> QED BY <1>3, <1>7, <2>4, <3>1
    <2>6. CASE up.thinking
      <3>1. PICK cs : cs = <<Text(e.ps)>>  OBVIOUS
      <3>2. s = Step(v, cs)  BY <2>1, <2>2, <2>6, <3>1 DEF GrokMessage
      <3>3. s.u = v /\ s.out = cs  BY <3>2 DEF Step
      <3>4. Hushed(cs)  BY <1>3, <1>6, <3>1, Parts
      <3> QED BY <1>3, <2>3, <3>3, <3>4, ContentDelivers, Formats
    <2>7. CASE ~up.thinking /\ rest = <<>>
      <3>1. s = Step(v, <<>>)  BY <1>7, <2>1, <2>2, <2>4, <2>7 DEF GrokMessage, Nothing
      <3>2. s.u = v /\ s.out = <<>>  BY <3>1 DEF Step
      <3>3. Hushed(s.out)  BY <3>2 DEF Hushed
      <3> QED BY <1>3, <2>3, <3>2, <3>3, ContentDelivers, Formats
    <2>8. CASE ~up.thinking /\ rest # <<>>
      <3>0. PICK k \in Nat : k = v.emitted + Len(rest)  BY <2>3, <2>5 DEF UpStates
      <3>1. PICK w : w = [v EXCEPT !.emitted = k]  OBVIOUS
      <3>2. PICK cs : cs = <<Text(rest)>>  OBVIOUS
      <3>3. s = Step(w, cs)
        BY <1>7, <2>1, <2>2, <2>4, <2>8, <3>0, <3>1, <3>2 DEF GrokMessage
      <3>4. s.u = w /\ s.out = cs  BY <3>3 DEF Step
      <3>5. w \in UpStates  BY <2>3, <2>5, <3>1 DEF UpStates
      <3>6. Hushed(cs)  BY <1>6, <2>5, <3>2, Parts
      <3> QED BY <1>3, <3>4, <3>5, <3>6, ContentDelivers, Formats
    <2> QED BY <2>6, <2>7, <2>8
  <1>10. CASE e.k = "error"
    <2>1. s = FailAndStop(up)  BY <1>5, <1>10 DEF FromGrok
    <2> QED BY <1>1, <1>3, <1>10, <2>1, FailureDelivers, Formats DEF PhaseAfter
  <1> QED BY <1>4, <1>8, <1>9, <1>10 DEF Plain

\* A call that has been seen has an index.
LEMMA SeenIs ==
    ASSUME NEW u, u.calls \in Seq(Int), NEW id \in Int, NEW calls, calls = Seen(u, id)
    PROVE  calls \in Seq(Int) /\ IndexOf(calls, id) \in Int /\ calls # <<>>
  <1>1. CASE Knows(u, id)
    <2>1. calls = u.calls /\ id \in ToSet(u.calls)  BY <1>1 DEF Seen, Knows
    <2>2. IndexOf(calls, id) \in Int  BY <2>1, IndexIs
    <2>3. calls # <<>>  BY <2>1 DEF ToSet
    <2> QED BY <2>1, <2>2, <2>3
  <1>2. CASE ~Knows(u, id)
    <2>1. calls = Append(u.calls, id)  BY <1>2 DEF Seen
    <2>2. calls \in Seq(Int) /\ Len(calls) \in DOMAIN calls /\ calls[Len(calls)] = id /\ calls # <<>>
      BY <2>1
    <2>3. id \in ToSet(calls)  BY <2>2 DEF ToSet
    <2>4. IndexOf(calls, id) \in Int  BY <2>2, <2>3, IndexIs
    <2> QED BY <2>2, <2>4
  <1> QED BY <1>1, <1>2

\* What CommandCode makes of a call.
LEMMA CommandCodeCall ==
    ASSUME NEW u \in UpStates, NEW e, e.k \in {"open", "args", "call"}, e.id \in Int,
           e.ps \in Seq(Nat), NEW s, s = FromCommandCode(e, u)
    PROVE  s.u \in UpStates /\ Hushed(s.out)
  <1>0. u.calls \in Seq(Int)  BY DEF UpStates
  <1>1. PICK b \in BOOLEAN, a \in BOOLEAN : b = TRUE /\ a = FALSE
    <2>1. TRUE \in BOOLEAN /\ FALSE \in BOOLEAN  OBVIOUS
    <2> QED BY <2>1
  <1>2. PICK none \in Seq(Nat) : none = <<>>
    <2>1. <<>> \in Seq(Nat)  OBVIOUS
    <2> QED BY <2>1
  <1>3. CASE e.k = "open"
    <2>1. PICK calls : calls = Seen(u, e.id)  OBVIOUS
    <2>2. calls \in Seq(Int) /\ IndexOf(calls, e.id) \in Int  BY <1>0, <2>1, SeenIs
    <2>3. PICK i \in Int : i = IndexOf(calls, e.id)  BY <2>2
    <2>4. PICK cs : cs = <<Call(i, b, none)>>  OBVIOUS
    <2>5. PICK v : v = [u EXCEPT !.calls = calls]  OBVIOUS
    <2>6. s = CommandCodeToolStart(e, u)  BY <1>3 DEF FromCommandCode
    <2>7. s = Step(v, cs)
      BY <1>1, <1>2, <2>1, <2>3, <2>4, <2>5, <2>6 DEF CommandCodeToolStart
    <2>8. s.u = v /\ s.out = cs  BY <2>7 DEF Step
    <2>9. v \in UpStates  BY <2>2, <2>5 DEF UpStates
    <2>10. Hushed(cs)  BY <2>4, Parts
    <2> QED BY <2>8, <2>9, <2>10
  <1>4. CASE e.k = "args"
    <2>1. s = CommandCodeToolDelta(e, u)  BY <1>4 DEF FromCommandCode
    <2>2. CASE Knows(u, e.id)
      <3>1. IndexOf(u.calls, e.id) \in Int  BY <1>0, <2>2, IndexIs DEF Knows
      <3>2. PICK i \in Int : i = IndexOf(u.calls, e.id)  BY <3>1
      <3>3. PICK cs : cs = <<Call(i, a, e.ps)>>  OBVIOUS
      <3>4. s = Step(u, cs)  BY <1>1, <2>1, <2>2, <3>2, <3>3 DEF CommandCodeToolDelta
      <3>5. s.u = u /\ s.out = cs  BY <3>4 DEF Step
      <3>6. Hushed(cs)  BY <3>3, Parts
      <3> QED BY <3>5, <3>6
    <2>3. CASE ~Knows(u, e.id)
      <3>1. s = Step(u, <<>>)  BY <2>1, <2>3 DEF CommandCodeToolDelta, Nothing
      <3>2. s.u = u /\ s.out = <<>>  BY <3>1 DEF Step
      <3> QED BY <3>2 DEF Hushed
    <2> QED BY <2>2, <2>3
  <1>5. CASE e.k = "call"
    <2>1. s = CommandCodeToolCall(e, u)  BY <1>5 DEF FromCommandCode
    <2>2. CASE Knows(u, e.id)
      <3>1. s = Step(u, <<>>)  BY <2>1, <2>2 DEF CommandCodeToolCall, Nothing
      <3>2. s.u = u /\ s.out = <<>>  BY <3>1 DEF Step
      <3> QED BY <3>2 DEF Hushed
    <2>3. CASE ~Knows(u, e.id)
      <3>1. PICK calls : calls = Append(u.calls, e.id)  OBVIOUS
      <3>2. calls \in Seq(Int)  BY <1>0, <3>1
      <3>3. PICK i \in Int : i = Len(u.calls)  BY <1>0
      <3>4. PICK cs : cs = <<Call(i, b, e.ps)>>  OBVIOUS
      <3>5. PICK v : v = [u EXCEPT !.calls = calls]  OBVIOUS
      <3>6. s = Step(v, cs)
        BY <1>1, <2>1, <2>3, <3>1, <3>3, <3>4, <3>5 DEF CommandCodeToolCall
      <3>7. s.u = v /\ s.out = cs  BY <3>6 DEF Step
      <3>8. v \in UpStates  BY <3>2, <3>5 DEF UpStates
      <3>9. Hushed(cs)  BY <3>4, Parts
      <3> QED BY <3>7, <3>8, <3>9
    <2> QED BY <2>2, <2>3
  <1> QED BY <1>3, <1>4, <1>5

\* An event of a CommandCode provider.
LEMMA CommandCodeDelivers ==
    ASSUME TalkTyped, UpInv, target = "commandcode", target' = target, NEW e, Happens(e),
           NEW s, s = FromProvider(e, up)
    PROVE  Delivers(s)
  <1>1. /\ TalkTyped' /\ talk.phase' = PhaseAfter(e)
        /\ talk.phase # "answering" => talk.phase' # "answering"
    BY DEF Happens
  <1>2. Carries(e) /\ (talk.phase = "answering" => Shaped(e)) /\ (talk.phase # "answering" => After(e))
    BY DEF Happens
  <1>3. e.ps \in Seq(Nat) /\ e.id \in Int /\ up \in UpStates
    BY <1>2 DEF Carries, UpInv
  <1>4. s = FromCommandCode(e, up)  BY DEF FromProvider
  <1>5. PICK i \in Int, b \in BOOLEAN : TRUE
    <2>1. 0 \in Int /\ TRUE \in BOOLEAN  OBVIOUS
    <2> QED BY <2>1
  <1>6. CASE Plain(e, {"text", "thought"})
    <2>1. talk.phase = "answering"  BY <1>2, <1>6 DEF After, Plain, Ended1
    <2>2. talk.phase' = "answering"  BY <1>1, <1>6, <2>1 DEF PhaseAfter, Plain
    <2>3. PICK cs : cs = IF e.k = "text" THEN <<Text(e.ps)>> ELSE <<Thought(e.ps)>>  OBVIOUS
    <2>4. s.u = up /\ s.out = cs  BY <1>4, <1>6, <2>3 DEF FromCommandCode, Plain, Step
    <2>5. Hushed(cs)  BY <1>3, <1>5, <2>3, Parts
    <2> QED BY <1>3, <2>1, <2>2, <2>4, <2>5, ContentDelivers, Formats
  <1>7. CASE Plain(e, {"open", "args", "call"})
    <2>1. talk.phase = "answering"  BY <1>2, <1>7 DEF After, Plain, Ended1
    <2>2. talk.phase' = "answering"  BY <1>1, <1>7, <2>1 DEF PhaseAfter, Plain
    <2>3. s.u \in UpStates /\ Hushed(s.out)  BY <1>3, <1>4, <1>7, CommandCodeCall DEF Plain
    <2> QED BY <2>1, <2>2, <2>3, ContentDelivers, Formats
  <1>8. CASE Ended1(e, {"finish_step"})
    <2>1. talk.phase = "answering"  BY <1>2, <1>8 DEF After, Ended1
    <2>2. talk.phase' = "answering"  BY <1>1, <1>8, <2>1 DEF PhaseAfter, Ended1
    <2>3. PICK v : v = [up EXCEPT !.finish = e.tag]  OBVIOUS
    <2>4. s = Step(v, <<>>)  BY <1>4, <1>8, <2>3 DEF FromCommandCode, Ended1, Nothing
    <2>5. s.u = v /\ s.out = <<>>  BY <2>4 DEF Step
    <2>6. v \in UpStates  BY <1>3, <1>8, <2>3 DEF UpStates, Ended1, Reasons, Finishes
    <2>7. Hushed(s.out)  BY <2>5 DEF Hushed
    <2> QED BY <2>1, <2>2, <2>5, <2>6, <2>7, ContentDelivers, Formats
  <1>9. CASE Ended1(e, {"finish"})
    <2>1. talk.phase' # "answering"  BY <1>1, <1>9 DEF PhaseAfter, Ended1
    <2>2. PICK r : r = IF up.finish # "none" THEN up.finish ELSE e.tag  OBVIOUS
    <2>3. r \in Reasons  BY <1>3, <1>9, <2>2 DEF UpStates, Ended1, Reasons, Finishes
    <2>4. s = Step(up, <<Finish(r)>>)
      BY <1>4, <1>9, <2>2 DEF FromCommandCode, CommandCodeFinish, Ended1
    <2>5. s.u = up /\ s.out = <<Finish(r)>>  BY <2>4 DEF Step
    <2>6. PICK x : x = <<>>  OBVIOUS
    <2>7. Hushed(x) /\ s.out = x \o <<Finish(r)>>  BY <2>5, <2>6, EmptyFirst
    <2>8. target \notin Announcing /\ s.u \in UpStates  BY <1>3, <2>5, Formats
    <2> QED BY ONLY target' = target, <2>1, <2>3, <2>6, <2>7, <2>8, FinishDelivers
  <1>10. CASE Plain(e, {"error"})
    <2>1. talk.phase = "answering"  BY <1>2, <1>10 DEF After, Plain, Ended1
    <2>2. talk.phase' # "answering"  BY <1>1, <1>10 DEF PhaseAfter, Plain
    <2>3. PICK fail \in Seq(Int) : fail = <<Failure>>
      <3>1. <<Failure>> \in Seq(Int)  BY DEF Failure
      <3> QED BY <3>1
    <2>4. PICK c : c = Text(fail)  OBVIOUS
    <2>5. PICK v : v = [up EXCEPT !.finish = "stop"]  OBVIOUS
    <2>6. s = Step(v, <<c, Finish("stop")>>)
      BY <1>4, <1>10, <2>3, <2>4, <2>5 DEF FromCommandCode, Plain, CommandCodeError
    <2>7. s.u = v /\ s.out = <<c, Finish("stop")>>  BY <2>6 DEF Step
    <2>8. v \in UpStates  BY <1>3, <2>5 DEF UpStates, Finishes
    <2>9. PICK n \in Finishes, r \in Finishes : n = "none" /\ r = "stop"  BY DEF Finishes
    <2>10. PICK d : d = Finish(r)  OBVIOUS
    <2>11. c \in Chunks /\ c.finish = "none" /\ d \in Chunks /\ d.finish = "stop"
      BY <1>5, <2>3, <2>4, <2>9, <2>10, ChunksAre
    <2>12. PICK R : R = RNow'  OBVIOUS
    <2>13. "stop" \in R  BY <2>2, <2>12, FreeReasons, Formats DEF Reasons
    <2>14. Tells(<<c, d>>, R, d.finish # "none", c.calls # <<>> \/ d.calls # <<>>,
                 Contentless(c) /\ Contentless(d))
      BY <2>11, <2>13, TellsTwo
    <2>15. s.out = <<c, d>>  BY <2>7, <2>9, <2>10
    <2>16. Told(s.out, R) /\ FinishIn(s.out)  BY <2>11, <2>14, <2>15 DEF Tells
    <2> QED BY <2>1, <2>7, <2>8, <2>12, <2>16, Formats DEF Delivers
  <1> QED
    <2>1. \/ Plain(e, {"text", "thought", "open", "args", "call", "error"})
          \/ Ended1(e, {"finish_step", "finish"})
      BY <1>2 DEF Shaped, After, Ended1
    <2> QED BY <1>6, <1>7, <1>8, <1>9, <1>10, <2>1 DEF Plain, Ended1

\* What comes before the first chunk.
Opening(u) == IF u.started THEN <<>> ELSE <<Role>>

\* The role, sent first, is no finish.
LEMMA OpeningHushed == ASSUME NEW u PROVE Hushed(Opening(u))
  <1>1. 0 \in Int /\ TRUE \in BOOLEAN /\ <<>> \in Seq(Nat)  OBVIOUS
  <1>2. PICK i \in Int, b \in BOOLEAN, ps \in Seq(Nat) : TRUE  BY <1>1
  <1>3. Hushed(<<Role>>) /\ Hushed(<<>>)  BY <1>2, Parts
  <1> QED BY <1>3 DEF Opening

\* The part of a Gemini chunk, apart from its reason.
LEMMA GeminiPartIs ==
    ASSUME NEW u \in UpStates, NEW e, e.id \in Int, e.ps \in Seq(Nat),
           e.k \in {"text", "thought", "call", "finish"},
           NEW p, p = GeminiPart(e, u)
    PROVE  /\ p.u \in UpStates /\ Hushed(p.out)
           /\ e.k = "call" => CallIn(p.out) /\ p.u.calls # <<>>
           /\ e.k # "call" => p.u = u
  <1>0. u.calls \in Seq(Int)  BY DEF UpStates
  <1>1. PICK i \in Int, b \in BOOLEAN : i = Len(u.calls) /\ b = TRUE
    <2>1. Len(u.calls) \in Int /\ TRUE \in BOOLEAN  BY <1>0
    <2> QED BY <2>1
  <1>2. CASE e.k = "text"
    <2>1. PICK cs : cs = <<Text(e.ps)>>  OBVIOUS
    <2>2. p = Step(u, cs)  BY <1>2, <2>1 DEF GeminiPart
    <2>3. p.u = u /\ p.out = cs  BY <2>2 DEF Step
    <2>4. Hushed(cs)  BY <1>1, <2>1, Parts
    <2> QED BY <1>2, <2>3, <2>4
  <1>3. CASE e.k = "thought"
    <2>1. PICK cs : cs = <<Thought(e.ps)>>  OBVIOUS
    <2>2. p = Step(u, cs)  BY <1>3, <2>1 DEF GeminiPart
    <2>3. p.u = u /\ p.out = cs  BY <2>2 DEF Step
    <2>4. Hushed(cs)  BY <1>1, <2>1, Parts
    <2> QED BY <1>3, <2>3, <2>4
  <1>4. CASE e.k = "call"
    <2>1. PICK calls : calls = Append(u.calls, e.id)  OBVIOUS
    <2>2. calls \in Seq(Int) /\ calls # <<>>  BY <1>0, <2>1
    <2>3. PICK cs : cs = <<Call(i, b, e.ps)>>  OBVIOUS
    <2>4. PICK v : v = [u EXCEPT !.calls = calls]  OBVIOUS
    <2>5. p = Step(v, cs)  BY <1>1, <1>4, <2>1, <2>3, <2>4 DEF GeminiPart
    <2>6. p.u = v /\ p.out = cs  BY <2>5 DEF Step
    <2>7. v \in UpStates /\ v.calls # <<>>  BY <2>2, <2>4 DEF UpStates
    <2>8. Hushed(cs) /\ CallIn(cs)  BY <2>3, Parts
    <2> QED BY <1>4, <2>6, <2>7, <2>8
  <1>5. CASE e.k = "finish"
    <2>1. p = Step(u, <<>>)  BY <1>5 DEF GeminiPart, Nothing
    <2>2. p.u = u /\ p.out = <<>>  BY <2>1 DEF Step
    <2> QED BY <1>5, <2>2 DEF Hushed
  <1> QED BY <1>2, <1>3, <1>4, <1>5

\* An event of a Gemini provider.
LEMMA GeminiDelivers ==
    ASSUME TalkTyped, UpInv, target = "gemini", target' = target, NEW e, Happens(e),
           NEW s, s = FromProvider(e, up)
    PROVE  Delivers(s)
  <1>1. /\ TalkTyped' /\ talk.phase' = PhaseAfter(e)
        /\ talk.calls' = talk.calls \/ e.k \in {"open", "call", "block_start"}
    BY DEF Happens
  <1>2. Carries(e) /\ (talk.phase = "answering" => Shaped(e)) /\ (talk.phase # "answering" => After(e))
    BY DEF Happens
  <1>3. talk.phase = "answering" /\ e.ps \in Seq(Nat) /\ e.id \in Int /\ up \in UpStates
    BY <1>2 DEF After, Carries, UpInv
  <1>4. \/ e.k \in {"text", "thought", "call"} /\ e.tag \in {"none", "stop"}
        \/ e.k = "finish" /\ e.tag = "stop"
    BY <1>2, <1>3 DEF Shaped
  <1>5. PICK p : p = GeminiPart(e, up)  OBVIOUS
  <1>6. /\ p.u \in UpStates /\ Hushed(p.out)
        /\ e.k = "call" => CallIn(p.out) /\ p.u.calls # <<>>
        /\ e.k # "call" => p.u = up
    BY <1>3, <1>4, <1>5, GeminiPartIs
  <1>7. PICK fin : fin = GeminiFinish(e, p.u)  OBVIOUS
  <1>8. PICK f : f = IF e.tag = "none" THEN p.u.finish ELSE fin  OBVIOUS
  <1>9. PICK v : v = [p.u EXCEPT !.started = TRUE, !.finish = f]  OBVIOUS
  <1>10. PICK x : x = Opening(up) \o p.out  OBVIOUS
  <1>11. PICK z : z = IF e.tag = "none" THEN <<>> ELSE <<Finish(fin)>>  OBVIOUS
  <1>12. s = Step(v, x \o z)
    BY <1>5, <1>7, <1>8, <1>9, <1>10, <1>11 DEF FromProvider, FromGemini, Opening
  <1>13. s.u = v /\ s.out = x \o z  BY <1>12 DEF Step
  <1>14. Hushed(x) /\ (CallIn(p.out) => CallIn(x))
    <2>1. PICK o : o = Opening(up)  OBVIOUS
    <2>2. Hushed(o)  BY <2>1, OpeningHushed
    <2> QED BY <1>6, <1>10, <2>1, <2>2, HushedJoin
  <1>15. fin = IF e.tag = "stop" /\ p.u.calls # <<>> THEN "tool_calls" ELSE e.tag
    BY <1>7 DEF GeminiFinish
  <1>16. f \in Finishes  BY <1>4, <1>6, <1>8, <1>15 DEF UpStates, Finishes
  <1>17. v \in UpStates /\ v.calls = p.u.calls  BY <1>6, <1>9, <1>16 DEF UpStates
  <1>18. talk.calls' > 0 => v.calls # <<>>
    <2>1. talk.calls > 0 => up.calls # <<>>  BY Formats DEF UpInv
    <2>2. CASE e.k = "call"  BY <1>6, <1>17, <2>2
    <2>3. CASE e.k # "call"
      <3>1. talk.calls' = talk.calls  BY <1>1, <1>4, <2>3
      <3> QED BY <1>6, <1>17, <2>1, <2>3, <3>1
    <2> QED BY <2>2, <2>3
  <1>19. talk.calls' > talk.calls => CallIn(x)
    <2>1. CASE e.k = "call"  BY <1>6, <1>14, <2>1
    <2>2. CASE e.k # "call"
      <3>1. talk.calls' = talk.calls  BY <1>1, <1>4, <2>2
      <3> QED BY <3>1 DEF TalkTyped
    <2> QED BY <2>1, <2>2
  <1>20. CASE e.tag = "none"
    <2>1. talk.phase' = "answering"  BY <1>1, <1>3, <1>4, <1>20 DEF PhaseAfter
    <2>2. x \o <<>> = x  BY <1>14 DEF Hushed
    <2>3. s.out = x  BY <1>11, <1>13, <1>20, <2>2
    <2> QED BY <1>3, <1>13, <1>14, <1>17, <1>18, <1>19, <2>1, <2>3, ContentDelivers, Formats
  <1>21. CASE e.tag = "stop"
    <2>1. talk.phase' # "answering"  BY <1>1, <1>21 DEF PhaseAfter
    <2>2. fin \in Reasons /\ (talk.calls' > 0 => fin = "tool_calls")
      BY <1>15, <1>17, <1>18, <1>21 DEF Reasons
    <2>3. PICK r \in Reasons : r = fin  BY <2>2
    <2>4. s.out = x \o <<Finish(r)>>  BY <1>11, <1>13, <1>21, <2>3
    <2>5. s.u \in UpStates /\ s.u.calls = v.calls  BY <1>13, <1>17
    <2> QED BY ONLY target' = target, <1>3, <1>14, <1>18, <1>19, <2>1, <2>2, <2>3, <2>4, <2>5, FinishDelivers
  <1> QED BY <1>4, <1>20, <1>21

\* A call of a binary stream.
LEMMA BinaryCallIs ==
    ASSUME NEW u \in UpStates, NEW e, e.id \in Int, e.ps \in Seq(Nat), NEW s, s = BinaryCall(e, u)
    PROVE  /\ s.u \in UpStates /\ s.u.calls # <<>> /\ s.u.sent = u.sent
           /\ Hushed(s.out) /\ CallIn(s.out)
  <1>1. PICK calls : calls = Seen(u, e.id)  OBVIOUS
  <1>2. calls \in Seq(Int) /\ IndexOf(calls, e.id) \in Int /\ calls # <<>>
    <2>1. u.calls \in Seq(Int)  BY DEF UpStates
    <2> QED BY <1>1, <2>1, SeenIs
  <1>3. PICK i \in Int, b \in BOOLEAN : i = IndexOf(calls, e.id) /\ b = TRUE
    <2>1. TRUE \in BOOLEAN  OBVIOUS
    <2> QED BY <1>2, <2>1
  <1>4. PICK cs : cs = <<Call(i, b, e.ps)>>  OBVIOUS
  <1>5. PICK v : v = [u EXCEPT !.calls = calls, !.started = TRUE]  OBVIOUS
  <1>6. s = Step(v, cs)  BY <1>1, <1>3, <1>4, <1>5 DEF BinaryCall
  <1>7. s.u = v /\ s.out = cs  BY <1>6 DEF Step
  <1>8. v \in UpStates /\ v.calls # <<>> /\ v.sent = u.sent  BY <1>2, <1>5 DEF UpStates
  <1>9. Hushed(cs) /\ CallIn(cs)  BY <1>4, Parts
  <1> QED BY <1>7, <1>8, <1>9

\* The finish of a binary stream, which announces the calls it has seen.
LEMMA BinaryFinishIs ==
    ASSUME NEW u \in UpStates, NEW s, s = BinaryFinish(u)
    PROVE  /\ s.u \in UpStates /\ s.u.calls = u.calls /\ s.u.sent = TRUE
           /\ \E x : Hushed(x) /\ s.out = x \o <<Finish(IF u.calls = <<>> THEN "stop" ELSE "tool_calls")>>
  <1>1. PICK x : x = Opening(u)  OBVIOUS
  <1>2. PICK r : r = IF u.calls = <<>> THEN "stop" ELSE "tool_calls"  OBVIOUS
  <1>3. PICK v : v = [u EXCEPT !.started = TRUE, !.sent = TRUE]  OBVIOUS
  <1>4. s = Step(v, x \o <<Finish(r)>>)  BY <1>1, <1>2, <1>3 DEF BinaryFinish, Opening
  <1>5. s.u = v /\ s.out = x \o <<Finish(r)>>  BY <1>4 DEF Step
  <1>6. v \in UpStates /\ v.calls = u.calls /\ v.sent = TRUE  BY <1>3 DEF UpStates
  <1>7. Hushed(x)  BY <1>1, OpeningHushed
  <1> QED BY <1>2, <1>5, <1>6, <1>7

\* What that finish tells.
LEMMA BinaryTells ==
    ASSUME NEW u \in UpStates, NEW s, s = BinaryFinish(u), NEW R,
           (IF u.calls = <<>> THEN "stop" ELSE "tool_calls") \in R
    PROVE  Told(s.out, R) /\ FinishIn(s.out) /\ Silent(s.out)
  <1>1. PICK x : x = Opening(u)  OBVIOUS
  <1>2. PICK r \in Reasons : r = IF u.calls = <<>> THEN "stop" ELSE "tool_calls"  BY DEF Reasons
  <1>3. PICK v : v = [u EXCEPT !.started = TRUE, !.sent = TRUE]  OBVIOUS
  <1>4. s = Step(v, x \o <<Finish(r)>>)  BY <1>1, <1>2, <1>3 DEF BinaryFinish, Opening
  <1>5. PICK f : f = <<Finish(r)>>  OBVIOUS
  <1>6. s.out = x \o f  BY <1>4, <1>5 DEF Step
  <1>7. Told(f, R) /\ FinishIn(f) /\ Silent(f)  BY <1>2, <1>5, FinishTells
  <1>8. Tells(x, R, FALSE, FALSE, TRUE)
    <2>1. CASE u.started
      <3>1. x = <<>>  BY <1>1, <2>1 DEF Opening
      <3> QED BY <3>1, TellsNothing DEF Tells
    <2>2. CASE ~u.started
      <3>1. x = <<Role>>  BY <1>1, <2>2 DEF Opening
      <3>2. PICK c : c = Role  OBVIOUS
      <3>3. c \in Chunks /\ c.finish = "none" /\ Contentless(c)
        <4>1. <<>> \in Seq(Int) /\ <<>> \in Seq(CallParts) /\ "none" \in Finishes  BY DEF Finishes
        <4> QED BY <3>2, <4>1 DEF Role, Chunk, Chunks, Contentless
      <3>4. Tells(<<c>>, R, c.finish # "none", c.calls # <<>>, Contentless(c))
        BY <3>3, TellsOne
      <3> QED BY <3>1, <3>2, <3>3, <3>4 DEF Tells
    <2> QED BY <2>1, <2>2
  <1>9. \A i \in DOMAIN x : x[i].finish = "none"
    BY <1>1, OpeningHushed DEF Hushed
  <1>10. Tells(f, R, TRUE, FALSE, TRUE)  BY <1>7 DEF Tells
  <1>11. Tells(x \o f, R, TRUE, FALSE \/ FALSE, TRUE /\ TRUE)
    BY ONLY <1>8, <1>9, <1>10, TellsJoined
  <1> QED BY <1>6, <1>11 DEF Tells

\* A finish of a binary decoder, stated by the provider or at the end of its body.
LEMMA BinaryEnds ==
    ASSUME UpInv, target \in Binary, target' = target, talk.phase' # "answering",
           talk.phase = "answering", talk.calls' = talk.calls, talk.calls \in Nat,
           NEW s, s = BinaryFinish(up)
    PROVE  Delivers(s)
  <1>1. target \in Announcing /\ target \notin Unfinishing /\ target # "claude"
    BY DEF Announcing, Binary, Unfinishing
  <1>2. up \in UpStates /\ (talk.calls > 0 => up.calls # <<>>)  BY <1>1 DEF UpInv
  <1>3. s.u \in UpStates /\ s.u.calls = up.calls  BY <1>2, BinaryFinishIs
  <1>4. PICK r : r = IF up.calls = <<>> THEN "stop" ELSE "tool_calls"  OBVIOUS
  <1>5. r \in Reasons /\ (talk.calls' > 0 => r = "tool_calls")
    BY <1>2, <1>4 DEF Reasons
  <1>6. r \in RNow'  BY <1>5, ReasonsLeft
  <1>7. PICK R : R = RNow'  OBVIOUS
  <1>8. (IF up.calls = <<>> THEN "stop" ELSE "tool_calls") \in R  BY <1>4, <1>6, <1>7
  <1>9. Told(s.out, R) /\ FinishIn(s.out)  BY <1>2, <1>8, BinaryTells
  <1>10. ~(talk.calls' > talk.calls)  OBVIOUS
  <1> QED BY <1>1, <1>2, <1>3, <1>7, <1>9, <1>10 DEF Delivers

\* A part of an answer from a binary decoder.
LEMMA BinaryParts ==
    ASSUME UpInv, target \in Binary, talk.phase = "answering", talk.calls' = talk.calls,
           talk.calls \in Nat, NEW ps \in Seq(Nat), NEW s,
           s \in {Step(Opened(up), <<Text(ps)>>), Step(Opened(up), <<Thought(ps)>>), Nothing(up)}
    PROVE  Delivers(s)
  <1>1. target \in Announcing /\ target # "claude"  BY DEF Announcing, Binary
  <1>2. up \in UpStates /\ (talk.calls > 0 => up.calls # <<>>)  BY <1>1 DEF UpInv
  <1>3. PICK v : v = [up EXCEPT !.started = TRUE]  OBVIOUS
  <1>4. v \in UpStates /\ v.calls = up.calls /\ v.sent = up.sent  BY <1>2, <1>3 DEF UpStates
  <1>5. PICK i \in Int, b \in BOOLEAN : TRUE
    <2>1. 0 \in Int /\ TRUE \in BOOLEAN  OBVIOUS
    <2> QED BY <2>1
  <1>6. PICK a, c, n : a = <<Text(ps)>> /\ c = <<Thought(ps)>> /\ n = <<>>  OBVIOUS
  <1>7. Hushed(a) /\ Hushed(c) /\ Hushed(n)  BY <1>5, <1>6, Parts
  <1>8. s \in {Step(v, a), Step(v, c), Step(up, n)}
    BY <1>3, <1>6 DEF Opened, Nothing
  <1>9. s.u \in {v, up} /\ s.out \in {a, c, n}  BY <1>8 DEF Step
  <1>10. s.u \in UpStates /\ s.u.calls = up.calls /\ s.u.sent = up.sent /\ Hushed(s.out)
    BY <1>2, <1>4, <1>7, <1>9
  <1>11. ~(talk.calls' > talk.calls)  OBVIOUS
  <1>12. target \in Binary \cup Unfinishing  OBVIOUS
  <1> QED BY <1>1, <1>2, <1>10, <1>11, <1>12, ContentDelivers

\* An event of Kiro.
LEMMA KiroDelivers ==
    ASSUME TalkTyped, UpInv, target = "kiro", target' = target, NEW e, Happens(e),
           NEW s, s = FromProvider(e, up)
    PROVE  Delivers(s)
  <1>1. /\ TalkTyped' /\ talk.phase' = PhaseAfter(e)
        /\ talk.calls' = talk.calls \/ e.k \in {"open", "call", "block_start"}
    BY DEF Happens
  <1>2. Carries(e) /\ (talk.phase = "answering" => Shaped(e)) /\ (talk.phase # "answering" => After(e))
    BY DEF Happens
  <1>3. /\ talk.phase = "answering" /\ e.ps \in Seq(Nat) /\ e.id \in Int /\ up \in UpStates
        /\ talk.calls \in Nat
    BY <1>2 DEF After, Carries, UpInv, TalkTyped
  <1>4. Plain(e, {"text", "thought", "call", "stop", "error"})
    BY <1>2, <1>3, Formats DEF Shaped
  <1>5. s = FromKiro(e, up)  BY DEF FromProvider
  <1>6. CASE Plain(e, {"text", "thought", "error"})
    <2>1. s \in {Step(Opened(up), <<Text(e.ps)>>), Step(Opened(up), <<Thought(e.ps)>>), Nothing(up)}
      BY <1>5, <1>6 DEF FromKiro, Plain
    <2>2. talk.calls' = talk.calls  BY <1>1, <1>6 DEF Plain
    <2>3. PICK ps \in Seq(Nat) : ps = e.ps  BY <1>3
    <2> QED BY <1>3, <2>1, <2>2, <2>3, BinaryParts, Formats
  <1>7. CASE Plain(e, {"call"})
    <2>1. s = BinaryCall(e, up)  BY <1>5, <1>7 DEF FromKiro, Plain
    <2>2. /\ s.u \in UpStates /\ s.u.calls # <<>> /\ s.u.sent = up.sent
          /\ Hushed(s.out) /\ CallIn(s.out)
      BY <1>3, <2>1, BinaryCallIs
    <2> QED BY <1>3, <2>2, ContentDelivers, Formats
  <1>8. CASE Plain(e, {"stop"})
    <2>1. s = KiroFinish(up)  BY <1>5, <1>8 DEF FromKiro, Plain
    <2>2. talk.calls' = talk.calls  BY <1>1, <1>8 DEF Plain
    <2>3. talk.phase' # "answering"  BY <1>1, <1>8 DEF PhaseAfter, Plain
    <2>4. CASE up.sent
      <3>1. s = Nothing(up)  BY <2>1, <2>4 DEF KiroFinish
      <3>2. PICK ps \in Seq(Nat) : ps = e.ps  BY <1>3
      <3>3. s \in {Step(Opened(up), <<Text(ps)>>), Step(Opened(up), <<Thought(ps)>>), Nothing(up)}
        BY <3>1
      <3> QED BY <1>3, <2>2, <3>3, BinaryParts, Formats
    <2>5. CASE ~up.sent
      <3>1. s = BinaryFinish(up)  BY <2>1, <2>5 DEF KiroFinish
      <3> QED BY <1>3, <2>2, <2>3, <3>1, BinaryEnds, Formats
    <2> QED BY <2>4, <2>5
  <1> QED BY <1>4, <1>6, <1>7, <1>8 DEF Plain

\* What is visible of a composer's thinking is text.
LEMMA VisibleIs ==
    ASSUME NEW ps \in Seq(Int)
    PROVE  VisibleAfterThink(ps) \in Seq(Int)
  <1>1. PICK marks : marks = {i \in DOMAIN ps : ps[i] = CloseTag}  OBVIOUS
  <1>2. CASE marks = {}
    <2>1. VisibleAfterThink(ps) = <<>>  BY <1>1, <1>2 DEF VisibleAfterThink
    <2> QED BY <2>1
  <1>3. CASE marks # {}
    <2>1. PICK n \in Nat : n = Len(ps) /\ DOMAIN ps = 1..n  OBVIOUS
    <2>2. marks \in SUBSET Int /\ marks \subseteq 1..n  BY <1>1, <2>1
    <2>3. IsFiniteSet(marks)
      <3>1. IsFiniteSet(1..n)  BY <2>1, FS_Interval
      <3> QED BY <2>2, <3>1, FS_Subset
    <2>4. Max(marks) \in marks  BY <1>3, <2>2, <2>3, MaxIn
    <2>5. PICK m \in 1..n : m = Max(marks)  BY <2>2, <2>4
    <2>6. VisibleAfterThink(ps) = SubSeq(ps, m + 1, n)
      BY <1>1, <1>3, <2>1, <2>5 DEF VisibleAfterThink
    <2>7. SubSeq(ps, m + 1, n) \in Seq(Int)  BY <2>1, <2>5
    <2> QED BY <2>6, <2>7
  <1> QED BY <1>2, <1>3

\* A composer's thinking is passed on as text, or not at all.
LEMMA ComposerIs ==
    ASSUME NEW u \in UpStates, NEW e, e.ps \in Seq(Nat), NEW s, s = ComposerThinking(e, u)
    PROVE  s.u \in UpStates /\ s.u.calls = u.calls /\ Hushed(s.out)
  <1>1. PICK new : new = IF e.k = "mark" THEN <<CloseTag>> ELSE e.ps  OBVIOUS
  <1>2. new \in Seq(Int)
    <2>1. <<CloseTag>> \in Seq(Int)  BY DEF CloseTag
    <2>2. e.ps \in Seq(Int)  BY NatsAreInts
    <2> QED BY <1>1, <2>1, <2>2
  <1>3. PICK all : all = u.embedded \o new  OBVIOUS
  <1>4. all \in Seq(Int)
    <2>1. u.embedded \in Seq(Int)  BY DEF UpStates
    <2> QED BY <1>2, <1>3, <2>1
  <1>5. PICK visible \in Seq(Int) : visible = VisibleAfterThink(all)  BY <1>4, VisibleIs
  <1>6. PICK n \in Nat : n = Len(visible)  BY <1>5
  <1>7. PICK rest : rest = SubSeq(visible, u.emitted + 1, n)  OBVIOUS
  <1>8. rest \in Seq(Int)
    <2>1. u.emitted + 1 \in Nat \ {0}  BY DEF UpStates
    <2> QED BY <1>6, <1>7, <2>1
  <1>9. PICK v : v = [u EXCEPT !.embedded = all]  OBVIOUS
  <1>10. v \in UpStates /\ v.calls = u.calls  BY <1>4, <1>9 DEF UpStates
  <1>11. CASE rest = <<>>
    <2>1. s = Step(v, <<>>)
      BY <1>1, <1>3, <1>5, <1>6, <1>7, <1>9, <1>11 DEF ComposerThinking, Nothing
    <2>2. s.u = v /\ s.out = <<>>  BY <2>1 DEF Step
    <2>3. Hushed(s.out)  BY <2>2 DEF Hushed
    <2> QED BY <1>10, <2>2, <2>3
  <1>12. CASE rest # <<>>
    <2>1. PICK cs : cs = <<Text(rest)>>  OBVIOUS
    <2>2. PICK x : x = [v EXCEPT !.started = TRUE]  OBVIOUS
    <2>3. PICK w : w = [x EXCEPT !.emitted = n]  OBVIOUS
    <2>4. s = Step(w, cs)
      BY <1>1, <1>3, <1>5, <1>6, <1>7, <1>9, <1>12, <2>1, <2>2, <2>3
      DEF ComposerThinking, Opened
    <2>5. s.u = w /\ s.out = cs  BY <2>4 DEF Step
    <2>6. w \in UpStates /\ w.calls = u.calls
      <3>1. x \in UpStates /\ x.calls = u.calls  BY <1>10, <2>2 DEF UpStates
      <3> QED BY <2>3, <3>1 DEF UpStates
    <2>7. Hushed(cs)
      <3>1. 0 \in Int /\ TRUE \in BOOLEAN  OBVIOUS
      <3>2. PICK i \in Int, b \in BOOLEAN : TRUE  BY <3>1
      <3>3. Quietly(cs)  BY <1>8, <2>1, <3>2, PartsAreQuiet
      <3> QED BY <3>3, QuietIsHushed
    <2> QED BY <2>5, <2>6, <2>7
  <1> QED BY <1>11, <1>12

\* An event of Cursor.
LEMMA CursorDelivers ==
    ASSUME TalkTyped, UpInv, target = "cursor", target' = target, NEW e, Happens(e),
           NEW s, s = FromProvider(e, up)
    PROVE  Delivers(s)
  <1>1. /\ TalkTyped' /\ talk.phase' = PhaseAfter(e)
        /\ talk.calls' = talk.calls \/ e.k \in {"open", "call", "block_start"}
    BY DEF Happens
  <1>2. Carries(e) /\ (talk.phase = "answering" => Shaped(e)) /\ (talk.phase # "answering" => After(e))
    BY DEF Happens
  <1>3. /\ talk.phase = "answering" /\ e.ps \in Seq(Nat) /\ e.id \in Int /\ up \in UpStates
        /\ talk.calls \in Nat
    BY <1>2 DEF After, Carries, UpInv, TalkTyped
  <1>4. Plain(e, {"text", "thought", "call", "stop", "error"} \cup {"mark", "embedded", "exec"})
    BY <1>2, <1>3, Formats DEF Shaped
  <1>5. s = FromCursor(e, up)  BY DEF FromProvider
  <1>6. CASE /\ Plain(e, {"text", "thought", "mark", "embedded", "error", "exec"})
             /\ ~(up.thinking /\ e.k \in {"thought", "mark", "embedded"})
    <2>1. s \in {Step(Opened(up), <<Text(e.ps)>>), Step(Opened(up), <<Thought(e.ps)>>), Nothing(up)}
      BY <1>5, <1>6 DEF FromCursor, Plain
    <2>2. talk.calls' = talk.calls  BY <1>1, <1>6 DEF Plain
    <2>3. PICK ps \in Seq(Nat) : ps = e.ps  BY <1>3
    <2> QED BY <1>3, <2>1, <2>2, <2>3, BinaryParts, Formats
  <1>7. CASE Plain(e, {"call"})
    <2>1. PICK c : c = BinaryCall(e, up)  OBVIOUS
    <2>2. /\ c.u \in UpStates /\ c.u.calls # <<>> /\ c.u.sent = up.sent
          /\ Hushed(c.out) /\ CallIn(c.out)
      BY <1>3, <2>1, BinaryCallIs
    <2>3. PICK o : o = Opening(up)  OBVIOUS
    <2>4. PICK z : z = o \o c.out  OBVIOUS
    <2>5. s = Step(c.u, z)  BY <1>5, <1>7, <2>1, <2>3, <2>4 DEF FromCursor, Plain, Opening
    <2>6. s.u = c.u /\ s.out = z  BY <2>5 DEF Step
    <2>7. Hushed(z) /\ CallIn(z)  BY <2>2, <2>3, <2>4, OpeningHushed, HushedJoin
    <2> QED BY <1>3, <2>2, <2>6, <2>7, ContentDelivers, Formats
  <1>8. CASE Plain(e, {"stop"})
    <2>1. s = BinaryFinish(up)  BY <1>5, <1>8 DEF FromCursor, Plain, CursorFinish
    <2>2. talk.calls' = talk.calls  BY <1>1, <1>8 DEF Plain
    <2>3. talk.phase' # "answering"  BY <1>1, <1>8 DEF PhaseAfter, Plain
    <2> QED BY <1>3, <2>1, <2>2, <2>3, BinaryEnds, Formats
  <1>9. CASE up.thinking /\ Plain(e, {"thought", "mark", "embedded"})
    <2>1. s = ComposerThinking(e, up)  BY <1>5, <1>9 DEF FromCursor, Plain
    <2>2. talk.calls' = talk.calls  BY <1>1, <1>9 DEF Plain
    <2>3. s.u \in UpStates /\ s.u.calls = up.calls /\ Hushed(s.out)
      BY <1>3, <2>1, ComposerIs
    <2>4. talk.calls > 0 => up.calls # <<>>  BY Formats DEF UpInv
    <2>5. ~(talk.calls' > talk.calls)  BY <1>3, <2>2
    <2> QED BY <1>3, <2>2, <2>3, <2>4, <2>5, ContentDelivers, Formats
  <1> QED BY <1>4, <1>6, <1>7, <1>8, <1>9 DEF Plain

\* Every event is one the client can be told.
LEMMA EveryEventDelivers ==
    ASSUME TalkTyped, UpInv, target' = target, NEW e, Happens(e),
           NEW s, s = FromProvider(e, up)
    PROVE  Delivers(s)
  <1>1. target \in {"openai", "claude", "gemini", "ollama", "commandcode", "grok", "perplexity",
                    "kiro", "cursor"}
    BY DEF TalkTyped
  <1> QED BY <1>1, OpenAiDelivers, ClaudeDelivers, GeminiDelivers, OllamaDelivers,
             CommandCodeDelivers, GrokDelivers, PerplexityDelivers, KiroDelivers, CursorDelivers

\* What follows the last event: the finish that the provider did not state.
LEMMA FinalizeTells ==
    ASSUME TalkTyped, UpInv, NEW s, s = Finalize(up)
    PROVE  /\ s.u \in UpStates /\ Told(s.out, Allowed) /\ Silent(s.out)
           /\ target \in Unfinishing /\ source # "json" => FinishIn(s.out)
           /\ target = "cursor" => FinishIn(s.out)
           /\ target = "kiro" /\ ~up.sent => FinishIn(s.out)
  <1>1. up \in UpStates  BY DEF UpInv
  <1>2. PICK R : R = Allowed  OBVIOUS
  <1>3. ASSUME s = Nothing(up) PROVE s.u \in UpStates /\ Told(s.out, R) /\ Silent(s.out)
    <2>1. s.u = up /\ s.out = <<>>  BY <1>3 DEF Nothing, Step
    <2>2. Told(<<>>, R) /\ Silent(<<>>)  BY TellsNothing DEF Tells
    <2> QED BY <1>1, <2>1, <2>2
  <1>4. ASSUME target \in Binary, s = BinaryFinish(up)
        PROVE  s.u \in UpStates /\ Told(s.out, R) /\ Silent(s.out) /\ FinishIn(s.out)
    <2>1. s.u \in UpStates  BY <1>1, <1>4, BinaryFinishIs
    <2>2. talk.calls > 0 => up.calls # <<>>  BY <1>4 DEF UpInv, Announcing
    <2>3. (IF up.calls = <<>> THEN "stop" ELSE "tool_calls") \in R
      BY <1>2, <2>2 DEF Allowed, Reasons
    <2> QED BY <1>1, <1>4, <2>1, <2>3, BinaryTells
  <1>5. CASE target \in Unfinishing /\ source # "json"
    <2>1. s = Step(up, <<Finish("stop")>>)  BY <1>5 DEF Finalize, Unfinishing
    <2>2. PICK r \in Reasons : r = "stop"  BY DEF Reasons
    <2>3. r \in R  BY <1>2, <1>5, <2>2 DEF Allowed, Announcing, Binary, Unfinishing
    <2>4. PICK f : f = <<Finish(r)>>  OBVIOUS
    <2>5. s.u = up /\ s.out = f  BY <2>1, <2>2, <2>4 DEF Step
    <2>6. Told(f, R) /\ FinishIn(f) /\ Silent(f)  BY <2>3, <2>4, FinishTells
    <2>7. target \notin Binary  BY <1>5 DEF Binary, Unfinishing
    <2> QED BY <1>1, <1>2, <1>5, <2>5, <2>6, <2>7 DEF Binary
  <1>6. CASE target = "kiro"
    <2>1. s = KiroFinish(up)  BY <1>6 DEF Finalize, Unfinishing
    <2>2. CASE up.sent
      <3>1. s = Nothing(up)  BY <2>1, <2>2 DEF KiroFinish
      <3> QED BY <1>2, <1>3, <1>6, <2>2, <3>1, Formats
    <2>3. CASE ~up.sent
      <3>1. s = BinaryFinish(up)  BY <2>1, <2>3 DEF KiroFinish
      <3> QED BY <1>2, <1>4, <1>6, <3>1, Formats
    <2> QED BY <2>2, <2>3
  <1>7. CASE target = "cursor"
    <2>1. s = BinaryFinish(up)  BY <1>7 DEF Finalize, Unfinishing, CursorFinish
    <2> QED BY <1>2, <1>4, <1>7, <2>1, Formats
  <1>8. CASE ~(target \in Unfinishing /\ source # "json") /\ target # "kiro" /\ target # "cursor"
    <2>1. s = Nothing(up)  BY <1>8 DEF Finalize
    <2> QED BY <1>2, <1>3, <1>8, <2>1
  <1> QED BY <1>5, <1>6, <1>7, <1>8

Bodies == {JsonBody(j) : j \in JsonStates}
Wire == Frames \cup Chunks \cup Bodies
Delivered == got \o channel \o pending

EndTold == \/ target \notin Binary \cup Unfinishing /\ talk.phase # "answering"
           \/ target = "kiro" /\ up.sent = TRUE
CallsTold == target \in Announcing /\ talk.calls > 0

\* What is in the batch of a binary read is told, and not yet heard.
EndHeard == EndTold /\ ~FinishIn(batch)
CallsHeard == CallsTold /\ ~CallIn(batch)

\* All that a client of a stream is told.
AllTold(s) ==
    CASE source = "claude" -> \E h : s = Append(h, Done) /\ ClaudeSound(h, Allowed, Finished)
      [] source = "responses" -> \E h : s = Append(h, Done) /\ ResponseSound(h) /\ (h = <<>> \/ ~Going(h))
      [] source = "json" -> \E j : s = <<JsonBody(j)>> /\ JsonInv(j, Allowed, CallsTold)
      [] OTHER -> \E h : s = Append(h, Done) /\ ChunksSound(h, Allowed, Finished)

\* What holds of a stream that its client still reads.
Telling ==
    /\ TalkTyped
    /\ got \in Seq(Wire) /\ channel \in Seq(Wire) /\ pending \in Seq(Wire)
    /\ pump # "over" => /\ UpInv
                        /\ DownInv(Delivered, down, RNow, EndHeard, CallsHeard)
                        /\ down.out = <<>>
                        /\ Told(batch, RNow)
                        /\ Complete(down) => talk.phase # "answering" /\ Silent(batch)
    /\ IF pump \in {"decoding", "decoded"} THEN pending = <<>> ELSE batch = <<>>
    /\ pump = "over" => AllTold(Delivered)

StreamInv == client = "there" => Telling

\* Nothing queued, before or after.
LEMMA EmptyLast ==
    ASSUME NEW X, NEW g \in Seq(X), NEW c \in Seq(X), NEW p \in Seq(X)
    PROVE  /\ g \o <<>> = g /\ <<>> \o g = g /\ g \o c \in Seq(X) /\ g \o c \o p \in Seq(X)
           /\ (g \o c) \o <<>> \o p = g \o c \o p
  OBVIOUS

\* What is queued next no longer waits.
LEMMA OutDelivered ==
    ASSUME NEW h, NEW d, NEW R, NEW e, NEW m, DownInv(h, d, R, e, m),
           NEW w, w = [d EXCEPT !.out = <<>>]
    PROVE  DownInv(h \o d.out, w, R, e, m) /\ w.out = <<>> /\ d.out \in Seq(Wire)
           /\ (Complete(w) => Complete(d))
  <1>1. CASE source = "claude"
    <2>1. h \in Seq(Frames) /\ ClaudeInv(h, d, R, e)  BY <1>1 DEF DownInv
    <2>2. d \in ClaudeStates /\ d.out \in Seq(Frames)  BY <2>1 DEF ClaudeInv, ClaudeStates
    <2>2n. PICK none \in Seq(Frames) : none = <<>> /\ w = [d EXCEPT !.out = none]
      <3>1. <<>> \in Seq(Frames)  OBVIOUS
      <3> QED BY <3>1
    <2>3. w \in ClaudeStates /\ w.out = <<>> /\ w.sent = d.sent /\ w.next = d.next
          /\ w.thought = d.thought /\ w.text = d.text /\ w.calls = d.calls
      BY <2>2, <2>2n DEF ClaudeStates
    <2>4. PICK s : s = h \o d.out  OBVIOUS
    <2>5. s \in Seq(Frames) /\ s \o w.out = s  BY <2>1, <2>2, <2>3, <2>4
    <2>6. InStep(s, d) => InStep(s, w)  BY <2>3 DEF InStep, IsOpen, Apart
    <2>7. ClaudeInv(s, w, R, e)  BY <2>1, <2>3, <2>4, <2>5, <2>6 DEF ClaudeInv
    <2>8. d.out \in Seq(Wire)  BY <2>2 DEF Wire
    <2> QED BY <1>1, <2>3, <2>4, <2>5, <2>7, <2>8 DEF DownInv, Complete
  <1>2. CASE source = "responses"
    <2>1. h \in Seq(Frames) /\ ResponseInv(h, d)  BY <1>2 DEF DownInv
    <2>2. d \in ResponseStates /\ d.out \in Seq(Frames)  BY <2>1 DEF ResponseInv, ResponseStates
    <2>2n. PICK none \in Seq(Frames) : none = <<>> /\ w = [d EXCEPT !.out = none]
      <3>1. <<>> \in Seq(Frames)  OBVIOUS
      <3> QED BY <3>1
    <2>3. w \in ResponseStates /\ w.out = <<>> /\ w.started = d.started /\ w.completed = d.completed
          /\ w.added = d.added /\ w.done = d.done /\ w.text = d.text /\ w.thought = d.thought
          /\ w.args = d.args
      BY <2>2, <2>2n DEF ResponseStates
    <2>4. PICK s : s = h \o d.out  OBVIOUS
    <2>5. s \in Seq(Frames) /\ s \o w.out = s  BY <2>1, <2>2, <2>3, <2>4
    <2>6. Knowing(s, d) => Knowing(s, w)  BY <2>3 DEF Knowing, Buffer, ArgsOf
    <2>7. ResponseInv(s, w)  BY <2>1, <2>3, <2>4, <2>5, <2>6 DEF ResponseInv
    <2>8. d.out \in Seq(Wire)  BY <2>2 DEF Wire
    <2> QED BY <1>2, <2>3, <2>4, <2>5, <2>7, <2>8 DEF DownInv, Complete
  <1>3. CASE source = "json"
    <2>1. h = <<>> /\ JsonInv(d, R, m)  BY <1>3 DEF DownInv
    <2>2. d \in JsonStates /\ d.out = <<>>  BY <2>1 DEF JsonInv, JsonStates
    <2>3. w = d  BY <2>2 DEF JsonStates
    <2>4. h \o d.out = <<>> /\ d.out \in Seq(Wire)  BY <2>1, <2>2
    <2> QED BY <1>3, <2>1, <2>2, <2>3, <2>4 DEF DownInv, Complete
  <1>4. CASE source \notin {"claude", "responses", "json"}
    <2>1. h \in Seq(Chunks) /\ d \in OpenStates /\ ChunksSound(h \o d.out, R, e)
      BY <1>4 DEF DownInv
    <2>2n. PICK none \in Seq(Chunks) : none = <<>> /\ w = [d EXCEPT !.out = none]
      <3>1. <<>> \in Seq(Chunks)  OBVIOUS
      <3> QED BY <3>1
    <2>2. d.out \in Seq(Chunks) /\ w \in OpenStates /\ w.out = <<>>  BY <2>1, <2>2n DEF OpenStates
    <2>3. PICK s : s = h \o d.out  OBVIOUS
    <2>4. s \in Seq(Chunks) /\ s \o w.out = s  BY <2>1, <2>2, <2>3
    <2>5. ChunksSound(s \o w.out, R, e)  BY <2>1, <2>3, <2>4
    <2>6. d.out \in Seq(Wire)  BY <2>2 DEF Wire
    <2> QED BY <1>4, <2>2, <2>3, <2>4, <2>5, <2>6 DEF DownInv, Complete
  <1> QED BY <1>1, <1>2, <1>3, <1>4

\* What is known of a stream that may finish so is known of one that may finish
\* in more ways.
LEMMA Weaken ==
    ASSUME NEW h, NEW d, NEW R, NEW e, NEW m, DownInv(h, d, R, e, m),
           NEW S, R \subseteq S, NEW f, f => e, NEW n, n => m
    PROVE  DownInv(h, d, S, f, n)
  <1>1. CASE source = "claude"
    <2>1. h \in Seq(Frames) /\ ClaudeInv(h, d, R, e)  BY <1>1 DEF DownInv
    <2>2. ClaudeInv(h, d, S, f)  BY <2>1 DEF ClaudeInv, ClaudeSound
    <2> QED BY <1>1, <2>1, <2>2 DEF DownInv
  <1>2. CASE source = "responses"  BY <1>2 DEF DownInv
  <1>3. CASE source = "json"  BY <1>3 DEF DownInv, JsonInv
  <1>4. CASE source \notin {"claude", "responses", "json"}  BY <1>4 DEF DownInv, ChunksSound
  <1> QED BY <1>1, <1>2, <1>3, <1>4

\* An empty batch tells nothing.
LEMMA NothingIn == ~FinishIn(<<>>) /\ ~CallIn(<<>>) /\ Silent(<<>>)
  <1>1. DOMAIN <<>> = {}  OBVIOUS
  <1> QED BY <1>1 DEF FinishIn, CallIn, Silent

\* Between reads all that is told is heard, and only then does the body end.
LEMMA BetweenReads ==
    ASSUME Telling, pump \in {"reading", "closing"}
    PROVE  /\ batch = <<>> /\ TalkTyped /\ UpInv
           /\ DownInv(Delivered, down, RNow, EndTold, CallsTold)
           /\ Complete(down) => talk.phase # "answering"
  <1>1. batch = <<>> /\ TalkTyped /\ UpInv /\ DownInv(Delivered, down, RNow, EndHeard, CallsHeard)
        /\ (Complete(down) => talk.phase # "answering")
    BY DEF Telling
  <1>2. (EndTold => EndHeard) /\ (CallsTold => CallsHeard)
    BY <1>1, NothingIn DEF EndHeard, CallsHeard
  <1>3. PICK h, R, e, m, f, n : /\ h = Delivered /\ R = RNow /\ e = EndHeard /\ m = CallsHeard
                                /\ f = EndTold /\ n = CallsTold
    OBVIOUS
  <1>4. DownInv(h, down, R, e, m) /\ (f => e) /\ (n => m)  BY <1>1, <1>2, <1>3
  <1>5. DownInv(h, down, R, f, n)  BY <1>4, Weaken
  <1> QED BY <1>1, <1>3, <1>5

\* A client that was sent nothing has a sound stream.
LEMMA EmptySound ==
    ASSUME NEW R
    PROVE  /\ ClaudeSound(<<>>, R, FALSE) /\ NoEnd(<<>>) /\ ResponseSound(<<>>) /\ Going(<<>>)
           /\ ChunksSound(<<>>, R, FALSE) /\ <<>> \o <<>> = <<>>
  <1>1. <<>> \in Seq(Frames) /\ <<>> \in Seq(Chunks) /\ DOMAIN <<>> = {}  OBVIOUS
  <1>2. <<>> \o <<>> = <<>>  OBVIOUS
  <1> QED BY <1>1, <1>2 DEF ClaudeSound, ClaudeParses, NoEnd, ResponseSound, Going, ChunksSound

\* An item was sent nothing yet.
LEMMA SentNothing == ASSUME NEW id, NEW kind PROVE Sent(<<>>, 0, id, kind) = <<>>
  <1>1. PICK ss : ss = [j \in 1..0 |-> PieceOf(<<>>[j], id, kind)]  OBVIOUS
  <1>2. 1..0 = {}  OBVIOUS
  <1>3. ss \in [1..0 -> Seq(Int)]  BY <1>1, <1>2
  <1>4. ss \in Seq(Seq(Int)) /\ DOMAIN ss = 1..0  BY <1>3
  <1>5. Len(ss) = 0  BY <1>4, LenProperties
  <1>6. ss = <<>>  BY <1>4, <1>5
  <1> QED BY <1>1, <1>6, FlattenNone DEF Sent

\* The state of a client to which nothing was sent.
LEMMA NewDownHolds ==
    ASSUME NEW d, d = NewDown(source), NEW m, m = FALSE, NEW e, e = FALSE, NEW R
    PROVE  DownInv(<<>>, d, R, e, m) /\ d.out = <<>> /\ ~Complete(d)
  <1>1. CASE source = "claude"
    <2>1. d = NewClaude  BY <1>1 DEF NewDown
    <2>2. /\ d.sent = FALSE /\ d.next = 0 /\ d.thought = Unset /\ d.text = Unset /\ d.calls = <<>>
          /\ d.out = <<>>
      BY <2>1 DEF NewClaude
    <2>3. d \in ClaudeStates
      <3>1. <<>> \in Seq(ClaudeCalls) /\ <<>> \in Seq(Frames)  OBVIOUS
      <3> QED BY <2>1, <3>1 DEF NewClaude, ClaudeStates
    <2>4. InStep(<<>>, d)
      <3>1. DOMAIN <<>> = {}  OBVIOUS
      <3>2. \A id, kind : ~IsOpen(d, id, kind)  BY <2>2, <3>1 DEF IsOpen
      <3>3. \A id, kind : ~Opens(<<>>, id, kind)  BY EmptyHas DEF Opens
      <3>4. \A id, kind : ~Has(<<>>, "block_stop", id, kind)  BY EmptyHas
      <3> QED BY <2>2, <3>1, <3>2, <3>3, <3>4 DEF InStep, Below, Apart
    <2>5. <<>> \in Seq(Frames)  OBVIOUS
    <2> QED BY <1>1, <2>2, <2>3, <2>4, <2>5, EmptySound DEF DownInv, ClaudeInv, Complete
  <1>2. CASE source = "responses"
    <2>1. d = NewResponses  BY <1>2 DEF NewDown
    <2>2. /\ d.started = FALSE /\ d.completed = FALSE /\ d.added = {} /\ d.done = {}
          /\ d.text = <<>> /\ d.thought = <<>> /\ d.args = <<>> /\ d.out = <<>>
      BY <2>1 DEF NewResponses
    <2>3. d \in ResponseStates
      <3>1. <<>> \in Seq(Int) /\ <<>> \in Seq(Frames)  OBVIOUS
      <3>2. PICK S : S = {}  OBVIOUS
      <3>3. S \in SUBSET Int /\ <<>> \in [S -> Seq(Int)]  BY <3>2
      <3>4. <<>> \in UNION {[T -> Seq(Int)] : T \in SUBSET Int}  BY <3>3
      <3>5. {} \in SUBSET Items  OBVIOUS
      <3>6. PICK A : A = UNION {[T -> Seq(Int)] : T \in SUBSET Int}  OBVIOUS
      <3>7. ResponseStates = [started : BOOLEAN, completed : BOOLEAN, added : SUBSET Items,
                              done : SUBSET Items, text : Seq(Int), thought : Seq(Int), args : A,
                              out : Seq(Frames)]
        BY <3>6 DEF ResponseStates
      <3>8. PICK none : none = <<>>  OBVIOUS
      <3>9. none \in A /\ none \in Seq(Int) /\ none \in Seq(Frames)  BY <3>1, <3>4, <3>6, <3>8
      <3>10. d = [started |-> FALSE, completed |-> FALSE, added |-> {}, done |-> {}, text |-> none,
                  thought |-> none, args |-> none, out |-> none]
        BY <2>1, <3>8 DEF NewResponses
      <3>11. FALSE \in BOOLEAN  OBVIOUS
      <3> QED BY <3>5, <3>7, <3>9, <3>10, <3>11
    <2>4. Knowing(<<>>, d)
      <3>1. \A id, kind : ~Has(<<>>, "added", id, kind) /\ ~Has(<<>>, "done", id, kind)
        BY EmptyHas
      <3>2. Len(<<>>) = 0  OBVIOUS
      <3>3. \A id, kind : Sent(<<>>, 0, id, kind) = <<>>  BY SentNothing
      <3>4. \A id, kind : Buffer(d, kind, id) = <<>>
        <4>1. DOMAIN <<>> = {}  OBVIOUS
        <4> QED BY <2>2, <4>1 DEF Buffer, ArgsOf
      <3> QED BY <2>2, <3>1, <3>2, <3>3, <3>4, EmptySound DEF Knowing
    <2>5. <<>> \in Seq(Frames) /\ IsFiniteSet(d.added)
      <3>1. IsFiniteSet({})  BY FS_EmptySet
      <3> QED BY <2>2, <3>1
    <2> QED BY <1>2, <2>2, <2>3, <2>4, <2>5, EmptySound DEF DownInv, ResponseInv, Complete
  <1>3. CASE source = "json"
    <2>1. d = NewJson  BY <1>3 DEF NewDown
    <2>2. <<>> \in Seq(Int) /\ <<>> \in Seq(JsonCalls) /\ "none" \in Finishes  BY DEF Finishes
    <2>3. d \in JsonStates /\ d.finish = "none" /\ d.out = <<>>
      BY <2>1, <2>2 DEF NewJson, JsonStates
    <2> QED BY <1>3, <2>3 DEF DownInv, JsonInv, Complete
  <1>4. CASE source \notin {"claude", "responses", "json"}
    <2>1. d = [out |-> <<>>]  BY <1>4 DEF NewDown
    <2>2. <<>> \in Seq(Chunks)  OBVIOUS
    <2>3. d \in OpenStates /\ d.out = <<>>  BY <2>1, <2>2 DEF OpenStates
    <2> QED BY <1>4, <2>2, <2>3, EmptySound DEF DownInv, Complete
  <1> QED BY <1>1, <1>2, <1>3, <1>4

\* Every stream starts with the invariant.
LEMMA InitTells == Init => StreamInv
  <1> SUFFICES ASSUME Init PROVE Telling
    BY DEF StreamInv
  <1>1. PICK thinking \in BOOLEAN : up = NewUpstream(thinking)  BY DEF Init
  <1>2. up \in UpStates /\ up.sent = FALSE
    <2>1. /\ <<>> \in Seq(Int) /\ "none" \in Finishes /\ Unset \in Int /\ 0 \in Nat
          /\ {} \in SUBSET Seq(Nat) /\ FALSE \in BOOLEAN
      BY DEF Finishes, Unset
    <2> QED BY <1>1, <2>1 DEF NewUpstream, UpStates
  <1>3. talk.calls = 0 /\ talk.phase = "answering" /\ talk.kind = "none"  BY DEF Init
  <1>4. TalkTyped
    <2>1. 0 \in 0..MaxCalls /\ Unset \in Int /\ 0 \in Int /\ 0 \in Nat
      BY StreamAssumption DEF Unset
    <2>2. said \in [text : Nat, thought : Nat, args : [CallIds -> Nat]]  BY <2>1 DEF Init
    <2>3. talk.block = Unset /\ talk.blocks = 0  BY DEF Init
    <2>4. target \in Targets  BY DEF Init
    <2> QED BY <1>3, <2>1, <2>2, <2>3, <2>4, StreamAssumption DEF TalkTyped, Phases
  <1>5. UpInv  BY <1>2, <1>3, <1>4 DEF UpInv, TalkTyped
  <1>6. RNow = {} /\ ~EndHeard /\ ~CallsHeard
    BY <1>2, <1>3 DEF RNow, EndTold, CallsTold, EndHeard, CallsHeard
  <1>7. down = NewDown(source) /\ got = <<>> /\ channel = <<>> /\ pending = <<>> /\ pump = "reading"
        /\ batch = <<>>
    BY DEF Init
  <1>8. PICK e, m, R : e = EndHeard /\ m = CallsHeard /\ R = RNow  OBVIOUS
  <1>9. DownInv(<<>>, down, R, e, m) /\ down.out = <<>> /\ ~Complete(down)
    <2>1. e = FALSE /\ m = FALSE  BY <1>6, <1>8 DEF EndHeard, CallsHeard
    <2> QED BY <1>7, <2>1, NewDownHolds
  <1>10. Delivered = <<>>
    <2>1. <<>> \o <<>> \o <<>> = <<>>  OBVIOUS
    <2> QED BY <1>7, <2>1 DEF Delivered
  <1>11. <<>> \in Seq(Wire)  OBVIOUS
  <1>12. Told(batch, R)  BY <1>7, TellsNothing DEF Tells
  <1> QED BY <1>4, <1>5, <1>7, <1>8, <1>9, <1>10, <1>11, <1>12 DEF Telling

\* Reading an event keeps it: the frames of the event follow what was
\* delivered.
LEMMA ReadTells ==
    ASSUME Telling, NEW e \in Offers, Read(e)
    PROVE  Telling'
  <1>1. /\ pump = "reading" /\ pending = <<>> /\ Say(e)
        /\ target' = target /\ source' = source /\ channel' = channel /\ got' = got
        /\ pump' = pump /\ batch' = batch
    BY DEF Read
  <1>2. PICK f \in AsRead(e) : LET step == FromProvider(f, up)
                                   d == ToClient(down, step.out)
                               IN  /\ up' = step.u /\ pending' = d.out
                                   /\ down' = [d EXCEPT !.out = <<>>]
    BY DEF Read
  <1>3. PICK s, w : s = FromProvider(f, up) /\ w = ToClient(down, s.out)  OBVIOUS
  <1>4. up' = s.u /\ pending' = w.out /\ down' = [w EXCEPT !.out = <<>>]
    BY <1>2, <1>3
  <1>5. /\ TalkTyped /\ UpInv /\ DownInv(Delivered, down, RNow, EndTold, CallsTold)
        /\ Complete(down) => talk.phase # "answering"
    BY <1>1, BetweenReads
  <1>5b. Happens(f)  BY <1>1, <1>2, <1>5, ReadHappens
  <1>6. Delivers(s)  BY <1>1, <1>3, <1>5, <1>5b, EveryEventDelivers
  <1>7. /\ TalkTyped'
        /\ talk.phase # "answering" => talk.phase' # "answering" /\ talk.calls' = talk.calls
        /\ talk.calls' >= talk.calls
    BY <1>5b DEF Happens
  <1>8. talk.calls \in Nat /\ talk.calls' \in Nat  BY <1>5, <1>7 DEF TalkTyped
  <1>9. PICK R, S : R = RNow /\ S = RNow'  OBVIOUS
  <1>10. R \subseteq S
    <2>1. CASE talk.phase = "answering"  BY <1>9, <2>1 DEF RNow
    <2>2. CASE talk.phase # "answering"
      <3>1. Allowed' = Allowed  BY <1>1, <1>7, <2>2 DEF Allowed, Announcing, Binary
      <3> QED BY <1>7, <1>9, <2>2, <3>1 DEF RNow
    <2> QED BY <2>1, <2>2
  <1>11. PICK g, c, m, n : /\ g = EndTold /\ c = CallsTold
                           /\ m = (g \/ FinishIn(s.out)) /\ n = (c \/ CallIn(s.out))
    OBVIOUS
  <1>12. PICK h : h = Delivered  OBVIOUS
  <1>13. DownInv(h, down, S, g, c)  BY <1>5, <1>9, <1>10, <1>11, <1>12, Weaken
  <1>14. PICK cs : cs = s.out  OBVIOUS
  <1>15. Told(cs, S)  BY <1>6, <1>9, <1>14 DEF Delivers
  <1>16. Complete(down) => Silent(cs)  BY <1>5, <1>6, <1>14 DEF Delivers
  <1>17. /\ DownInv(h, w, S, g \/ FinishIn(cs), c \/ CallIn(cs))
         /\ Complete(w) => Complete(down) \/ FinishIn(cs)
    BY ONLY <1>3, <1>13, <1>14, <1>15, <1>16, ToClientKeeps
  <1>18. DownInv(h, w, S, m, n)  BY <1>11, <1>14, <1>17
  <1>19. EndTold' => m
    <2> SUFFICES ASSUME EndTold' PROVE m
      OBVIOUS
    <2>1. CASE target' \notin (Binary \cup Unfinishing)' /\ talk.phase' # "answering"
      <3>1. target \notin Binary \cup Unfinishing  BY <1>1, <2>1 DEF Binary, Unfinishing
      <3>2. talk.phase = "answering" => FinishIn(s.out)  BY <2>1, <3>1, <1>6 DEF Delivers
      <3> QED BY <1>11, <3>1, <3>2 DEF EndTold
    <2>2. CASE target' = "kiro" /\ up'.sent = TRUE
      <3>1. target = "kiro" /\ s.u.sent = TRUE  BY <1>1, <1>4, <2>2
      <3>2. up.sent = TRUE \/ FinishIn(s.out)  BY <1>6, <3>1 DEF Delivers
      <3> QED BY <1>11, <3>1, <3>2 DEF EndTold
    <2> QED BY <2>1, <2>2 DEF EndTold
  <1>20. CallsTold' => n
    <2> SUFFICES ASSUME CallsTold' PROVE n
      OBVIOUS
    <2>1. target \in Announcing /\ talk.calls' > 0  BY <1>1 DEF CallsTold, Announcing, Binary
    <2>2. CASE talk.calls' > talk.calls  BY <1>6, <1>11, <2>1, <2>2 DEF Delivers
    <2>3. CASE ~(talk.calls' > talk.calls)
      <3>1. talk.calls > 0  BY <1>7, <1>8, <2>1, <2>3
      <3> QED BY <1>11, <2>1, <3>1 DEF CallsTold
    <2> QED BY <2>2, <2>3
  <1>21. PICK g1, c1 : g1 = EndTold' /\ c1 = CallsTold'  OBVIOUS
  <1>22. DownInv(h, w, S, g1, c1)  BY <1>18, <1>19, <1>20, <1>21, Weaken
  <1>23. PICK v : v = [w EXCEPT !.out = <<>>]  OBVIOUS
  <1>24. /\ DownInv(h \o w.out, v, S, g1, c1) /\ v.out = <<>> /\ w.out \in Seq(Wire)
         /\ Complete(v) => Complete(w)
    BY <1>22, <1>23, OutDelivered
  <1>25. got \in Seq(Wire) /\ channel \in Seq(Wire)  BY DEF Telling
  <1>26. Delivered' = h \o w.out
    <2>1. h = got \o channel
      <3>1. h = got \o channel \o <<>>  BY <1>1, <1>12 DEF Delivered
      <3> QED BY <1>25, <3>1, EmptyLast
    <2> QED BY <1>1, <1>4, <2>1 DEF Delivered
  <1>27. DownInv(Delivered, down, RNow, EndTold, CallsTold)'
    <2>2. PICK all : all = h \o w.out  OBVIOUS
    <2>3. DownInv(all, v, S, g1, c1)  BY <1>24, <2>2
    <2>4. /\ source' = source /\ Delivered' = all /\ down' = v /\ RNow' = S /\ EndTold' = g1
          /\ CallsTold' = c1
      BY <1>1, <1>4, <1>9, <1>21, <1>23, <1>26, <2>2
    <2> QED BY ONLY <2>3, <2>4 DEF DownInv
  <1>28. UpInv'
    <2>1. s.u \in UpStates  BY <1>6 DEF Delivers
    <2>2. target = "claude" /\ talk.phase' = "answering" => s.u.sent = FALSE  BY <1>6 DEF Delivers
    <2>3. target \in Announcing /\ talk.calls' > 0 => s.u.calls # <<>>  BY <1>6 DEF Delivers
    <2> QED BY <1>1, <1>4, <2>1, <2>2, <2>3 DEF UpInv, Announcing, Binary, UpStates, Finishes
  <1>29. Complete(down)' => talk.phase' # "answering"
    <2> SUFFICES ASSUME Complete(down)' PROVE talk.phase' # "answering"
      OBVIOUS
    <2>1. Complete(v)  BY <1>1, <1>4, <1>23 DEF Complete
    <2>2. Complete(down) \/ FinishIn(cs)  BY <1>17, <1>24, <2>1
    <2>3. CASE Complete(down)  BY <1>5, <1>7, <2>3
    <2>4. CASE FinishIn(cs)
      <3>1. \E i \in DOMAIN cs : cs[i].finish \in S  BY <1>15, <2>4 DEF FinishIn, Told
      <3>2. S # {}  BY <3>1
      <3> QED BY <1>9, <3>2 DEF RNow
    <2> QED BY <2>2, <2>3, <2>4
  <1>30. down'.out = <<>> /\ pending' \in Seq(Wire)'
    BY <1>4, <1>23, <1>24 DEF Wire, Frames, Chunks, Bodies, JsonStates
  <1>31. batch' = <<>>  BY <1>1, BetweenReads
  <1>32. Told(batch, RNow)' /\ Silent(batch)'
    <2>1. Told(<<>>, S) /\ Silent(<<>>)  BY TellsNothing DEF Tells
    <2> QED BY <1>9, <1>31, <2>1 DEF Told, Silent, Chunks, Contentless, CallParts, Finishes
  <1>33. DownInv(Delivered, down, RNow, EndHeard, CallsHeard)'
    <2>1. ~FinishIn(batch)' /\ ~CallIn(batch)'  BY <1>31, NothingIn DEF FinishIn, CallIn
    <2>2. EndHeard' = EndTold' /\ CallsHeard' = CallsTold'  BY <2>1 DEF EndHeard, CallsHeard, EndTold, CallsTold
    <2> QED BY <1>27, <2>2
  <1> QED BY <1>1, <1>7, <1>25, <1>28, <1>29, <1>30, <1>31, <1>32, <1>33 DEF Telling

\* What calls were told matters only to a client that asked for JSON.
LEMMA HeardAgain ==
    ASSUME NEW h, NEW d, NEW R, NEW e, NEW m, DownInv(h, d, R, e, m), source # "json", NEW n
    PROVE  DownInv(h, d, R, e, n)
  BY DEF DownInv

\* A frame of a binary read waits in the batch, and nothing has ended before it.
LEMMA DecodeTells ==
    ASSUME Telling, NEW e \in Offers, Decode(e)
    PROVE  Telling'
  <1>1. /\ pump \in {"reading", "decoding"} /\ pending = <<>> /\ Say(e) /\ target \in Binary
        /\ target' = target /\ source' = source /\ channel' = channel /\ got' = got
        /\ pending' = pending /\ down' = down /\ pump' \in {"decoding", "decoded"}
    BY DEF Decode
  <1>2. PICK f \in AsRead(e) :
               LET step == FromProvider(f, up)
               IN  /\ up' = step.u
                   /\ batch' = IF e.k = "exec" /\ source # "json" THEN <<>> ELSE batch \o step.out
    BY DEF Decode
  <1>3. PICK s : s = FromProvider(f, up)  OBVIOUS
  <1>4. up' = s.u /\ batch' = IF e.k = "exec" /\ source # "json" THEN <<>> ELSE batch \o s.out
    BY <1>2, <1>3
  <1>5. /\ TalkTyped /\ UpInv /\ DownInv(Delivered, down, RNow, EndHeard, CallsHeard)
        /\ down.out = <<>> /\ Told(batch, RNow)
        /\ Complete(down) => talk.phase # "answering"
    BY <1>1 DEF Telling
  <1>6. Happens(f)  BY <1>1, <1>2, <1>5, ReadHappens
  <1>7. Delivers(s)  BY <1>1, <1>3, <1>5, <1>6, EveryEventDelivers
  <1>8. talk.phase = "answering"
    <2>1. ~After(f)  BY <1>1 DEF After, Binary
    <2> QED BY <1>6, <2>1 DEF Happens
  <1>9. PICK R : R = RNow'  OBVIOUS
  <1>10. ~Complete(down) /\ RNow = {}  BY <1>5, <1>8 DEF RNow
  <1>11. PICK b, x, y : b = batch' /\ x = batch /\ y = s.out  OBVIOUS
  <1>12. Told(x, {}) /\ Told(y, R)  BY <1>5, <1>7, <1>9, <1>10, <1>11 DEF Delivers
  <1>13. \A i \in DOMAIN x : x[i].finish = "none"  BY <1>12 DEF Told
  <1>14. PICK g, n, m : g = FinishIn(y) /\ n = CallIn(y) /\ m = CallIn(x)  OBVIOUS
  <1>15q. PICK f0, q : f0 = FALSE /\ q = FALSE  OBVIOUS
  <1>15. Tells(x, R, f0, m, q)  BY <1>12, <1>13, <1>14, <1>15q DEF Tells, Told
  <1>16. Tells(y, R, g, n, q)  BY <1>12, <1>14, <1>15q DEF Tells
  <1>17. PICK z : z = x \o y  OBVIOUS
  <1>18. Tells(z, R, g, m \/ n, q /\ q)
    <2>1. Tells(x \o y, R, g, m \/ n, q /\ q)
      BY ONLY <1>13, <1>15, <1>16, TellsJoined
    <2> QED BY <1>17, <2>1
  <1>19. Told(b, R)
    <2>1. Told(<<>>, R)  BY TellsNothing DEF Tells
    <2>2. Told(z, R)  BY <1>18 DEF Tells
    <2> QED BY <1>4, <1>11, <1>17, <2>1, <2>2
  <1>20. ~FinishIn(x)  BY <1>13 DEF FinishIn
  <1>21. talk.calls \in Nat /\ talk.calls' \in Nat /\ talk.calls' >= talk.calls
    BY <1>5, <1>6 DEF Happens, TalkTyped
  <1>22. PICK h, g1, c1, g2, c2 :
               /\ h = Delivered /\ g1 = EndHeard /\ c1 = CallsHeard
               /\ g2 = (EndTold' /\ ~FinishIn(b)) /\ c2 = (CallsTold' /\ ~CallIn(b))
    OBVIOUS
  <1>23. g2 => g1
    <2> SUFFICES ASSUME EndTold', ~FinishIn(b) PROVE EndHeard
      BY <1>22
    <2>1. target = "kiro" /\ s.u.sent = TRUE
      BY <1>1, <1>4 DEF EndTold, Binary
    <2>2. b = z
      <3>1. e.k # "exec"
        <4>1. Plain(e, {"text", "thought", "call", "stop", "error"})
          BY <1>5, <1>8, <2>1, OffersAre DEF Shaped
        <4> QED BY <4>1 DEF Plain
      <3> QED BY <1>4, <1>11, <1>17, <3>1
    <2>3. ~FinishIn(y)  BY <1>14, <1>18, <2>2 DEF Tells
    <2>4. up.sent = TRUE  BY <1>7, <1>11, <2>1, <2>3 DEF Delivers
    <2> QED BY <1>11, <1>20, <2>1, <2>4 DEF EndHeard, EndTold
  <1>24. ASSUME b = z PROVE c2 => c1
    <2> SUFFICES ASSUME CallsTold', ~CallIn(b) PROVE CallsHeard
      BY <1>22
    <2>1. ~CallIn(x) /\ ~CallIn(y)  BY <1>14, <1>18, <1>24 DEF Tells
    <2>2. target \in Announcing /\ talk.calls' > 0  BY <1>1 DEF CallsTold, Announcing, Binary
    <2>3. ~(talk.calls' > talk.calls)  BY <1>7, <1>11, <2>1, <2>2 DEF Delivers
    <2>4. talk.calls > 0  BY <1>21, <2>2, <2>3
    <2> QED BY <1>11, <2>1, <2>2, <2>4 DEF CallsHeard, CallsTold
  <1>25. DownInv(h, down, R, g2, c2)
    <2>1. DownInv(h, down, {}, g1, c1)  BY <1>5, <1>10, <1>22
    <2>2. {} \subseteq R  OBVIOUS
    <2>3. CASE source = "json"
      <3>1. b = z  BY <1>4, <1>11, <1>17, <2>3
      <3>2. c2 => c1  BY <1>24, <3>1
      <3> QED BY <1>23, <2>1, <2>2, <3>2, Weaken
    <2>4. CASE source # "json"
      <3>1. DownInv(h, down, {}, g1, c2)  BY <2>1, <2>4, HeardAgain
      <3> QED BY <1>23, <2>2, <3>1, Weaken
    <2> QED BY <2>3, <2>4
  <1>26. Delivered' = h  BY <1>1, <1>22 DEF Delivered
  <1>27. DownInv(Delivered, down, RNow, EndHeard, CallsHeard)'
    <2>1. EndHeard' = g2 /\ CallsHeard' = c2
      BY <1>11, <1>22 DEF EndHeard, CallsHeard, FinishIn, CallIn
    <2>2. source' = source /\ down' = down /\ RNow' = R  BY <1>1, <1>9
    <2> QED BY ONLY <1>25, <1>26, <2>1, <2>2 DEF DownInv
  <1>28. UpInv'
    <2>1. s.u \in UpStates  BY <1>7 DEF Delivers
    <2>2. target = "claude" /\ talk.phase' = "answering" => s.u.sent = FALSE  BY <1>7 DEF Delivers
    <2>3. target \in Announcing /\ talk.calls' > 0 => s.u.calls # <<>>  BY <1>7 DEF Delivers
    <2> QED BY <1>1, <1>4, <2>1, <2>2, <2>3 DEF UpInv, Announcing, Binary, UpStates, Finishes
  <1>29. ~Complete(down)'  BY <1>1, <1>10 DEF Complete
  <1>30. Told(batch, RNow)'
    BY <1>9, <1>11, <1>19 DEF Told, Chunks, Contentless, CallParts, Finishes
  <1>31. got' \in Seq(Wire)' /\ channel' \in Seq(Wire)' /\ pending' \in Seq(Wire)'
    BY <1>1 DEF Telling, Wire, Frames, Chunks, Bodies, JsonStates
  <1>32. TalkTyped'  BY <1>6 DEF Happens
  <1> QED BY <1>1, <1>5, <1>27, <1>28, <1>29, <1>30, <1>31, <1>32 DEF Telling

\* The batch is handed over as one answer of the translation.
LEMMA HandOverTells ==
    ASSUME Telling, HandOver
    PROVE  Telling'
  <1>1. /\ pump \in {"decoding", "decoded"} /\ pump' \in {"closing", "reading"} /\ batch' = <<>>
        /\ target' = target /\ source' = source /\ channel' = channel /\ got' = got
        /\ up' = up /\ said' = said /\ talk' = talk
    BY DEF HandOver
  <1>2. PICK w : w = ToClient(down, batch)  OBVIOUS
  <1>3. pending' = w.out /\ down' = [w EXCEPT !.out = <<>>]  BY <1>2 DEF HandOver
  <1>4. /\ TalkTyped /\ UpInv /\ DownInv(Delivered, down, RNow, EndHeard, CallsHeard)
        /\ Told(batch, RNow) /\ (Complete(down) => talk.phase # "answering" /\ Silent(batch))
        /\ got \in Seq(Wire) /\ channel \in Seq(Wire)
    BY <1>1 DEF Telling
  <1>5. PICK h, cs, R, e, m : /\ h = Delivered /\ cs = batch /\ R = RNow /\ e = EndHeard
                              /\ m = CallsHeard
    OBVIOUS
  <1>6. DownInv(h, down, R, e, m) /\ Told(cs, R) /\ (Complete(down) => Silent(cs))
    BY <1>4, <1>5
  <1>7. w = ToClient(down, cs)  BY <1>2, <1>5
  <1>8. /\ DownInv(h, w, R, e \/ FinishIn(cs), m \/ CallIn(cs))
        /\ Complete(w) => Complete(down) \/ FinishIn(cs)
    BY ONLY <1>6, <1>7, ToClientKeeps
  <1>9. PICK g, c : g = EndTold /\ c = CallsTold  OBVIOUS
  <1>10. (g => e \/ FinishIn(cs)) /\ (c => m \/ CallIn(cs))
    BY <1>5, <1>9 DEF EndHeard, CallsHeard
  <1>11. DownInv(h, w, R, g, c)
    <2>1. PICK g1, c1 : g1 = (e \/ FinishIn(cs)) /\ c1 = (m \/ CallIn(cs))  OBVIOUS
    <2>2. DownInv(h, w, R, g1, c1) /\ (g => g1) /\ (c => c1)  BY <1>8, <1>10, <2>1
    <2>3. R \subseteq R  OBVIOUS
    <2> QED BY <2>2, <2>3, Weaken
  <1>12. PICK v : v = [w EXCEPT !.out = <<>>]  OBVIOUS
  <1>13. /\ DownInv(h \o w.out, v, R, g, c) /\ v.out = <<>> /\ w.out \in Seq(Wire)
         /\ Complete(v) => Complete(w)
    BY <1>11, <1>12, OutDelivered
  <1>14. PICK p : p = pending  OBVIOUS
  <1>15. pending = <<>> => Delivered' = h \o w.out
    <2> SUFFICES ASSUME pending = <<>> PROVE Delivered' = h \o w.out
      OBVIOUS
    <2>1. h = got \o channel
      <3>1. h = got \o channel \o <<>>  BY <1>5 DEF Delivered
      <3> QED BY <1>4, <3>1, EmptyLast
    <2> QED BY <1>1, <1>3, <2>1 DEF Delivered
  <1>16. pending = <<>>  BY <1>1 DEF Telling
  <1>17. EndTold' = g /\ CallsTold' = c /\ RNow' = R
    BY <1>1, <1>5, <1>9 DEF RNow, Allowed, Reasons, EndTold, CallsTold, Announcing, Binary, Unfinishing
  <1>18. DownInv(Delivered, down, RNow, EndHeard, CallsHeard)'
    <2>1. ~FinishIn(batch)' /\ ~CallIn(batch)'  BY <1>1, NothingIn DEF FinishIn, CallIn
    <2>2. EndHeard' = g /\ CallsHeard' = c  
      BY <1>9, <1>17, <2>1 DEF EndHeard, CallsHeard, EndTold, CallsTold
    <2>3. PICK all : all = h \o w.out  OBVIOUS
    <2>4. DownInv(all, v, R, g, c)  BY <1>13, <2>3
    <2>5. source' = source /\ Delivered' = all /\ down' = v  BY <1>1, <1>3, <1>12, <1>15, <1>16, <2>3
    <2> QED BY ONLY <1>17, <2>2, <2>4, <2>5 DEF DownInv
  <1>19. UpInv'
    BY <1>1, <1>4 DEF UpInv, UpStates, Announcing, Binary, Finishes
  <1>20. Complete(down)' => talk.phase' # "answering"
    <2> SUFFICES ASSUME Complete(down)' PROVE talk.phase' # "answering"
      OBVIOUS
    <2>1. Complete(v)  BY <1>1, <1>3, <1>12 DEF Complete
    <2>2. Complete(down) \/ FinishIn(cs)  BY <1>8, <1>13, <2>1
    <2>3. CASE Complete(down)  BY <1>1, <1>4, <2>3
    <2>4. CASE FinishIn(cs)
      <3>1. R # {}  BY <1>6, <2>4 DEF FinishIn, Told
      <3> QED BY <1>1, <1>5, <3>1 DEF RNow
    <2> QED BY <2>2, <2>3, <2>4
  <1>21. Told(batch, RNow)' /\ Silent(batch)'
    <2>1. Told(<<>>, R) /\ Silent(<<>>)  BY TellsNothing DEF Tells
    <2> QED BY <1>1, <1>17, <2>1 DEF Told, Silent, Chunks, Contentless, CallParts, Finishes
  <1>22. down'.out = <<>> /\ pending' \in Seq(Wire)' /\ got' \in Seq(Wire)' /\ channel' \in Seq(Wire)'
    BY <1>1, <1>3, <1>4, <1>12, <1>13 DEF Wire, Frames, Chunks, Bodies, JsonStates
  <1>23. TalkTyped'  BY <1>1, <1>4 DEF TalkTyped, CallIds, Phases
  <1> QED BY <1>1, <1>18, <1>19, <1>20, <1>21, <1>22, <1>23 DEF Telling

\* Nothing is lost or added when frames only move on, or the end of the body is noticed.
LEMMA MovesTell ==
    ASSUME Telling, pump' = pump \/ (pump # "over" /\ pump' # "over"),
           UNCHANGED <<target, source, up, down, batch, said, talk>>,
           IF pump' \in {"decoding", "decoded"} THEN pending' = <<>> ELSE batch' = <<>>,
           Delivered' = Delivered, got' \in Seq(Wire), channel' \in Seq(Wire), pending' \in Seq(Wire)
    PROVE  Telling'
  <1>1. /\ target' = target /\ source' = source /\ up' = up /\ down' = down
        /\ batch' = batch /\ said' = said /\ talk' = talk
    OBVIOUS
  <1>2. TalkTyped'  BY <1>1 DEF Telling, TalkTyped, CallIds, Phases
  <1>3. PICK a, r, e, m, e1, m1 : /\ a = Delivered /\ r = RNow /\ e = EndTold /\ m = CallsTold
                                  /\ e1 = EndHeard /\ m1 = CallsHeard
    OBVIOUS
  <1>4. Delivered' = a /\ RNow' = r /\ EndTold' = e /\ CallsTold' = m
    BY <1>1, <1>3 DEF RNow, Allowed, Reasons, EndTold, CallsTold, Announcing, Binary, Unfinishing
  <1>4b. EndHeard' = e1 /\ CallsHeard' = m1
    <2>1. FinishIn(batch)' = FinishIn(batch) /\ CallIn(batch)' = CallIn(batch)
      BY <1>1 DEF FinishIn, CallIn
    <2> QED BY <1>3, <1>4, <2>1 DEF EndHeard, CallsHeard
  <1>5. Wire' = Wire  BY DEF Wire, Frames, Chunks, Bodies, JsonStates
  <1>6. CASE pump # "over"
    <2>1. UpInv'
      BY <1>1, <1>6 DEF Telling, UpInv, UpStates, Announcing, Binary, Finishes
    <2>2. DownInv(a, down, r, e1, m1)  BY <1>3, <1>6 DEF Telling
    <2>3. DownInv(Delivered, down, RNow, EndHeard, CallsHeard)'
      BY ONLY <1>1, <1>4, <1>4b, <2>2 DEF DownInv
    <2>4. /\ down.out = <<>> /\ Told(batch, r)
          /\ Complete(down) => talk.phase # "answering" /\ Silent(batch)
      BY <1>3, <1>6 DEF Telling
    <2>5. Told(batch, RNow)' /\ (Silent(batch) => Silent(batch)')
      BY <1>1, <1>4, <2>4 DEF Told, Silent, Chunks, Contentless, CallParts, Finishes
    <2>6. Complete(down)' => talk'.phase # "answering" /\ Silent(batch)'
      BY <1>1, <2>4, <2>5 DEF Complete
    <2> QED BY <1>1, <1>2, <1>5, <1>6, <2>1, <2>3, <2>4, <2>5, <2>6 DEF Telling
  <1>7. CASE pump = "over"
    <2>1. AllTold(a)  BY <1>3, <1>7 DEF Telling
    <2>2. Allowed' = Allowed /\ Finished' = Finished /\ Done' = Done
      BY <1>1 DEF Allowed, Reasons, Finished, Announcing, Binary, Unfinishing, Done, Frame
    <2>3. PICK A, f, x : A = Allowed /\ f = Finished /\ x = Done  OBVIOUS
    <2>4. AllTold(Delivered)'
      <3>1. CASE source = "claude"
        <4>1. \E h : a = Append(h, x) /\ ClaudeSound(h, A, f)  BY <2>1, <2>3, <3>1 DEF AllTold
        <4> QED BY ONLY <1>1, <1>4, <2>2, <2>3, <3>1, <4>1 DEF AllTold
      <3>2. CASE source = "responses"
        <4>1. \E h : a = Append(h, x) /\ ResponseSound(h) /\ (h = <<>> \/ ~Going(h))
          BY <2>1, <2>3, <3>2 DEF AllTold
        <4> QED BY ONLY <1>1, <1>4, <2>2, <2>3, <3>2, <4>1 DEF AllTold
      <3>3. CASE source = "json"
        <4>1. \E j : a = <<JsonBody(j)>> /\ JsonInv(j, A, m)  BY <1>3, <2>1, <2>3, <3>3 DEF AllTold
        <4> QED BY ONLY <1>1, <1>4, <2>2, <2>3, <3>3, <4>1 DEF AllTold
      <3>4. CASE source \notin {"claude", "responses", "json"}
        <4>1. \E h : a = Append(h, x) /\ ChunksSound(h, A, f)  BY <2>1, <2>3, <3>4 DEF AllTold
        <4> QED BY ONLY <1>1, <1>4, <2>2, <2>3, <3>4, <4>1 DEF AllTold
      <3> QED BY <3>1, <3>2, <3>3, <3>4
    <2> QED BY <1>2, <1>5, <1>7, <2>4 DEF Telling
  <1> QED BY <1>6, <1>7

\* The end of the loop establishes what the client of a whole stream is told.
LEMMA CloseTells ==
    ASSUME Telling, Close
    PROVE  Telling'
  <1>1. /\ pump = "closing" /\ pending = <<>> /\ pump' = "over"
        /\ target' = target /\ source' = source /\ channel' = channel /\ got' = got
        /\ said' = said /\ talk' = talk
    BY DEF Close
  <1>2. PICK s : s = Finalize(up)  OBVIOUS
  <1>3. PICK w : w = ToClient(down, s.out)  OBVIOUS
  <1>4. pending' = Terminate(w)  BY <1>2, <1>3 DEF Close
  <1>5. /\ TalkTyped /\ UpInv /\ DownInv(Delivered, down, RNow, EndTold, CallsTold)
        /\ got \in Seq(Wire) /\ channel \in Seq(Wire) /\ batch' = <<>>
    BY <1>1, BetweenReads DEF Telling, Close
  <1>6. /\ Told(s.out, Allowed) /\ Silent(s.out)
        /\ target \in Unfinishing /\ source # "json" => FinishIn(s.out)
        /\ target = "cursor" => FinishIn(s.out)
        /\ target = "kiro" /\ ~up.sent => FinishIn(s.out)
    BY <1>2, <1>5, FinalizeTells
  <1>7. PICK h, R, e, m : h = Delivered /\ R = Allowed /\ e = EndTold /\ m = CallsTold  OBVIOUS
  <1>8. DownInv(h, down, R, e, m)
    <2>1. PICK S : S = RNow  OBVIOUS
    <2>2. S \subseteq R  BY <1>7, <2>1 DEF RNow
    <2> QED BY <1>5, <1>7, <2>1, <2>2, Weaken
  <1>9. PICK cs : cs = s.out  OBVIOUS
  <1>10. Told(cs, R) /\ Silent(cs)  BY <1>6, <1>7, <1>9
  <1>11. DownInv(h, w, R, e \/ FinishIn(cs), m \/ CallIn(cs))
    BY ONLY <1>3, <1>8, <1>9, <1>10, ToClientKeeps
  <1>12. PICK f : f = Finished  OBVIOUS
  <1>13. source # "json" /\ f => e \/ FinishIn(cs)
    <2> SUFFICES ASSUME source # "json", Finished PROVE EndTold \/ FinishIn(cs)
      BY <1>7, <1>12
    <2>1. CASE target \in Unfinishing  BY <1>6, <1>9, <2>1
    <2>2. CASE target \in Binary
      <3>1. up.sent \in BOOLEAN  BY <1>5 DEF UpInv, UpStates
      <3> QED BY <1>6, <1>9, <2>2, <3>1 DEF Binary, EndTold
    <2>3. CASE target \notin Binary \cup Unfinishing
      BY <2>3 DEF Finished, EndTold
    <2> QED BY <2>1, <2>2, <2>3
  <1>14. Delivered' = h \o Terminate(w)
    <2>1. h = got \o channel
      <3>1. h = got \o channel \o <<>>  BY <1>1, <1>7 DEF Delivered
      <3> QED BY <1>5, <3>1, EmptyLast
    <2> QED BY <1>1, <1>4, <2>1 DEF Delivered
  <1>15. Allowed' = R /\ Finished' = f /\ CallsTold' = m /\ TalkTyped'
    BY <1>1, <1>5, <1>7, <1>12
    DEF Allowed, Reasons, Finished, CallsTold, Announcing, Binary, Unfinishing, TalkTyped, CallIds, Phases
  <1>16. Done \in Frames
    BY Literals DEF Done, Frame, Frames
  <1>17. AllTold(Delivered)' /\ pending' \in Seq(Wire)
    <2>p. PICK all : all = Delivered'  OBVIOUS
    <2>1. CASE source = "claude"
      <3>1. h \in Seq(Frames) /\ ClaudeInv(h, w, R, e \/ FinishIn(cs))
        BY <1>11, <2>1 DEF DownInv
      <3>2. PICK o : o = w.out  OBVIOUS
      <3>3. o \in Seq(Frames)  BY <3>1, <3>2 DEF ClaudeInv, ClaudeStates
      <3>4. Terminate(w) = Append(o, Done)  BY <2>1, <3>2 DEF Terminate
      <3>5. all = Append(h \o o, Done) /\ Append(o, Done) \in Seq(Frames)
        BY <1>14, <1>16, <2>p, <3>1, <3>3, <3>4, ConcatAppend
      <3>6. ClaudeSound(h \o o, R, f)
        BY <1>13, <2>1, <3>1, <3>2 DEF ClaudeInv, ClaudeSound
      <3>7. PICK t : t = h \o o  OBVIOUS
      <3>8. all = Append(t, Done) /\ ClaudeSound(t, R, f)  BY <3>5, <3>6, <3>7
      <3>9. pending' \in Seq(Wire)  BY <1>4, <3>4, <3>5 DEF Wire
      <3>10. Done' = Done  BY DEF Done, Frame
      <3>11. AllTold(Delivered)'
        BY ONLY <1>1, <1>15, <2>1, <2>p, <3>8, <3>10 DEF AllTold
      <3> QED BY <3>9, <3>11
    <2>2. CASE source = "responses"
      <3>1. h \in Seq(Frames) /\ ResponseInv(h, w)  BY <1>11, <2>2 DEF DownInv
      <3>2. PICK d : d = ResponsesFlush(w)  OBVIOUS
      <3>3. ResponseInv(h, d) /\ (d.completed \/ h \o d.out = <<>>)
        BY <3>1, <3>2, FlushKeeps
      <3>4. PICK o : o = d.out  OBVIOUS
      <3>5. o \in Seq(Frames)  BY <3>3, <3>4 DEF ResponseInv, ResponseStates
      <3>6. Terminate(w) = Append(o, Done)  BY <2>2, <3>2, <3>4 DEF Terminate
      <3>7. all = Append(h \o o, Done) /\ Append(o, Done) \in Seq(Frames)
        BY <1>14, <1>16, <2>p, <3>1, <3>5, <3>6, ConcatAppend
      <3>8. PICK t : t = h \o o  OBVIOUS
      <3>9. ResponseSound(t) /\ (t = <<>> \/ ~Going(t))
        BY <3>3, <3>4, <3>8 DEF ResponseInv, Knowing
      <3>10. all = Append(t, Done)  BY <3>7, <3>8
      <3>11. pending' \in Seq(Wire)  BY <1>4, <3>6, <3>7 DEF Wire
      <3>12. Done' = Done  BY DEF Done, Frame
      <3>13. AllTold(Delivered)'
        BY ONLY <1>1, <2>2, <2>p, <3>9, <3>10, <3>12 DEF AllTold
      <3> QED BY <3>11, <3>13
    <2>3. CASE source = "json"
      <3>1. h = <<>> /\ JsonInv(w, R, m \/ CallIn(cs))  BY <1>11, <2>3 DEF DownInv
      <3>2. JsonInv(w, R, m)  BY <3>1 DEF JsonInv
      <3>3. Terminate(w) = <<JsonBody(w)>>  BY <2>3 DEF Terminate
      <3>4. PICK b : b = <<JsonBody(w)>>  OBVIOUS
      <3>5. JsonBody(w) \in Wire  BY <3>2 DEF JsonInv, Wire, Bodies
      <3>6. b \in Seq(Wire)  BY <3>4, <3>5
      <3>7. all = b  BY <1>14, <2>p, <3>1, <3>3, <3>4, <3>6
      <3>8. pending' \in Seq(Wire)  BY <1>4, <3>3, <3>4, <3>6
      <3>9. AllTold(Delivered)'
        BY ONLY <1>1, <1>15, <2>3, <2>p, <3>2, <3>4, <3>7 DEF AllTold
      <3> QED BY <3>8, <3>9
    <2>4. CASE source \notin {"claude", "responses", "json"}
      <3>1. /\ h \in Seq(Chunks) /\ w \in OpenStates
            /\ ChunksSound(h \o w.out, R, e \/ FinishIn(cs))
        BY <1>11, <2>4 DEF DownInv
      <3>2. PICK o : o = w.out  OBVIOUS
      <3>3. o \in Seq(Chunks)  BY <3>1, <3>2 DEF OpenStates
      <3>4. Terminate(w) = Append(o, Done)  BY <2>4, <3>2 DEF Terminate
      <3>5. PICK X : X = Chunks \cup Frames  OBVIOUS
      <3>5a. h \in Seq(X) /\ o \in Seq(X) /\ Done \in X  BY <1>16, <3>1, <3>3, <3>5
      <3>6. all = Append(h \o o, Done) /\ Append(o, Done) \in Seq(X)
        BY <1>14, <2>p, <3>4, <3>5a, ConcatAppend
      <3>7. ChunksSound(h \o o, R, f)  BY <1>13, <2>4, <3>1, <3>2 DEF ChunksSound
      <3>8. PICK t : t = h \o o  OBVIOUS
      <3>9. all = Append(t, Done) /\ ChunksSound(t, R, f)  BY <3>6, <3>7, <3>8
      <3>10. pending' \in Seq(Wire)
        <4>1. Append(o, Done) \in Seq(Wire)  BY <3>5, <3>6 DEF Wire
        <4> QED BY <1>4, <3>4, <4>1
      <3>11. Done' = Done  BY DEF Done, Frame
      <3>12. AllTold(Delivered)'
        BY ONLY <1>1, <1>15, <2>4, <2>p, <3>9, <3>11 DEF AllTold
      <3> QED BY <3>10, <3>12
    <2> QED BY <2>1, <2>2, <2>3, <2>4
  <1>18. Wire' = Wire  BY DEF Wire, Frames, Chunks, Bodies, JsonStates
  <1> QED BY <1>1, <1>5, <1>15, <1>17, <1>18 DEF Telling

\* A frame sent is the same frame, in the channel instead of before it.
LEMMA SendKept ==
    ASSUME NEW X, NEW g \in Seq(X), NEW c \in Seq(X), NEW p \in Seq(X), p # <<>>
    PROVE  /\ g \o Append(c, Head(p)) \o Tail(p) = g \o c \o p
           /\ Append(c, Head(p)) \in Seq(X) /\ Tail(p) \in Seq(X)
  <1>0. g \in Seq(X) /\ c \in Seq(X) /\ p \in Seq(X)  OBVIOUS
  <1>1. Head(p) \in X /\ Tail(p) \in Seq(X)  BY HeadTailProperties
  <1>2. p = <<Head(p)>> \o Tail(p)  BY HeadTailProperties
  <1>3. PICK f, t : f = Head(p) /\ t = Tail(p)  OBVIOUS
  <1>4. f \in X /\ t \in Seq(X) /\ p = <<f>> \o t /\ <<f>> \in Seq(X)  BY <1>1, <1>2, <1>3
  <1>5. Append(c, f) = c \o <<f>>  BY <1>4, AppendIsConcat
  <1>6. PICK one \in Seq(X) : one = <<f>>  BY <1>4
  <1>7. (g \o (c \o one)) \o t = g \o ((c \o one) \o t)
    BY ONLY <1>0, <1>4, <1>6, ConcatAssociative, ConcatProperties
  <1>8. (c \o one) \o t = c \o (one \o t)  BY <1>4, <1>6, ConcatAssociative
  <1>9. g \o (c \o p) = (g \o c) \o p  BY ONLY <1>0, ConcatAssociative, SMTT(40)
  <1>10. PICK k : k = Append(c, f)  OBVIOUS
  <1>11. k = c \o one /\ k \in Seq(X)  BY <1>4, <1>5, <1>6, <1>10
  <1>12. (g \o k) \o t = g \o (k \o t)  BY <1>7, <1>11
  <1>13. k \o t = c \o p  BY <1>4, <1>6, <1>8, <1>11
  <1>14. (g \o k) \o t = (g \o c) \o p  BY <1>9, <1>12, <1>13
  <1> QED BY <1>3, <1>4, <1>10, <1>11, <1>14

\* What appending a frame leaves as it was, and which is last.
LEMMA LastAppended ==
    ASSUME NEW X, NEW h \in Seq(X), NEW f
    PROVE  LET n == Len(h)  s == Append(h, f)
           IN  /\ n \in Nat /\ Len(s) = n + 1 /\ DOMAIN s = 1..(n + 1) /\ DOMAIN h = 1..n
               /\ s[n + 1] = f /\ (\A i \in 1..n : s[i] = h[i]) /\ Last(s) = f
  <1>0. PICK n, s : n = Len(h) /\ s = Append(h, f)  OBVIOUS
  <1>1. PICK Y : Y = X \cup {f}  OBVIOUS
  <1>2. h \in Seq(Y) /\ f \in Y  BY <1>1
  <1>3. n = Len(h)  BY <1>0
  <1>4. /\ n \in Nat /\ Len(s) = n + 1 /\ DOMAIN s = 1..(n + 1) /\ DOMAIN h = 1..n
        /\ s[n + 1] = f /\ \A i \in 1..n : s[i] = h[i]
    BY <1>0, <1>2
  <1>5. Last(s) = f  BY <1>4 DEF Last
  <1> QED BY <1>0, <1>4, <1>5

\* Every step keeps the invariant.
LEMMA StepTells ==
    ASSUME StreamInv, [Next]_vars
    PROVE  StreamInv'
  <1> SUFFICES ASSUME client' = "there" PROVE Telling'
    BY DEF StreamInv
  <1>1. ASSUME NEW e \in Offers, Read(e) PROVE Telling'
    <2>1. client' = client  BY <1>1 DEF Read
    <2> QED BY <1>1, <2>1, ReadTells DEF StreamInv
  <1>8. ASSUME NEW e \in Offers, Decode(e) PROVE Telling'
    <2>1. client' = client  BY <1>8 DEF Decode
    <2> QED BY <1>8, <2>1, DecodeTells DEF StreamInv
  <1>9. ASSUME HandOver PROVE Telling'
    <2>1. client' = client  BY <1>9 DEF HandOver
    <2> QED BY <1>9, <2>1, HandOverTells DEF StreamInv
  <1>2. ASSUME EndOfBody PROVE Telling'
    <2>1. /\ client' = client /\ pump = "reading" /\ pump' = "closing"
          /\ UNCHANGED <<target, source, up, down, batch, said, talk>>
          /\ got' = got /\ channel' = channel /\ pending' = pending
      BY <1>2 DEF EndOfBody
    <2>2. Telling  BY <2>1 DEF StreamInv
    <2>3. Delivered' = Delivered  BY <2>1 DEF Delivered
    <2>4. IF pump' \in {"decoding", "decoded"} THEN pending' = <<>> ELSE batch' = <<>>
      BY <2>1, <2>2 DEF Telling
    <2> QED BY <2>1, <2>2, <2>3, <2>4, MovesTell DEF Telling
  <1>3. ASSUME Close PROVE Telling'
    <2>1. client' = client  BY <1>3 DEF Close
    <2> QED BY <1>3, <2>1, CloseTells DEF StreamInv
  <1>4. ASSUME Send PROVE Telling'
    <2>1. client = "there"  BY <1>4 DEF Send
    <2>2. /\ pending # <<>> /\ pump' = pump /\ got' = got
          /\ channel' = Append(channel, Head(pending)) /\ pending' = Tail(pending)
          /\ UNCHANGED <<target, source, up, down, batch, said, talk>>
      BY <1>4, <2>1 DEF Send
    <2>3. Telling  BY <2>1 DEF StreamInv
    <2>4. got \in Seq(Wire) /\ channel \in Seq(Wire) /\ pending \in Seq(Wire)
      BY <2>3 DEF Telling
    <2>5. PICK X : X = Wire  OBVIOUS
    <2>6. /\ got \o Append(channel, Head(pending)) \o Tail(pending) = got \o channel \o pending
          /\ Append(channel, Head(pending)) \in Seq(X) /\ Tail(pending) \in Seq(X)
      <3>1. PICK g, c, p : g = got /\ c = channel /\ p = pending  OBVIOUS
      <3>2. g \in Seq(X) /\ c \in Seq(X) /\ p \in Seq(X) /\ p # <<>>  BY <2>2, <2>4, <2>5, <3>1
      <3>3. /\ g \o Append(c, Head(p)) \o Tail(p) = g \o c \o p
            /\ Append(c, Head(p)) \in Seq(X) /\ Tail(p) \in Seq(X)
        BY ONLY <3>2, SendKept, SMTT(40)
      <3> QED BY <3>1, <3>3
    <2>7. Delivered' = Delivered  BY <2>2, <2>6 DEF Delivered
    <2>8. got' \in Seq(Wire) /\ channel' \in Seq(Wire) /\ pending' \in Seq(Wire)
      BY <2>2, <2>4, <2>5, <2>6
    <2>9. IF pump' \in {"decoding", "decoded"} THEN pending' = <<>> ELSE batch' = <<>>
      BY <2>2, <2>3 DEF Telling
    <2> QED BY <2>2, <2>3, <2>7, <2>8, <2>9, MovesTell
  <1>5. ASSUME Receive PROVE Telling'
    <2>1. /\ client = "there" /\ got' = got \o channel /\ channel' = <<>> /\ pending' = pending
          /\ pump' = pump /\ UNCHANGED <<target, source, up, down, batch, said, talk>>
      BY <1>5 DEF Receive
    <2>2. Telling  BY <2>1 DEF StreamInv
    <2>3. got \in Seq(Wire) /\ channel \in Seq(Wire) /\ pending \in Seq(Wire)
      BY <2>2 DEF Telling
    <2>4. PICK X : X = Wire  OBVIOUS
    <2>5. (got \o channel) \o <<>> \o pending = got \o channel \o pending /\ got \o channel \in Seq(X)
      BY <2>3, <2>4, EmptyLast
    <2>6. Delivered' = Delivered  BY <2>1, <2>5 DEF Delivered
    <2>7. got' \in Seq(Wire) /\ channel' \in Seq(Wire) /\ pending' \in Seq(Wire)
      BY <2>1, <2>3, <2>4, <2>5
    <2>8. IF pump' \in {"decoding", "decoded"} THEN pending' = <<>> ELSE batch' = <<>>
      BY <2>1, <2>2 DEF Telling
    <2> QED BY <2>1, <2>2, <2>6, <2>7, <2>8, MovesTell
  <1>6. ASSUME Leave PROVE Telling'
    BY <1>6 DEF Leave
  <1>7. ASSUME UNCHANGED vars PROVE Telling'
    <2>1. /\ client' = client /\ pump' = pump /\ UNCHANGED <<target, source, up, down, batch, said, talk>>
          /\ got' = got /\ channel' = channel /\ pending' = pending
      BY <1>7 DEF vars
    <2>2. Telling  BY <2>1 DEF StreamInv
    <2>3. Delivered' = Delivered  BY <2>1 DEF Delivered
    <2>4. IF pump' \in {"decoding", "decoded"} THEN pending' = <<>> ELSE batch' = <<>>
      BY <2>1, <2>2 DEF Telling
    <2> QED BY <2>1, <2>2, <2>3, <2>4, MovesTell DEF Telling
  <1> QED BY <1>1, <1>2, <1>3, <1>4, <1>5, <1>6, <1>7, <1>8, <1>9 DEF Next, Stopped

\* The invariant of the proof.
THEOREM ClientIsTold == Spec => []StreamInv
  <1>1. Init => StreamInv  BY InitTells
  <1>2. StreamInv /\ [Next]_vars => StreamInv'  BY StepTells
  <1> QED BY <1>1, <1>2, PTL DEF Spec

\* What holds of every stream, of one that its client has left too.
Typed == TypeOK /\ TalkTyped

\* Nothing is left in the client's side once the stream is closed.
LEMMA CloseEmpties ==
    ASSUME Telling, Close
    PROVE  down'.out = <<>>
  <1>1. pump = "closing"  BY DEF Close
  <1>2. PICK s : s = Finalize(up)  OBVIOUS
  <1>3. PICK w : w = ToClient(down, s.out)  OBVIOUS
  <1>4. down' = [w EXCEPT !.out = <<>>]  BY <1>2, <1>3 DEF Close
  <1>5. TalkTyped /\ UpInv /\ DownInv(Delivered, down, RNow, EndTold, CallsTold)
    BY <1>1, BetweenReads
  <1>6. PICK h, R, e, m : h = Delivered /\ R = Allowed /\ e = EndTold /\ m = CallsTold  OBVIOUS
  <1>7. DownInv(h, down, R, e, m)
    <2>1. PICK S : S = RNow  OBVIOUS
    <2>2. S \subseteq R  BY <1>6, <2>1 DEF RNow
    <2> QED BY <1>5, <1>6, <2>1, <2>2, Weaken
  <1>8. PICK cs : cs = s.out  OBVIOUS
  <1>9. Told(cs, R) /\ Silent(cs)  BY <1>2, <1>5, <1>6, <1>8, FinalizeTells
  <1>10. DownInv(h, w, R, e \/ FinishIn(cs), m \/ CallIn(cs))
    BY ONLY <1>3, <1>7, <1>8, <1>9, ToClientKeeps
  <1>11. PICK g, c : g = (e \/ FinishIn(cs)) /\ c = (m \/ CallIn(cs))  OBVIOUS
  <1>12. DownInv(h, w, R, g, c)  BY <1>10, <1>11
  <1>13. PICK v : v = [w EXCEPT !.out = <<>>]  OBVIOUS
  <1>14. v.out = <<>>  BY <1>12, <1>13, OutDelivered
  <1> QED BY <1>4, <1>13, <1>14

\* A step that leaves the conversation alone keeps what is known of it.
LEMMA TalkKept ==
    ASSUME TalkTyped, UNCHANGED <<target, said, talk>>
    PROVE  TalkTyped'
  <1>1. target' = target /\ said' = said /\ talk' = talk  OBVIOUS
  <1> QED BY <1>1 DEF TalkTyped, CallIds, Phases

\* Reading counts the event, and goes on only below the bound.
LEMMA ReadTyped ==
    ASSUME Typed, NEW e \in Offers, Say(e), target' = target
    PROVE  TalkTyped' /\ talk'.events \in 0..MaxEvents[target] /\ talk'.calls \in 0..MaxCalls
  <1>2. TalkTyped'  BY SayKeeps DEF Typed
  <1>3. talk'.events = talk.events + 1  BY DEF Say
  <1>4. talk.events # MaxEvents[target]  BY DEF Offers
  <1>5. MaxEvents[target] \in Nat  BY StreamAssumption DEF Typed, TypeOK
  <1>6. talk'.events \in 0..MaxEvents[target]  BY <1>3, <1>4, <1>5 DEF Typed, TypeOK
  <1>7. talk'.calls \in 0..MaxCalls  BY <1>2 DEF TalkTyped
  <1> QED BY <1>2, <1>6, <1>7

\* What can go wrong with an answer is one of four things.
LEMMA HarmIs ==
    ASSUME NEW e, NEW f
    PROVE  Harm(e, f) \subseteq {"torn", "dropped", "shared", "remarked"}
  BY DEF Harm

\* Every step keeps the types.
LEMMA StepTyped ==
    ASSUME Typed, StreamInv, [Next]_vars
    PROVE  Typed'
  <1>1. ASSUME NEW e \in Offers, Read(e) PROVE Typed'
    <2>1. /\ Say(e) /\ target' = target /\ source' = source /\ channel' = channel /\ batch' = batch
          /\ client' = client /\ pump = "reading" /\ pump' = "reading"
      BY <1>1 DEF Read
    <2>2. TalkTyped' /\ talk'.events \in 0..MaxEvents[target] /\ talk'.calls \in 0..MaxCalls
      BY <2>1, ReadTyped
    <2>3. \E f : marred' = marred \cup Harm(e, f)  BY <1>1 DEF Read
    <2>4. marred' \subseteq {"torn", "dropped", "shared", "remarked"}
      BY <2>3, HarmIs DEF Typed, TypeOK
    <2> QED BY <2>1, <2>2, <2>4 DEF Typed, TypeOK
  <1>8. ASSUME NEW e \in Offers, Decode(e) PROVE Typed'
    <2>1. /\ Say(e) /\ target' = target /\ source' = source /\ channel' = channel
          /\ client' = client /\ pump' \in {"decoding", "decoded"} /\ pending' = <<>>
      BY <1>8 DEF Decode
    <2>2. TalkTyped' /\ talk'.events \in 0..MaxEvents[target] /\ talk'.calls \in 0..MaxCalls
      BY <2>1, ReadTyped
    <2>3. \E f : marred' = marred \cup Harm(e, f)  BY <1>8 DEF Decode
    <2>4. marred' \subseteq {"torn", "dropped", "shared", "remarked"}
      BY <2>3, HarmIs DEF Typed, TypeOK
    <2> QED BY <2>1, <2>2, <2>4 DEF Typed, TypeOK
  <1>9. ASSUME HandOver PROVE Typed'
    <2>1. TalkTyped'  BY <1>9, TalkKept DEF HandOver, Typed
    <2>2. /\ target' = target /\ source' = source /\ channel' = channel /\ batch' = <<>>
          /\ client' = client /\ talk' = talk /\ marred' = marred
          /\ pump' \in {"reading", "closing"}
      BY <1>9 DEF HandOver
    <2> QED BY <2>1, <2>2 DEF Typed, TypeOK
  <1>2. ASSUME EndOfBody PROVE Typed'
    <2>1. TalkTyped'  BY <1>2, TalkKept DEF EndOfBody, Typed
    <2> QED BY <1>2, <2>1 DEF EndOfBody, Typed, TypeOK
  <1>3. ASSUME Close PROVE Typed'
    <2>1. TalkTyped'  BY <1>3, TalkKept DEF Close, Typed
    <2>2. client = "there" => down'.out = <<>>  BY <1>3, CloseEmpties DEF StreamInv
    <2>3. /\ target' = target /\ source' = source /\ pump' = "over" /\ channel' = channel
          /\ client' = client /\ talk' = talk /\ marred' = marred /\ batch' = batch
          /\ pump = "closing"
      BY <1>3 DEF Close
    <2> QED BY <2>1, <2>2, <2>3 DEF Typed, TypeOK
  <1>4. ASSUME Send PROVE Typed'
    <2>1. TalkTyped'  BY <1>4, TalkKept DEF Send, Typed
    <2>2. /\ target' = target /\ source' = source /\ client' = client /\ talk' = talk /\ down' = down
          /\ marred' = marred /\ batch' = batch /\ pending # <<>>
          /\ pump' = pump \/ (pump' = "over" /\ client = "gone")
      BY <1>4 DEF Send
    <2>3. Len(channel') <= Capacity
      <3>1. CASE client = "gone"
        BY <1>4, <3>1 DEF Send, Typed, TypeOK
      <3>2. CASE client = "there"
        <4>1. channel' = Append(channel, Head(pending)) /\ Len(channel) < Capacity
              /\ pending # <<>>
          BY <1>4, <3>2 DEF Send
        <4>2. channel \in Seq(Wire)  BY <3>2 DEF StreamInv, Telling
        <4>3. PICK X, f : X = Wire \cup {f} /\ f = Head(pending)  OBVIOUS
        <4>4. channel \in Seq(X) /\ f \in X  BY <4>2, <4>3
        <4>5. Len(channel') = Len(channel) + 1 /\ Len(channel) \in Nat  BY <4>1, <4>3, <4>4
        <4> QED BY <4>1, <4>5, StreamAssumption
      <3> QED BY <3>1, <3>2 DEF Typed, TypeOK
    <2> QED BY <2>1, <2>2, <2>3 DEF Typed, TypeOK
  <1>5. ASSUME Receive PROVE Typed'
    <2>1. TalkTyped'  BY <1>5, TalkKept DEF Receive, Typed
    <2>2. Len(<<>>) <= Capacity  BY StreamAssumption
    <2> QED BY <1>5, <2>1, <2>2 DEF Receive, Typed, TypeOK
  <1>6. ASSUME Leave PROVE Typed'
    <2>1. TalkTyped'  BY <1>6, TalkKept DEF Leave, Typed
    <2>2. Len(<<>>) <= Capacity  BY StreamAssumption
    <2> QED BY <1>6, <2>1, <2>2 DEF Leave, Typed, TypeOK
  <1>7. ASSUME UNCHANGED vars PROVE Typed'
    <2>1. TalkTyped'  BY <1>7, TalkKept DEF vars, Typed
    <2> QED BY <1>7, <2>1 DEF vars, Typed, TypeOK
  <1> QED BY <1>1, <1>2, <1>3, <1>4, <1>5, <1>6, <1>7, <1>8, <1>9 DEF Next, Stopped

\* The types: a provider keeps to its bounds, the channel to its places, and the
\* client's side holds nothing back once the stream is over.
THEOREM StreamTyped == Spec => []TypeOK
  <1>1. Init => Typed
    <2> SUFFICES ASSUME Init PROVE Typed
      OBVIOUS
    <2>1. StreamInv  BY InitTells
    <2>2. TalkTyped  BY <2>1 DEF Init, StreamInv, Telling
    <2>3. /\ talk.events = 0 /\ talk.calls = 0 /\ target \in Targets /\ pump = "reading"
          /\ batch = <<>> /\ marred = {}
      BY DEF Init
    <2>4. MaxEvents[target] \in Nat /\ MaxCalls \in Nat /\ Capacity \in Nat
      BY <2>3, StreamAssumption
    <2>5. Len(channel) = 0 /\ source \in Sources /\ client = "there"  BY DEF Init
    <2> QED BY <2>2, <2>3, <2>4, <2>5 DEF Typed, TypeOK
  <1>2. Typed /\ StreamInv /\ [Next]_vars => Typed'  BY StepTyped
  <1>3. Typed => TypeOK  BY DEF Typed
  <1> QED BY <1>1, <1>2, <1>3, ClientIsTold, PTL DEF Spec

\* What AllTold says when the stream has ended.
LEMMA WholeTold ==
    ASSUME StreamInv, Whole
    PROVE  AllTold(got) /\ TalkTyped
  <1>1. client = "there" /\ pump = "over" /\ pending = <<>> /\ channel = <<>>  BY DEF Whole, Ended
  <1>2. Telling  BY <1>1 DEF StreamInv
  <1>3. got \in Seq(Wire)  BY <1>2 DEF Telling
  <1>4. got \o <<>> \o <<>> = got  BY <1>3, EmptyLast
  <1>5. Delivered = got  BY <1>1, <1>4 DEF Delivered
  <1> QED BY <1>1, <1>2, <1>5 DEF Telling

\* What an OpenAI client is told, it can act on.
LEMMA OpenReads ==
    ASSUME StreamInv, Whole, source \notin {"claude", "responses", "json"}
    PROVE  ClientCanRead
  <1>1. PICK h : got = Append(h, Done) /\ ChunksSound(h, Allowed, Finished)
    BY WholeTold DEF AllTold
  <1>2. h \in Seq(Chunks)  BY <1>1 DEF ChunksSound
  <1>3a. PICK n, d : n = Len(h) /\ d = Done  OBVIOUS
  <1>3. /\ n \in Nat /\ Len(got) = n + 1 /\ DOMAIN got = 1..(n + 1) /\ DOMAIN h = 1..n
        /\ got[n + 1] = Done /\ (\A i \in 1..n : got[i] = h[i]) /\ Last(got) = Done
    <2>0. PICK X, s : s = got /\ X = Chunks  OBVIOUS
    <2>1. PICK h2 \in Seq(X) : h2 = h  BY <1>2, <2>0
    <2>2. h2 = h /\ s = got /\ X = Chunks /\ h2 \in Seq(X)  BY <2>0, <2>1
    <2>4. s = Append(h2, d)  BY <1>1, <1>3a, <2>2
    <2>5. n = Len(h2)  BY <1>3a, <2>2
    <2>6. /\ n \in Nat /\ Len(s) = n + 1 /\ DOMAIN s = 1..(n + 1) /\ DOMAIN h2 = 1..n
          /\ s[n + 1] = d /\ (\A i \in 1..n : s[i] = h2[i]) /\ Last(s) = d
      BY <2>4, <2>5, LastAppended
    <2>3. /\ n \in Nat /\ Len(s) = n + 1 /\ DOMAIN s = 1..(n + 1) /\ DOMAIN h = 1..n
          /\ s[n + 1] = d /\ (\A i \in 1..n : s[i] = h[i]) /\ Last(s) = d
      BY ONLY <2>2, <2>6
    <2> QED BY <1>3a, <2>2, <2>3
  <1>4. \A i \in 1..n : h[i] \in Chunks  BY <1>2, <1>3
  <1>5. Done.t = "done" /\ Done.kind = "none"  BY DEF Done, Frame
  <1>6. \A i \in 1..n : got[i].t = "chunk" /\ got[i] # Done
    BY <1>3, <1>4, <1>5 DEF Chunks
  <1>7. \A i \in 1..(n + 1) : ~Ends(got[i])
    BY <1>3, <1>5, <1>6, UpToNext DEF Ends
  <1>8. Read1 = got  BY <1>3, <1>7 DEF Read1
  <1>9. EndsProperly
    <2>1. (n + 1) - 1 = n  BY <1>3
    <2>2. source = "openai" /\ Finished => \E i \in DOMAIN got : got[i].t = "chunk" /\ got[i].finish # "none"
      <3> SUFFICES ASSUME Finished PROVE \E i \in DOMAIN got : got[i].t = "chunk" /\ got[i].finish # "none"
        OBVIOUS
      <3>1. PICK i \in 1..n : h[i].finish # "none"  BY <1>1, <1>3 DEF ChunksSound
      <3>2. i \in 1..(n + 1)  BY <1>3
      <3> QED BY <1>3, <1>6, <3>1, <3>2
    <2> QED BY <1>3, <1>6, <2>1, <2>2 DEF EndsProperly
  <1>10. CallsAreAnnounced
    <2> SUFFICES ASSUME talk.calls > 0, target \in {"gemini", "ollama"} \cup Binary, NEW i \in DOMAIN got
                 PROVE  ReasonIn(got[i]) \in {"none", "tool_calls"}
      BY <1>8 DEF CallsAreAnnounced
    <2>1. Allowed = {"tool_calls"}  BY DEF Allowed, Announcing
    <2>2. i \in 1..n \/ i = n + 1  BY <1>3, UpToNext
    <2>3. CASE i \in 1..n
      BY <1>1, <1>3, <1>6, <2>1, <2>3 DEF ReasonIn, ChunksSound
    <2>4. CASE i = n + 1
      BY <1>3, <1>5, <2>4 DEF ReasonIn
    <2> QED BY <2>2, <2>3, <2>4
  <1>11. ClientCanParse  BY DEF ClientCanParse, ClaudeClientCanParse, ResponsesClientCanParse
  <1> QED BY <1>9, <1>10, <1>11 DEF ClientCanRead

\* What a client that asked for JSON is told, it can act on.
LEMMA BodyReads ==
    ASSUME StreamInv, Whole, source = "json"
    PROVE  ClientCanRead
  <1>1. PICK j : got = <<JsonBody(j)>> /\ JsonInv(j, Allowed, CallsTold)
    BY WholeTold DEF AllTold
  <1>2. PICK b : b = JsonBody(j)  OBVIOUS
  <1>3. DOMAIN got = 1..1 /\ got[1] = b /\ Len(got) = 1  BY <1>1, <1>2
  <1>4. b.t = "body" /\ b.finish = IF j.finish # "none" THEN j.finish
                                   ELSE IF j.calls = <<>> THEN "stop" ELSE "tool_calls"
    BY <1>2 DEF JsonBody
  <1>5. \A i \in DOMAIN got : i = 1  BY <1>3
  <1>6. Read1 = got  BY <1>3, <1>4, <1>5 DEF Read1, Ends
  <1>7. CallsAreAnnounced
    <2> SUFFICES ASSUME talk.calls > 0, target \in {"gemini", "ollama"} \cup Binary
                 PROVE  ReasonIn(b) \in {"none", "tool_calls"}
      BY <1>3, <1>5, <1>6 DEF CallsAreAnnounced
    <2>1. Allowed = {"tool_calls"} /\ CallsTold  BY DEF Allowed, CallsTold, Announcing
    <2>2. b.finish = "tool_calls"  BY <1>1, <1>4, <2>1 DEF JsonInv
    <2> QED BY <1>4, <2>2 DEF ReasonIn
  <1>8. EndsProperly  BY <1>3 DEF EndsProperly
  <1>9. ClientCanParse  BY DEF ClientCanParse, ClaudeClientCanParse, ResponsesClientCanParse
  <1> QED BY <1>7, <1>8, <1>9 DEF ClientCanRead

\* A sequence with an end has a first one.
LEMMA FirstEnd ==
    ASSUME NEW s, NEW n \in Nat, DOMAIN s = 1..n, ~NoEnd(s)
    PROVE  \E k \in 1..n : Ends(s[k]) /\ \A j \in 1..(k - 1) : ~Ends(s[j])
  <1>1. PICK S : S = {i \in 1..n : Ends(s[i])}  OBVIOUS
  <1>2. PICK e \in 1..n : Ends(s[e])  BY DEF NoEnd
  <1>3. S \subseteq Nat /\ e \in S  BY <1>1, <1>2
  <1>4. PICK k \in S : \A j \in S : <<j, k>> \notin OpToRel(<, Nat)
    BY <1>3, NatLessThanWellFounded, WFMin
  <1>5. k \in 1..n /\ Ends(s[k])  BY <1>1, <1>4
  <1>6. \A j \in 1..(k - 1) : ~Ends(s[j])
    <2> SUFFICES ASSUME NEW j \in 1..(k - 1), Ends(s[j]) PROVE FALSE
      OBVIOUS
    <2>1. j \in 1..n /\ j \in Nat /\ k \in Nat /\ j < k  BY <1>5
    <2>2. j \in S  BY <1>1, <2>1
    <2>3. <<j, k>> \in OpToRel(<, Nat)  BY <2>1 DEF OpToRel
    <2> QED BY <1>4, <2>2, <2>3
  <1> QED BY <1>5, <1>6

\* What a client reads of what it got, h and the terminator: all of it up to
\* the first end.
LEMMA ReadsTo ==
    ASSUME NEW h, NEW n \in Nat, DOMAIN h = 1..n, DOMAIN got = 1..(n + 1), Len(got) = n + 1,
           got \in Seq(Wire), \A i \in 1..n : got[i] = h[i], ~Ends(got[n + 1])
    PROVE  \E m \in 1..(n + 1) :
               /\ Len(Read1) = m /\ DOMAIN Read1 = 1..m /\ \A i \in 1..m : Read1[i] = got[i]
               /\ \A j \in 1..(m - 1) : ~Ends(got[j])
               /\ ~NoEnd(h) => Ends(got[m]) /\ m \in 1..n
  <1>1. CASE NoEnd(h)
    <2>1. \A i \in DOMAIN got : ~Ends(got[i])
      <3>1. \A i \in 1..n : ~Ends(h[i])  BY <1>1 DEF NoEnd
      <3> QED BY <3>1, UpToNext
    <2>2. Read1 = got  BY <2>1 DEF Read1
    <2>3. n + 1 \in 1..(n + 1) /\ \A j \in 1..((n + 1) - 1) : j \in DOMAIN got  OBVIOUS
    <2> QED BY <1>1, <2>1, <2>2, <2>3
  <1>2. CASE ~NoEnd(h)
    <2>1. PICK e \in 1..n : Ends(h[e]) /\ \A j \in 1..(e - 1) : ~Ends(h[j])  BY <1>2, FirstEnd
    <2>2. e \in DOMAIN got /\ Ends(got[e]) /\ \A j \in 1..(e - 1) : ~Ends(got[j])
      <3>1. \A j \in 1..(e - 1) : j \in 1..n  BY <2>1
      <3> QED BY <2>1, <3>1
    <2>3. PICK m : m = CHOOSE i \in DOMAIN got : Ends(got[i]) /\ \A j \in 1..(i - 1) : ~Ends(got[j])
      OBVIOUS
    <2>4. m \in DOMAIN got /\ Ends(got[m]) /\ \A j \in 1..(m - 1) : ~Ends(got[j])
      BY <2>2, <2>3
    <2>5. Read1 = SubSeq(got, 1, m)  BY <2>2, <2>3 DEF Read1
    <2>6. m \in 1..n  BY <2>4
    <2>7. PICK r : r = SubSeq(got, 1, m)  OBVIOUS
    <2>8. Len(r) = m /\ DOMAIN r = 1..m /\ \A i \in 1..m : r[i] = got[i]
      BY <2>6, <2>7
    <2> QED BY <2>4, <2>5, <2>6, <2>7, <2>8
  <1> QED BY <1>1, <1>2

\* What a Claude client is told, it can act on.
LEMMA ClaudeReads ==
    ASSUME StreamInv, Whole, source = "claude"
    PROVE  ClientCanRead
  <1>1. PICK h : got = Append(h, Done) /\ ClaudeSound(h, Allowed, Finished)
    BY WholeTold DEF AllTold
  <1>2. h \in Seq(Frames)  BY <1>1 DEF ClaudeSound
  <1>3a. PICK n, d : n = Len(h) /\ d = Done  OBVIOUS
  <1>3. /\ n \in Nat /\ Len(got) = n + 1 /\ DOMAIN got = 1..(n + 1) /\ DOMAIN h = 1..n
        /\ got[n + 1] = Done /\ (\A i \in 1..n : got[i] = h[i]) /\ Last(got) = Done
    <2>0. PICK X, s : s = got /\ X = Frames  OBVIOUS
    <2>1. PICK h2 \in Seq(X) : h2 = h  BY <1>2, <2>0
    <2>2. h2 = h /\ s = got /\ X = Frames /\ h2 \in Seq(X)  BY <2>0, <2>1
    <2>4. s = Append(h2, d)  BY <1>1, <1>3a, <2>2
    <2>5. n = Len(h2)  BY <1>3a, <2>2
    <2>6. /\ n \in Nat /\ Len(s) = n + 1 /\ DOMAIN s = 1..(n + 1) /\ DOMAIN h2 = 1..n
          /\ s[n + 1] = d /\ (\A i \in 1..n : s[i] = h2[i]) /\ Last(s) = d
      BY <2>4, <2>5, LastAppended
    <2>3. /\ n \in Nat /\ Len(s) = n + 1 /\ DOMAIN s = 1..(n + 1) /\ DOMAIN h = 1..n
          /\ s[n + 1] = d /\ (\A i \in 1..n : s[i] = h[i]) /\ Last(s) = d
      BY ONLY <2>2, <2>6
    <2> QED BY <1>3a, <2>2, <2>3
  <1>4. \A i \in 1..n : h[i] \in Frames  BY <1>2, <1>3
  <1>5. Done.t = "done" /\ Done.kind = "none"  BY DEF Done, Frame
  <1>6. got \in Seq(Wire)  BY WholeTold, <1>1 DEF StreamInv, Telling, Whole, Ended
  <1>7. PICK m \in 1..(n + 1) :
               /\ Len(Read1) = m /\ DOMAIN Read1 = 1..m /\ \A i \in 1..m : Read1[i] = got[i]
               /\ \A j \in 1..(m - 1) : ~Ends(got[j])
               /\ ~NoEnd(h) => Ends(got[m]) /\ m \in 1..n
    <2>1. ~Ends(got[n + 1])  BY <1>3, <1>5 DEF Ends
    <2> QED BY <1>3, <1>6, <2>1, ReadsTo
  <1>8. \A i \in 1..n : /\ got[i].t \in FrameTypes /\ got[i].t # "done" /\ got[i] # Done
                        /\ got[i].t = "message_delta" => got[i].kind \in Allowed
    BY <1>1, <1>3, <1>4, <1>5 DEF ClaudeSound, Frames
  <1>9. EndsProperly
    <2>1. (n + 1) - 1 = n  BY <1>3
    <2>2. Finished => Ends(Last(Read1))
      <3>1. Last(Read1) = got[m]  BY <1>7 DEF Last
      <3> QED BY <1>1, <1>7, <3>1 DEF ClaudeSound
    <2> QED BY <1>3, <1>8, <2>1, <2>2 DEF EndsProperly
  <1>10. CallsAreAnnounced
    <2> SUFFICES ASSUME talk.calls > 0, target \in {"gemini", "ollama"} \cup Binary, NEW i \in 1..m
                 PROVE  ReasonIn(got[i]) \in {"none", "tool_calls"}
      BY <1>7 DEF CallsAreAnnounced
    <2>1. Allowed = {"tool_calls"}  BY DEF Allowed, Announcing
    <2>2. i \in 1..n \/ i = n + 1  BY <1>3, UpToNext
    <2>3. CASE i \in 1..n
      BY <1>8, <2>1, <2>3 DEF ReasonIn, FrameTypes
    <2>4. CASE i = n + 1
      BY <1>3, <1>5, <2>4 DEF ReasonIn
    <2> QED BY <2>2, <2>3, <2>4
  <1>11. ClaudeClientCanParse
    <2> SUFFICES ASSUME NEW i \in 1..m
                 PROVE  /\ (got[i].t = "message_start") = (i = 1 /\ got[i].t # "done")
                        /\ got[i].t = "block_start" =>
                              \A j \in 1..(i - 1) : got[j].t = "block_start" => got[j].id < got[i].id
                        /\ got[i].t \in {"block_delta", "block_stop"} =>
                              /\ Before(i, "block_start", got[i].id, got[i].kind)
                              /\ ~Before(i, "block_stop", got[i].id, got[i].kind)
                        /\ got[i].t = "message_stop" =>
                              \A j \in 1..i : got[j].t = "block_start" =>
                                                 Before(i, "block_stop", got[j].id, got[j].kind)
      BY <1>7 DEF ClaudeClientCanParse
    <2>2. i \in 1..n \/ i = n + 1  BY <1>3, UpToNext
    <2>3. CASE i = n + 1
      BY <1>3, <1>5, <2>3
    <2>4. CASE i \in 1..n
      <3>0. \A j \in 1..(i - 1) : j \in 1..n  BY <1>3, <2>4
      <3>1. \A j \in 1..(i - 1) : j \in 1..(m - 1)  BY <1>3, <1>7, <2>4
      <3>2. \A j \in 1..(i - 1) : got[j] = h[j] /\ ~Ends(h[j])  BY <1>3, <1>7, <3>0, <3>1
      <3>3. ClaudeFits(h, i)  BY <1>1, <1>3, <2>4, <3>2 DEF ClaudeSound, ClaudeParses
      <3>4. got[i] = h[i]  BY <1>3, <2>4
      <3>5. \A t, id, kind : Before(i, t, id, kind) <=> Was(h, i, t, id, kind)
        BY <3>2 DEF Before, Was
      <3>6. (got[i].t = "message_start") = (i = 1 /\ got[i].t # "done")
        BY <1>8, <2>4, <3>3, <3>4 DEF ClaudeFits
      <3>7. got[i].t = "block_start" =>
                 \A j \in 1..(i - 1) : got[j].t = "block_start" => got[j].id < got[i].id
        BY <3>2, <3>3, <3>4 DEF ClaudeFits
      <3>8. got[i].t \in {"block_delta", "block_stop"} =>
                 /\ Before(i, "block_start", got[i].id, got[i].kind)
                 /\ ~Before(i, "block_stop", got[i].id, got[i].kind)
        BY <3>3, <3>4, <3>5 DEF ClaudeFits
      <3>9. ASSUME got[i].t = "message_stop", NEW j \in 1..i, got[j].t = "block_start"
            PROVE  Before(i, "block_stop", got[j].id, got[j].kind)
        <4>1. j \in 1..(i - 1)  BY <2>4, <3>9
        <4> QED BY <3>2, <3>3, <3>4, <3>5, <3>9, <4>1 DEF ClaudeFits
      <3> QED BY <3>6, <3>7, <3>8, <3>9
    <2> QED BY <2>2, <2>3, <2>4
  <1>12. ClientCanParse  BY <1>11 DEF ClientCanParse, ResponsesClientCanParse
  <1> QED BY <1>9, <1>10, <1>12 DEF ClientCanRead

\* What a Responses client is told, it can act on.
LEMMA ResponseReads ==
    ASSUME StreamInv, Whole, source = "responses"
    PROVE  ClientCanRead
  <1>1. PICK h : got = Append(h, Done) /\ ResponseSound(h) /\ (h = <<>> \/ ~Going(h))
    BY WholeTold DEF AllTold
  <1>2. h \in Seq(Frames)  BY <1>1 DEF ResponseSound
  <1>3a. PICK n, d : n = Len(h) /\ d = Done  OBVIOUS
  <1>3. /\ n \in Nat /\ Len(got) = n + 1 /\ DOMAIN got = 1..(n + 1) /\ DOMAIN h = 1..n
        /\ got[n + 1] = Done /\ (\A i \in 1..n : got[i] = h[i]) /\ Last(got) = Done
    <2>0. PICK X, s : s = got /\ X = Frames  OBVIOUS
    <2>1. PICK h2 \in Seq(X) : h2 = h  BY <1>2, <2>0
    <2>2. h2 = h /\ s = got /\ X = Frames /\ h2 \in Seq(X)  BY <2>0, <2>1
    <2>4. s = Append(h2, d)  BY <1>1, <1>3a, <2>2
    <2>5. n = Len(h2)  BY <1>3a, <2>2
    <2>6. /\ n \in Nat /\ Len(s) = n + 1 /\ DOMAIN s = 1..(n + 1) /\ DOMAIN h2 = 1..n
          /\ s[n + 1] = d /\ (\A i \in 1..n : s[i] = h2[i]) /\ Last(s) = d
      BY <2>4, <2>5, LastAppended
    <2>3. /\ n \in Nat /\ Len(s) = n + 1 /\ DOMAIN s = 1..(n + 1) /\ DOMAIN h = 1..n
          /\ s[n + 1] = d /\ (\A i \in 1..n : s[i] = h[i]) /\ Last(s) = d
      BY ONLY <2>2, <2>6
    <2> QED BY <1>3a, <2>2, <2>3
  <1>4. \A i \in 1..n : h[i] \in Frames  BY <1>2, <1>3
  <1>5. Done.t = "done" /\ Done.kind = "none"  BY DEF Done, Frame
  <1>6. got \in Seq(Wire)  BY WholeTold, <1>1 DEF StreamInv, Telling, Whole, Ended
  <1>7. PICK m \in 1..(n + 1) :
               /\ Len(Read1) = m /\ DOMAIN Read1 = 1..m /\ \A i \in 1..m : Read1[i] = got[i]
               /\ \A j \in 1..(m - 1) : ~Ends(got[j])
               /\ ~NoEnd(h) => Ends(got[m]) /\ m \in 1..n
    <2>1. ~Ends(got[n + 1])  BY <1>3, <1>5 DEF Ends
    <2> QED BY <1>3, <1>6, <2>1, ReadsTo
  <1>8. \A i \in 1..n : ResponseFits(h, i)  BY <1>1, <1>3 DEF ResponseSound
  <1>9. \A i \in 1..n : got[i] # Done /\ got[i].t \in FrameTypes \ {"message_delta"}
    <2> SUFFICES ASSUME NEW i \in 1..n
                 PROVE  got[i] # Done /\ got[i].t \in FrameTypes \ {"message_delta"}
      OBVIOUS
    <2>1. got[i] = h[i] /\ h[i] \in Frames /\ ResponseFits(h, i)  BY <1>3, <1>4, <1>8
    <2>2. h[i].t = "done" => h[i].kind # "none"  BY <2>1 DEF ResponseFits
    <2>3. h[i].t # "message_delta"  BY <2>1 DEF ResponseFits
    <2> QED BY <1>5, <2>1, <2>2, <2>3 DEF Frames
  <1>10. EndsProperly
    <2>1. (n + 1) - 1 = n  BY <1>3
    <2>2. ASSUME Len(got) > 1 PROVE got[n].t = "completed"
      <3>1. n \in 1..n  BY <1>3, <2>2
      <3>2. h # <<>>  BY <1>3, <1>3a, <3>1
      <3>3. PICK j \in 1..n : h[j].t = "completed"  BY <1>1, <1>3, <3>2 DEF Going, Completes
      <3>4. j = Len(h)  BY <1>8, <3>3 DEF ResponseFits
      <3> QED BY <1>3, <1>3a, <3>1, <3>3, <3>4
    <2> QED BY <1>3, <1>9, <2>1, <2>2 DEF EndsProperly
  <1>11. CallsAreAnnounced
    <2> SUFFICES ASSUME NEW i \in 1..m
                 PROVE  ReasonIn(got[i]) \in {"none", "tool_calls"}
      BY <1>7 DEF CallsAreAnnounced
    <2>2. i \in 1..n \/ i = n + 1  BY <1>3, UpToNext
    <2>3. CASE i \in 1..n
      BY <1>9, <2>3 DEF ReasonIn, FrameTypes
    <2>4. CASE i = n + 1
      BY <1>3, <1>5, <2>4 DEF ReasonIn
    <2> QED BY <2>2, <2>3, <2>4
  <1>12. ResponsesClientCanParse
    <2> SUFFICES ASSUME NEW i \in 1..(n + 1)
                 PROVE  /\ (got[i].t = "created") = (i = 1 /\ got[i].t # "done")
                        /\ got[i].t = "added" => ~Before(i, "added", got[i].id, got[i].kind)
                        /\ got[i].t \in {"delta", "done"} /\ got[i].kind # "none" =>
                              Before(i, "added", got[i].id, got[i].kind)
                        /\ got[i].t = "done" /\ got[i].kind # "none" =>
                              /\ ~Before(i, "done", got[i].id, got[i].kind)
                              /\ got[i].ps = ItemPieces(i, got[i])
                        /\ got[i].t = "completed" =>
                              /\ i = Len(got) - 1
                              /\ \A j \in 1..i : got[j].t = "added" =>
                                                     Before(i, "done", got[j].id, got[j].kind)
      BY <1>3 DEF ResponsesClientCanParse
    <2>2. i \in 1..n \/ i = n + 1  BY <1>3, UpToNext
    <2>3. CASE i = n + 1
      BY <1>3, <1>5, <2>3
    <2>4. CASE i \in 1..n
      <3>0. \A j \in 1..i : j \in 1..n  BY <1>3, <2>4
      <3>1. \A j \in 1..(i - 1) : j \in 1..i  BY <1>3, <2>4
      <3>2. \A j \in 1..i : got[j] = h[j]  BY <1>3, <3>0
      <3>3. ResponseFits(h, i)  BY <1>8, <2>4
      <3>4. got[i] = h[i]  BY <1>3, <2>4
      <3>5. \A t, id, kind : Before(i, t, id, kind) <=> Was(h, i, t, id, kind)
        BY <3>1, <3>2 DEF Before, Was
      <3>6. (got[i].t = "created") = (i = 1 /\ got[i].t # "done")
        <4>1. (h[i].t = "created") = (i = 1)  BY <3>3 DEF ResponseFits
        <4> QED BY <3>4, <4>1
      <3>7. got[i].t = "added" => ~Before(i, "added", got[i].id, got[i].kind)
        BY <3>3, <3>4, <3>5 DEF ResponseFits
      <3>8. got[i].t \in {"delta", "done"} /\ got[i].kind # "none" =>
                 Before(i, "added", got[i].id, got[i].kind)
        BY <3>3, <3>4, <3>5 DEF ResponseFits
      <3>9. ASSUME got[i].t = "done"
            PROVE  ~Before(i, "done", got[i].id, got[i].kind) /\ got[i].ps = ItemPieces(i, got[i])
        <4>1. ~Before(i, "done", got[i].id, got[i].kind)
          BY <3>3, <3>4, <3>5, <3>9 DEF ResponseFits
        <4>2. PICK f : f = h[i]  OBVIOUS
        <4>3. f.ps = Sent(h, i, f.id, f.kind)  BY <3>3, <3>4, <3>9, <4>2 DEF ResponseFits
        <4>4. \A j \in 1..i : PieceOf(h[j], f.id, f.kind)
                               = IF got[j].t = "delta" /\ got[j].id = f.id /\ got[j].kind = f.kind
                                 THEN got[j].ps ELSE <<>>
          BY <3>2 DEF PieceOf
        <4>5. ItemPieces(i, f) = Sent(h, i, f.id, f.kind)  BY <4>4 DEF ItemPieces, Sent
        <4> QED BY <3>4, <4>1, <4>2, <4>3, <4>5
      <3>10. ASSUME got[i].t = "completed" PROVE i = Len(got) - 1
        <4>1. i = Len(h)  BY <3>3, <3>4, <3>10 DEF ResponseFits
        <4> QED BY <1>3, <1>3a, <4>1
      <3>11. ASSUME got[i].t = "completed", NEW j \in 1..i, got[j].t = "added"
             PROVE  Before(i, "done", got[j].id, got[j].kind)
        <4>1. j \in 1..(i - 1)  BY <1>3, <2>4, <3>11
        <4> QED BY <3>2, <3>3, <3>4, <3>5, <3>11, <4>1 DEF ResponseFits
      <3> QED BY <3>6, <3>7, <3>8, <3>9, <3>10, <3>11
    <2> QED BY <2>2, <2>3, <2>4
  <1>13. ClientCanParse  BY <1>12 DEF ClientCanParse, ClaudeClientCanParse
  <1> QED BY <1>10, <1>11, <1>13 DEF ClientCanRead

\* A client that stays can act on what it reads.
THEOREM StreamIsReadable == Spec => []ClientCanRead
  <1>1. StreamInv => ClientCanRead
    <2>1. CASE Whole
      BY <2>1, ClaudeReads, ResponseReads, BodyReads, OpenReads
    <2>2. CASE ~Whole
      BY <2>2 DEF ClientCanRead, ClientCanParse, ClaudeClientCanParse, ResponsesClientCanParse,
                  EndsProperly, CallsAreAnnounced
    <2> QED BY <2>1, <2>2
  <1> QED BY <1>1, ClientIsTold, PTL
=============================================================================
