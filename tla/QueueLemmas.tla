---------------------------- MODULE QueueLemmas ----------------------------
(***************************************************************************)
(* Facts about functions from processes to queues, for the proofs of the   *)
(* modules whose channels are such functions; and what their recursive     *)
(* functions rest on.                                                      *)
(***************************************************************************)
EXTENDS Naturals, Integers, Sequences, SequenceTheorems, WellFoundedInduction,
        TLAPS

(* Putting a message at the end of one queue.                              *)
LEMMA QueuePut ==
  ASSUME NEW S, NEW P, NEW f \in [P -> Seq(S)], NEW p \in P, NEW m \in S
  PROVE  [f EXCEPT ![p] = Append(@, m)] \in [P -> Seq(S)]
<1>1. Append(f[p], m) \in Seq(S)
  BY AppendProperties
<1> QED
  BY <1>1

(* Taking the head of one queue.                                           *)
LEMMA QueueTake ==
  ASSUME NEW S, NEW P, NEW f \in [P -> Seq(S)], NEW p \in P, f[p] # <<>>
  PROVE  /\ Head(f[p]) \in S
         /\ [f EXCEPT ![p] = Tail(@)] \in [P -> Seq(S)]
<1>1. f[p] \in Seq(S)
  OBVIOUS
<1>2. Head(f[p]) \in S /\ Tail(f[p]) \in Seq(S)
  BY <1>1, HeadTailProperties
<1> QED
  BY <1>2

(* Emptying one queue, and leaving one message in it.                      *)
LEMMA QueueSet ==
  ASSUME NEW S, NEW P, NEW f \in [P -> Seq(S)], NEW p \in P, NEW m \in S
  PROVE  /\ [f EXCEPT ![p] = <<>>] \in [P -> Seq(S)]
         /\ [f EXCEPT ![p] = <<m>>] \in [P -> Seq(S)]
<1>1. <<>> \in Seq(S)
  BY EmptySeq
<1>2. <<m>> \in Seq(S)
  OBVIOUS
<1> QED
  BY <1>1, <1>2

LEMMA QueueClear ==
  ASSUME NEW S, NEW P, NEW f \in [P -> Seq(S)], NEW p \in P
  PROVE  [f EXCEPT ![p] = <<>>] \in [P -> Seq(S)]
<1>1. <<>> \in Seq(S)
  BY EmptySeq
<1> QED
  BY <1>1

(* Losing the end of one queue.                                            *)
LEMMA QueueCut ==
  ASSUME NEW S, NEW P, NEW f \in [P -> Seq(S)], NEW p \in P, NEW i \in 0..Len(f[p])
  PROVE  /\ [f EXCEPT ![p] = SubSeq(@, 1, i)] \in [P -> Seq(S)]
         /\ Len(SubSeq(f[p], 1, i)) = i
         /\ \A k \in 1..i : SubSeq(f[p], 1, i)[k] = f[p][k]
<1>1. f[p] \in Seq(S) /\ Len(f[p]) \in Nat
  BY LenProperties
<1>2. \A k \in 1..i : f[p][k] \in S
  BY <1>1, ElementOfSeq
<1>3. /\ SubSeq(f[p], 1, i) \in Seq(S)
      /\ Len(SubSeq(f[p], 1, i)) = IF 1 <= i THEN i - 1 + 1 ELSE 0
      /\ \A k \in 1..i - 1 + 1 : SubSeq(f[p], 1, i)[k] = f[p][1 + k - 1]
  BY <1>1, <1>2, SubSeqProperties
<1>4. i \in Nat
  BY <1>1
<1> QED
  BY <1>1, <1>3, <1>4

(* The first k values of an array, as a sequence.                          *)
LEMMA ArrayPrefix ==
  ASSUME NEW S, NEW n \in Nat, NEW c \in [1..n -> S], NEW k \in 0..n
  PROVE  /\ SubSeq(c, 1, k) \in Seq(S)
         /\ Len(SubSeq(c, 1, k)) = k
         /\ \A i \in 1..k : SubSeq(c, 1, k)[i] = c[i]
<1>1. c \in Seq(S) /\ Len(c) = n
  OBVIOUS
<1>2. \A i \in 1..k : c[i] \in S
  OBVIOUS
<1>3. /\ SubSeq(c, 1, k) \in Seq(S)
      /\ Len(SubSeq(c, 1, k)) = IF 1 <= k THEN k - 1 + 1 ELSE 0
      /\ \A i \in 1..k - 1 + 1 : SubSeq(c, 1, k)[i] = c[1 + i - 1]
  BY <1>1, <1>2, SubSeqProperties
<1> QED
  BY <1>3

(* The elements and the length of a queue after a put and after a take.    *)
LEMMA PutElements ==
  ASSUME NEW S, NEW q \in Seq(S), NEW m \in S
  PROVE  /\ Append(q, m) \in Seq(S) /\ Len(q) \in Nat
         /\ Len(Append(q, m)) = Len(q) + 1
         /\ \A k \in 1..Len(q) : Append(q, m)[k] = q[k]
         /\ Append(q, m)[Len(q) + 1] = m
         /\ \A k \in 1..Len(Append(q, m)) : k \in 1..Len(q) \/ k = Len(q) + 1
<1>1. Len(q) \in Nat /\ Len(Append(q, m)) = Len(q) + 1
  BY AppendProperties, LenProperties
<1>2. \A k \in 1..Len(q) + 1 : k \in 1..Len(q) \/ k = Len(q) + 1
  BY <1>1
<1> QED
  BY <1>1, <1>2, AppendProperties

LEMMA TakeElements ==
  ASSUME NEW S, NEW q \in Seq(S), q # <<>>
  PROVE  /\ Tail(q) \in Seq(S) /\ Len(q) \in Nat \ {0}
         /\ Len(Tail(q)) = Len(q) - 1
         /\ Head(q) = q[1] /\ Head(q) \in S
         /\ \A k \in 1..Len(Tail(q)) : k + 1 \in 1..Len(q) /\ Tail(q)[k] = q[k + 1]
<1>1. Len(q) \in Nat /\ Len(q) # 0
  BY LenProperties, EmptySeq
<1> QED
  BY <1>1, HeadTailProperties

LEMMA ConcatElements ==
  ASSUME NEW S, NEW q \in Seq(S), NEW r \in Seq(S), NEW i \in 1..Len(q \o r)
  PROVE  \/ i \in 1..Len(q) /\ ~(i > Len(q)) /\ (q \o r)[i] = q[i]
         \/ /\ i \in Nat /\ i > Len(q) /\ i - Len(q) \in 1..Len(r)
            /\ (q \o r)[i] = r[i - Len(q)]
<1> DEFINE n == Len(q)
           l == Len(r)
<1>1. n \in Nat /\ l \in Nat
  BY LenProperties
<1>2. /\ i \in 1..n + l
      /\ (q \o r)[i] = IF i <= n THEN q[i] ELSE r[i - n]
  BY ConcatProperties
<1> HIDE DEF n, l
<1>3. CASE i <= n
  BY <1>1, <1>2, <1>3 DEF n
<1>4. CASE ~(i <= n)
  <2>1. i \in Nat /\ i > n /\ i - n \in 1..l
    BY <1>1, <1>2, <1>4
  <2> QED BY <1>2, <1>4, <2>1 DEF n, l
<1> QED BY <1>3, <1>4

(* Counting what is under way and what was taken.                          *)
LEMMA NatAssoc ==
  ASSUME NEW a \in Nat, NEW b \in Nat
  PROVE  a + b + 1 = a + (b + 1)
OBVIOUS

LEMMA NatShift ==
  ASSUME NEW a \in Nat, NEW b \in Nat \ {0}
  PROVE  a + b + 1 = (a + 1) + (b - 1) + 1
OBVIOUS

LEMMA NatSwap ==
  ASSUME NEW a \in Nat, NEW b \in Nat
  PROVE  a + (b + 1) = (a + 1) + b
OBVIOUS

-----------------------------------------------------------------------------
(* Every set of numbers has a least one, which is the induction used.      *)
LEMMA Least ==
  ASSUME NEW T \in SUBSET Nat, T # {}
  PROVE  \E x \in T : \A y \in T : x <= y
<1> DEFINE R == OpToRel(<, Nat)
<1>1. IsWellFoundedOn(R, Nat)
  BY NatLessThanWellFounded
<1>2. PICK x \in T : \A y \in T : <<y, x>> \notin R
  <2> HIDE DEF R
  <2> QED BY <1>1, WFMin
<1>3. \A y, z \in Nat : y < z => <<y, z>> \in R
  BY DEF OpToRel
<1> HIDE DEF R
<1>4. \A y \in T : ~(y < x)
  BY <1>2, <1>3
<1> QED BY <1>4

(* A function given by its first value and a step from each to the next is *)
(* there: the least length without one would have one.                     *)
StepFunctions(L, X) == [1..L -> [X -> X]]
GoesBy(g, L, X, first, step) ==
  /\ g \in [0..L -> X]
  /\ g[0] = first /\ \A n \in 1..L : g[n] = step[n][g[n - 1]]

LEMMA StepByStep ==
  ASSUME NEW L \in Nat, NEW X, NEW first \in X, NEW step \in StepFunctions(L, X)
  PROVE  \E g : GoesBy(g, L, X, first, step)
<1> USE DEF StepFunctions, GoesBy
<1> DEFINE Follows(g, k) == GoesBy(g, k, X, first, step)
           T == {k \in 0..L : ~\E g : Follows(g, k)}
<1> SUFFICES ASSUME T # {} PROVE FALSE
  <2>1. L \notin T => \E g : Follows(g, L)
    OBVIOUS
  <2> QED BY <2>1
<1>1. PICK k \in T : \A j \in T : k <= j
  <2>1. T \in SUBSET Nat
    OBVIOUS
  <2> HIDE DEF T
  <2> QED BY <2>1, Least
<1>2. k # 0
  <2>1. Follows([n \in 0..0 |-> first], 0)
    OBVIOUS
  <2> QED BY <1>1, <2>1
<1>3. k \in 1..L /\ k - 1 \in 0..L /\ k - 1 \notin T
  <2>1. k \in 0..L
    BY <1>1
  <2>2. k \in 1..L /\ k - 1 \in 0..L /\ ~(k <= k - 1)
    BY <1>2, <2>1
  <2> HIDE DEF T
  <2> QED BY <1>1, <2>2
<1>4. PICK g : Follows(g, k - 1)
  BY <1>3
<1> DEFINE h == [n \in 0..k |-> IF n = k THEN step[k][g[k - 1]] ELSE g[n]]
<1>5. Follows(h, k)
  <2>1. g[k - 1] \in X /\ step[k] \in [X -> X]
    BY <1>3, <1>4
  <2>2. h \in [0..k -> X] /\ h[0] = first
    BY <1>3, <1>4, <2>1
  <2>3. ASSUME NEW n \in 1..k PROVE h[n] = step[n][h[n - 1]]
    <3>1. h[n - 1] = g[n - 1]
      BY <1>3
    <3>2. CASE n = k
      BY <1>3, <3>1, <3>2
    <3>3. CASE n # k
      <4>1. n \in 1..k - 1
        BY <1>3, <3>3
      <4> QED BY <1>4, <3>1, <3>3, <4>1
    <3> QED BY <3>2, <3>3
  <2> QED BY <2>2, <2>3
<1> QED BY <1>1, <1>5
=============================================================================
