------------------------------ MODULE Recursion ------------------------------
(***************************************************************************)
(* Induction over the natural numbers, and functions defined by recursion  *)
(* over the positions of a sequence, as facts about sets and functions:    *)
(* what the proofs about Shown (Logger) and Resolve (Conversion) rest on.  *)
(* They are stated without operators as parameters, so that they can be    *)
(* cited for the set or the function at hand.                              *)
(***************************************************************************)
EXTENDS Integers, Sequences, SequenceTheorems, WellFoundedInduction, TLAPS

LEMMA LeastNumber ==
  ASSUME NEW T, T \subseteq Nat, T # {}
  PROVE  \E n \in T : \A m \in T : n <= m
<1> DEFINE R == OpToRel(<, Nat)
<1>1. IsWellFoundedOn(R, Nat)
  BY NatLessThanWellFounded
<1> HIDE DEF R
<1>2. PICK n \in T : \A m \in T : ~(<<m, n>> \in R)
  BY <1>1, WFMin
<1>3. ASSUME NEW m \in T PROVE n <= m
  <2>1. ~(m < n)
    BY <1>2 DEF R, OpToRel
  <2> QED BY <2>1
<1> QED BY <1>3

\* Induction up to a number, for the set of the numbers that have a property.
LEMMA InductionUpTo ==
  ASSUME NEW N \in Nat, NEW T, 0 \in T, \A n \in 0 .. N - 1 : n \in T => n + 1 \in T
  PROVE  \A n \in 0 .. N : n \in T
<1> DEFINE rest == (0 .. N) \ T
<1>1. SUFFICES ASSUME rest # {} PROVE FALSE
  OBVIOUS
<1>2. PICK n \in rest : \A m \in rest : n <= m
  <2>1. rest \subseteq Nat
    OBVIOUS
  <2> HIDE DEF rest
  <2> QED BY <1>1, <2>1, LeastNumber
<1>3. n # 0 /\ n - 1 \in 0 .. N - 1 /\ n - 1 \in T /\ (n - 1) + 1 = n
  BY <1>2
<1> QED BY <1>2, <1>3

\* The function h begins with v, and step leads from each value to the next.
Unfolds(h, N, V, v, step) ==
    /\ h \in [0 .. N -> V] /\ h[0] = v
    /\ \A i \in 1 .. N : h[i] = step[<<i, h[i - 1]>>]

\* There is such a function, whatever the step.  A function written f[i \in 0 .. N] == IF i = 0 THEN .. ELSE .. f[i - 1] ..
\* is one that satisfies its equation if there is any.
LEMMA RecursiveFunction ==
  ASSUME NEW N \in Nat, NEW V, NEW v \in V, NEW step \in [(1 .. N) \X V -> V]
  PROVE  \E h : Unfolds(h, N, V, v, step)
<1> DEFINE T == {n \in 0 .. N : \E h : Unfolds(h, n, V, v, step)}
<1>1. 0 \in T
  <2> DEFINE h == [i \in 0 .. 0 |-> v]
  <2>1. Unfolds(h, 0, V, v, step) /\ 0 \in 0 .. N
    BY DEF Unfolds
  <2> HIDE DEF h
  <2> QED BY <2>1
<1>2. ASSUME NEW n \in 0 .. N - 1, n \in T PROVE n + 1 \in T
  <2>1. PICK h : Unfolds(h, n, V, v, step)
    BY <1>2
  <2> DEFINE k == [i \in 0 .. n + 1 |-> IF i = n + 1 THEN step[<<n + 1, h[n]>>] ELSE h[i]]
  <2>2. h \in [0 .. n -> V] /\ step[<<n + 1, h[n]>>] \in V /\ n + 1 \in 0 .. N
    BY <2>1 DEF Unfolds
  <2>3. \A i \in 0 .. n + 1 : i = n + 1 \/ i \in 0 .. n
    OBVIOUS
  <2>4. k \in [0 .. n + 1 -> V]
    BY <2>2, <2>3
  <2>5. k[0] = v
    BY <2>1 DEF Unfolds
  <2>6. ASSUME NEW i \in 1 .. n + 1 PROVE k[i] = step[<<i, k[i - 1]>>]
    <3>1. CASE i = n + 1
      <4>1. k[i - 1] = h[n] /\ k[i] = step[<<n + 1, h[n]>>]
        BY <3>1
      <4> QED BY <3>1, <4>1
    <3>2. CASE i # n + 1
      <4>1. i \in 1 .. n /\ k[i] = h[i] /\ k[i - 1] = h[i - 1]
        BY <3>2
      <4> QED BY <2>1, <4>1 DEF Unfolds
    <3> QED BY <3>1, <3>2
  <2> HIDE DEF k
  <2>7. Unfolds(k, n + 1, V, v, step)
    BY <2>4, <2>5, <2>6 DEF Unfolds
  <2> QED BY <2>2, <2>7
<1> HIDE DEF T
<1>3. \A n \in 0 .. N : n \in T
  BY <1>1, <1>2, InductionUpTo
<1>4. N \in T
  BY <1>3
<1> QED BY <1>4 DEF T
=============================================================================
