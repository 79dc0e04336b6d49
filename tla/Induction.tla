------------------------------ MODULE Induction -----------------------------
(* Induction without an operator to instantiate: of the things for which a *)
(* claim fails one is the smallest.                                        *)
EXTENDS Integers, Sequences, FiniteSetTheorems, WellFoundedInduction, NaturalsInduction, TLAPS

(* A set of natural numbers has a smallest member.                         *)
LEMMA SmallestNat ==
  ASSUME NEW S \in SUBSET Nat, S # {}
  PROVE  \E x \in S : \A y \in S : x =< y
<1> DEFINE R == OpToRel(<, Nat)
<1>1. PICK x \in S : \A y \in S : ~(<<y, x>> \in R)
  BY NatLessThanWellFounded, WFMin
<1>2. \A y \in S : ~(y < x)
  BY <1>1 DEF OpToRel
<1>3. x \in Nat /\ \A y \in S : y \in Nat
  OBVIOUS
<1> HIDE DEF R
<1>4. \A y \in S : x =< y
  BY <1>2, <1>3
<1> QED
  BY <1>4

(* Of the subsets of a finite set that fail, one has no failing subset.    *)
LEMMA SmallestSubset ==
  ASSUME NEW S, IsFiniteSet(S), NEW bad \in SUBSET (SUBSET S), bad # {}
  PROVE  \E T \in bad : \A U \in SUBSET T : U # T => U \notin bad
<1> DEFINE R == StrictSubsetOrdering(S)
<1>1. IsWellFoundedOn(R, SUBSET S)
  BY FS_StrictSubsetOrderingWellFounded, FS_FiniteSubsetsOfFinite
<1>2. PICK T \in bad : \A U \in bad : ~(<<U, T>> \in R)
  BY <1>1, WFMin
<1>3. ASSUME NEW U \in SUBSET T, U # T, U \in bad
      PROVE  FALSE
  BY <1>2, <1>3 DEF StrictSubsetOrdering
<1> QED
  BY <1>3

(* A recursion that stays in D, and a solution of it up to n.              *)
IsRecursion(D, a, n, F) == a \in D /\ F \in [(1 .. n) \X D -> D]

IsSolution(D, a, n, F, g) ==
  /\ g \in [0 .. n -> D] /\ g[0] = a
  /\ \A k \in 1 .. n : g[k] = F[<<k, g[k - 1]>>]

LEMMA Recursion ==
  ASSUME NEW D, NEW a, NEW n \in Nat, NEW F, IsRecursion(D, a, n, F)
  PROVE  \E g : IsSolution(D, a, n, F, g)
<1> USE DEF IsRecursion
<1> DEFINE Solves(m, g) == /\ g \in [0 .. m -> D] /\ g[0] = a
                           /\ \A k \in 1 .. m : g[k] = F[<<k, g[k - 1]>>]
           bad == {m \in 0 .. n : ~\E g : Solves(m, g)}
<1>1. bad = {}
  <2> SUFFICES ASSUME bad # {} PROVE FALSE
    OBVIOUS
  <2>1. PICK m \in bad : \A y \in bad : m =< y
    <3>1. bad \in SUBSET Nat
      OBVIOUS
    <3> HIDE DEF bad
    <3> QED
      BY <3>1, SmallestNat
  <2>2. CASE m = 0
    <3>1. Solves(0, [k \in 0 .. 0 |-> a])
      OBVIOUS
    <3> QED
      BY <2>1, <2>2, <3>1
  <2>3. CASE m # 0
    <3>1. m \in 1 .. n /\ m - 1 \in 0 .. n /\ m - 1 \notin bad
      <4>1. m \in 0 .. n
        BY <2>1
      <4>2. m \in 1 .. n /\ m - 1 \in 0 .. n /\ ~(m =< m - 1)
        BY <2>3, <4>1
      <4> HIDE DEF bad
      <4> QED
        BY <2>1, <4>2
    <3>2. PICK g : Solves(m - 1, g)
      BY <3>1
    <3> DEFINE h == [k \in 0 .. m |-> IF k = m THEN F[<<m, g[m - 1]>>] ELSE g[k]]
    <3>3. g[m - 1] \in D /\ F[<<m, g[m - 1]>>] \in D
      BY <3>1, <3>2
    <3>4. \A k \in 0 .. m - 1 : g[k] \in D /\ h[k] = g[k]
      BY <3>1, <3>2
    <3>5. h[m] = F[<<m, g[m - 1]>>]
      BY <3>1
    <3>6. h \in [0 .. m -> D]
      <4>1. ASSUME NEW k \in 0 .. m PROVE h[k] \in D
        <5>1. k = m \/ k \in 0 .. m - 1
          BY <3>1
        <5> QED
          BY <3>3, <3>4, <3>5, <5>1
      <4> QED
        BY <4>1
    <3>7. h[0] = a
      BY <3>1, <3>2, <3>4
    <3>8. ASSUME NEW k \in 1 .. m
          PROVE  h[k] = F[<<k, h[k - 1]>>]
      <4>1. h[k - 1] = g[k - 1]
        BY <3>1, <3>4
      <4>2. CASE k = m
        BY <3>5, <4>1, <4>2
      <4>3. CASE k # m
        <5>1. k \in 1 .. m - 1 /\ k \in 0 .. m - 1
          BY <3>1, <4>3
        <5>2. h[k] = g[k] /\ g[k] = F[<<k, g[k - 1]>>]
          BY <3>2, <3>4, <5>1
        <5> QED
          BY <4>1, <5>2
      <4> QED
        BY <4>2, <4>3
    <3> HIDE DEF h
    <3>9. Solves(m, h)
      BY <3>6, <3>7, <3>8
    <3> QED
      BY <2>1, <3>9
  <2> QED
    BY <2>2, <2>3
<1>2. n \in 0 .. n
  OBVIOUS
<1>3. \E g : Solves(n, g)
  BY <1>1, <1>2
<1> QED
  BY <1>3 DEF IsSolution

(* Two functions that agree at 0, and at k when they do at k - 1.          *)
StepTogether(n, f, g) ==
  /\ f[0] = g[0]
  /\ \A k \in 1 .. n : f[k - 1] = g[k - 1] => f[k] = g[k]

LEMMA SameRecursion ==
  ASSUME NEW n \in Nat, NEW f, NEW g, StepTogether(n, f, g)
  PROVE  \A k \in 0 .. n : f[k] = g[k]
<1> USE DEF StepTogether
<1> DEFINE bad == {k \in 0 .. n : f[k] # g[k]}
<1> SUFFICES ASSUME bad # {} PROVE FALSE
  OBVIOUS
<1>1. PICK k \in bad : \A y \in bad : k =< y
  <2>1. bad \in SUBSET Nat
    OBVIOUS
  <2> HIDE DEF bad
  <2> QED
    BY <2>1, SmallestNat
<1>2. k \in 1 .. n /\ k - 1 \in 0 .. n /\ k - 1 \notin bad
  BY <1>1
<1> QED
  BY <1>1, <1>2

=============================================================================
