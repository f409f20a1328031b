------------------------------ MODULE NatLemmas ------------------------------
(* Facts about natural numbers and finite sets of them that the proofs of the *)
(* components share.  The induction principle is used in the form of the      *)
(* least element of a set, which first-order provers can apply.               *)
EXTENDS Integers, FiniteSets, Functions, FiniteSetTheorems, WellFoundedInduction, TLAPS

\* The numbers from 1 to c are c.
LEMMA InitialSegment ==
  ASSUME NEW c \in Nat
  PROVE  IsFiniteSet(1 .. c) /\ Cardinality(1 .. c) = c
<1>1. 1 \in Int /\ c \in Int
  OBVIOUS
<1>2. /\ IsFiniteSet(1 .. c)
      /\ Cardinality(1 .. c) = IF 1 > c THEN 0 ELSE c - 1 + 1
  BY <1>1, FS_Interval
<1>. QED BY <1>2

\* Every nonempty set of naturals has a least element.
LEMMA NatLeast ==
  ASSUME NEW T \in SUBSET Nat, T # {}
  PROVE  \E m \in T : \A n \in T : m <= n
<1> DEFINE R == StrictSubsetOrdering(Nat)
           F == {1 .. n : n \in T}
<1>1. IsWellFoundedOn(R, FiniteSubsetsOf(Nat))
  BY FS_StrictSubsetOrderingWellFounded
<1>2. F \subseteq FiniteSubsetsOf(Nat)
  BY FS_Interval DEF FiniteSubsetsOf
<1>3. PICK x \in F : \A y \in F : ~(<<y, x>> \in R)
  <2>. F # {}
    OBVIOUS
  <2>. HIDE DEF F, R
  <2>. QED BY <1>1, <1>2, WFMin
<1>4. PICK m \in T : x = 1 .. m
  OBVIOUS
<1>5. ASSUME NEW n \in T, n < m
      PROVE  FALSE
  <2>1. 1 .. n \subseteq 1 .. m
    BY <1>5
  <2>2. m \in 1 .. m /\ m \notin 1 .. n
    BY <1>5
  <2>3. <<1 .. n, 1 .. m>> \in R
    BY <2>1, <2>2 DEF StrictSubsetOrdering
  <2>. QED BY <2>3, <1>3, <1>4
<1>6. QED BY <1>5

\* A nonempty finite set of naturals has a greatest element.
LEMMA FiniteNatGreatest ==
  ASSUME NEW D \in SUBSET Nat, IsFiniteSet(D), D # {}
  PROVE  \E m \in D : \A n \in D : n <= m
<1> DEFINE Counts == {Cardinality({x \in D : x > d}) : d \in D}
<1>1. \A d \in D : /\ IsFiniteSet({x \in D : x > d})
                   /\ Cardinality({x \in D : x > d}) \in Nat
  <2>. TAKE d \in D
  <2>1. {x \in D : x > d} \in SUBSET D
    OBVIOUS
  <2>2. IsFiniteSet({x \in D : x > d})
    BY <2>1, FS_Subset
  <2>. QED BY <2>2, FS_CardinalityType
<1>2. PICK c \in Counts : \A k \in Counts : c <= k
  <2>1. Counts \in SUBSET Nat /\ Counts # {}
    BY <1>1
  <2>. QED BY <2>1, NatLeast
<1>3. PICK m \in D : c = Cardinality({x \in D : x > m})
  OBVIOUS
<1>4. ASSUME NEW n \in D, n > m
      PROVE  FALSE
  <2> DEFINE A == {x \in D : x > m}
             B == {x \in D : x > n}
  <2>1. B \subseteq A /\ n \in A /\ n \notin B
    <3>1. \A x \in D : x > n => x > m
      BY <1>4
    <3>2. n \in A /\ n \notin B
      BY <1>4
    <3>. QED BY <3>1, <3>2
  <2>2. IsFiniteSet(A) /\ Cardinality(A) = c /\ Cardinality(A) \in Nat
    BY <1>1, <1>3
  <2>3. Cardinality(B) <= Cardinality(A) /\ (Cardinality(A) = Cardinality(B) => A = B)
    <3>. HIDE DEF A, B
    <3>. QED BY <2>1, <2>2, FS_Subset
  <2>4. Cardinality(B) \in Counts /\ Cardinality(B) \in Nat
    BY <1>1
  <2>. HIDE DEF A, B, Counts
  <2>. QED BY <2>1, <2>2, <2>3, <2>4, <1>2
<1>. QED BY <1>4
=============================================================================
