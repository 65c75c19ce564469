----------------------------- MODULE NumberLemmas -----------------------------
(***************************************************************************)
(* Facts about numbers that the proofs share: least elements, remainders   *)
(* of a division by the number of seats, intervals, induction.             *)
(***************************************************************************)
EXTENDS Integers, FiniteSets, FiniteSetTheorems, WellFoundedInduction, TLAPS

\* A non-empty set of numbers has a least element.
LEMMA LeastNumber ==
    ASSUME NEW N, N \subseteq Nat, N # {}
    PROVE  \E x \in N : \A y \in N : x <= y
<1> DEFINE Below(x) == {y \in N : y <= x}
           T == {Below(x) : x \in N}
<1>1. T \subseteq FiniteSubsetsOf(Nat)
  <2> SUFFICES ASSUME NEW x \in N
               PROVE  Below(x) \in SUBSET Nat /\ IsFiniteSet(Below(x))
    BY DEF FiniteSubsetsOf
  <2>1. IsFiniteSet(0 .. x)
    BY FS_Interval
  <2>2. \A y \in N : y \in Nat
    OBVIOUS
  <2>3. ASSUME NEW z \in Below(x) PROVE z \in 0 .. x
    <3>1. x \in Nat /\ z \in Nat /\ z <= x
      BY <2>2
    <3> QED
      BY <3>1
  <2> QED
    BY <2>1, <2>3, FS_Subset
<1>2. T # {}
  OBVIOUS
<1>3. PICK S \in T : \A U \in T : ~ (<<U, S>> \in StrictSubsetOrdering(Nat))
  <2>1. IsWellFoundedOn(StrictSubsetOrdering(Nat), FiniteSubsetsOf(Nat))
    BY FS_StrictSubsetOrderingWellFounded
  <2> HIDE DEF T
  <2> QED
    BY <1>1, <1>2, <2>1, WFMin
<1>4. PICK x \in N : S = Below(x)
  OBVIOUS
<1>5. ASSUME NEW y \in N, ~(x <= y)
      PROVE  FALSE
  <2>1. Below(y) \in T
    OBVIOUS
  <2>2. Below(y) \subseteq Below(x) /\ x \in Below(x) /\ x \notin Below(y)
    <3>1. x \in Nat /\ y \in Nat /\ y < x
      <4>1. x \in Nat /\ y \in Nat
        OBVIOUS
      <4> QED
        BY <1>5, <4>1
    <3>2. ASSUME NEW z \in Below(y) PROVE z \in Below(x)
      <4>1. z \in N /\ z <= y /\ z \in Nat
        OBVIOUS
      <4>2. z <= x
        BY <3>1, <4>1
      <4> QED
        BY <4>1, <4>2
    <3>3. x \in Below(x) /\ x \notin Below(y)
      BY <3>1
    <3> QED
      BY <3>2, <3>3, Zenon
  <2>3. Below(x) \in SUBSET Nat /\ Below(y) \in SUBSET Nat
    OBVIOUS
  <2>4. <<Below(y), Below(x)>> \in StrictSubsetOrdering(Nat)
    <3> HIDE DEF Below
    <3> QED
      BY <2>2, <2>3 DEF StrictSubsetOrdering
  <2> QED
    BY <1>3, <1>4, <2>1, <2>4
<1> QED
  BY <1>5

\* A number below m is its own remainder, and so is one that is m greater.
LEMMA Remainder ==
    ASSUME NEW m \in Nat \ {0}, NEW i \in 0 .. m - 1
    PROVE  i % m = i /\ (i + m) % m = i
<1>1. i % m = i
  OBVIOUS
<1>2. (i + m) % m = i
  OBVIOUS
<1> QED
  BY <1>1, <1>2

\* A set of numbers from 1 on that has no gaps is an interval.
LEMMA NoGaps ==
    ASSUME NEW n \in Nat, NEW D, D \subseteq 1 .. n, \A k \in D : \A j \in 1 .. k : j \in D
    PROVE  Cardinality(D) \in 0 .. n /\ D = 1 .. Cardinality(D)
<1> DEFINE Missing == {k \in 1 .. n + 1 : k \notin D}
<1>1. Missing \subseteq Nat /\ n + 1 \in Missing
  OBVIOUS
<1>2. PICK m \in Missing : \A k \in Missing : m <= k
  BY <1>1, LeastNumber
<1>3. m \in 1 .. n + 1 /\ m \notin D /\ \A j \in 1 .. m - 1 : j \in D
  <2>1. m \in 1 .. n + 1 /\ m \notin D
    OBVIOUS
  <2>2. ASSUME NEW j \in 1 .. m - 1 PROVE j \in D
    <3>1. j \in 1 .. n + 1 /\ ~(m <= j)
      BY <2>1
    <3> QED BY <1>2, <3>1
  <2> QED BY <2>1, <2>2
<1> HIDE DEF Missing
<1>4. D = 1 .. m - 1
  <2>1. ASSUME NEW k \in D PROVE k \in 1 .. m - 1
    <3>1. k \in 1 .. n /\ ~(m \in 1 .. k)
      BY <1>3
    <3> QED BY <1>3, <3>1
  <2> QED BY <1>3, <2>1
<1>5. Cardinality(1 .. m - 1) = m - 1
  BY <1>3, FS_Interval
<1> QED BY <1>3, <1>4, <1>5
\* Induction up to N: a set that holds 0, and every number below N with its
\* successor, holds all of them.
LEMMA SetInduction ==
    ASSUME NEW N \in Nat, NEW A, 0 \in A, \A n \in 0 .. N - 1 : n \in A => n + 1 \in A
    PROVE  \A n \in 0 .. N : n \in A
<1> DEFINE Missing == {k \in 0 .. N : k \notin A}
<1>1. SUFFICES ASSUME Missing # {} PROVE FALSE
  OBVIOUS
<1>2. Missing \subseteq Nat
  OBVIOUS
<1>3. PICK m \in Missing : \A k \in Missing : m <= k
  BY <1>1, <1>2, LeastNumber
<1>4. m \in 0 .. N /\ m \notin A /\ m # 0
  OBVIOUS
<1>5. m - 1 \in 0 .. N - 1 /\ m - 1 \in 0 .. N /\ ~(m <= m - 1) /\ m - 1 + 1 = m
  BY <1>4
<1>6. m - 1 \in A
  BY <1>3, <1>5
<1> HIDE DEF Missing
<1> QED BY <1>4, <1>5, <1>6
===============================================================================
