--------------------------- MODULE HuRules_proofs ---------------------------
(***************************************************************************)
(* The winning rules for every suit size, every set of tiles and hands of  *)
(* any size: canHu accepts exactly the hands that are a pair and melds,    *)
(* and qing yi se is called exactly for a hand of one suit.                *)
(*                                                                         *)
(* A group left by canHuGroup is the group of some places of the hand, so  *)
(* that it shrinks by three places in every step.                          *)
(***************************************************************************)
EXTENDS MCHuRules, NumberLemmas, SequenceTheorems

\* The places of P that hold tile m, and the group of the tiles at the places P.
At(h, P, m) == {j \in P : h[j] = m}
GroupOf(h, P) == [m \in {h[j] : j \in P} |-> Cardinality(At(h, P, m))]

----------------------------------------------------------------------------
(* Groups and places *)

\* The group of a hand is the group of all its places.
LEMMA WholeGroup ==
    ASSUME NEW h
    PROVE  ToBag(h) = GroupOf(h, DOMAIN h)
BY DEF ToBag, GroupOf, At, Range

\* Finitely many places hold a number of tiles of each kind.
LEMMA PlacesCounted ==
    ASSUME NEW h, NEW P, IsFiniteSet(P), NEW m
    PROVE  /\ IsFiniteSet(At(h, P, m)) /\ Cardinality(At(h, P, m)) \in Nat
           /\ Cardinality(At(h, P, m)) > 0 <=> m \in {h[j] : j \in P}
           /\ Cardinality(At(h, P, m)) > 0 <=> m \in DOMAIN GroupOf(h, P)
           /\ m \in DOMAIN GroupOf(h, P) => GroupOf(h, P)[m] = Cardinality(At(h, P, m))
<1>1. At(h, P, m) \subseteq P
  BY DEF At
<1>2. IsFiniteSet(At(h, P, m))
  BY <1>1, FS_Subset
<1>3. Cardinality(At(h, P, m)) \in Nat
  BY <1>2, FS_CardinalityType
<1>4. Cardinality(At(h, P, m)) > 0 <=> At(h, P, m) # {}
  BY <1>2, <1>3, FS_EmptySet
<1>5. At(h, P, m) # {} <=> m \in {h[j] : j \in P}
  BY DEF At
<1> QED BY <1>2, <1>3, <1>4, <1>5 DEF GroupOf

\* Places taken out hold as many tiles less.
LEMMA PlacesTaken ==
    ASSUME NEW h, NEW P, IsFiniteSet(P), NEW Q, Q \subseteq P, NEW m
    PROVE  Cardinality(At(h, P \ Q, m)) = Cardinality(At(h, P, m)) - Cardinality(At(h, Q, m))
<1>1. At(h, P \ Q, m) = At(h, P, m) \ At(h, Q, m)
  BY DEF At
<1>2. At(h, P, m) \cap At(h, Q, m) = At(h, Q, m)
  BY DEF At
<1>3. IsFiniteSet(At(h, P, m))
  BY PlacesCounted
<1> QED BY <1>1, <1>2, <1>3, FS_Difference

\* Taking places out of the hand takes their group out of the group.
LEMMA GroupTaken ==
    ASSUME NEW h, NEW P, IsFiniteSet(P), NEW Q, Q \subseteq P
    PROVE  GroupOf(h, P \ Q) = GroupOf(h, P) (-) GroupOf(h, Q)
<1> DEFINE D == {h[j] : j \in P}
           B == [e \in D |-> IF e \in DOMAIN GroupOf(h, Q)
                             THEN GroupOf(h, P)[e] - GroupOf(h, Q)[e] ELSE GroupOf(h, P)[e]]
<1>1. IsFiniteSet(Q) /\ IsFiniteSet(P \ Q)
  BY FS_Subset
<1>2. ASSUME NEW e \in D PROVE B[e] = Cardinality(At(h, P \ Q, e))
  <2>1. /\ Cardinality(At(h, P \ Q, e)) = Cardinality(At(h, P, e)) - Cardinality(At(h, Q, e))
        /\ Cardinality(At(h, P, e)) \in Nat /\ Cardinality(At(h, Q, e)) \in Nat
    <3> HIDE DEF B, D
    <3>1. Cardinality(At(h, P \ Q, e)) = Cardinality(At(h, P, e)) - Cardinality(At(h, Q, e))
      BY PlacesTaken
    <3>2. Cardinality(At(h, P, e)) \in Nat /\ Cardinality(At(h, Q, e)) \in Nat
      BY <1>1, PlacesCounted
    <3> QED BY <3>1, <3>2
  <2>2. GroupOf(h, P)[e] = Cardinality(At(h, P, e))
    BY DEF GroupOf
  <2>3. e \in DOMAIN GroupOf(h, Q) => GroupOf(h, Q)[e] = Cardinality(At(h, Q, e))
    BY <1>1, PlacesCounted
  <2>4. e \notin DOMAIN GroupOf(h, Q) => Cardinality(At(h, Q, e)) = 0
    BY <1>1, <2>1, PlacesCounted
  <2> HIDE DEF D
  <2> QED BY <2>1, <2>2, <2>3, <2>4
<1>3. GroupOf(h, P) (-) GroupOf(h, Q) = [e \in {d \in D : B[d] > 0} |-> B[e]]
  BY DEF GroupOf, (-)
<1>4. {d \in D : B[d] > 0} = {h[j] : j \in P \ Q}
  <2>1. {h[j] : j \in P \ Q} \subseteq D
    OBVIOUS
  <2>2. ASSUME NEW e \in D PROVE B[e] > 0 <=> e \in {h[j] : j \in P \ Q}
    <3>1. Cardinality(At(h, P \ Q, e)) > 0 <=> e \in {h[j] : j \in P \ Q}
      BY <1>1, PlacesCounted
    <3> QED BY <1>2, <3>1
  <2> HIDE DEF B
  <2> QED BY <2>1, <2>2
<1>5. GroupOf(h, P \ Q) = [e \in {h[j] : j \in P \ Q} |-> Cardinality(At(h, P \ Q, e))]
  BY DEF GroupOf
<1>6. \A e \in {h[j] : j \in P \ Q} : e \in D
  OBVIOUS
<1> HIDE DEF B, D
<1> QED BY <1>2, <1>3, <1>4, <1>5, <1>6

\* The group of n copies of tile m.
Copied(m, n) == [x \in {m} |-> n]

\* Some places of one kind are so many copies of it.
LEMMA EqualTiles ==
    ASSUME NEW h, NEW Q, NEW m, NEW n \in Nat \ {0}, \A j \in Q : h[j] = m, IsFiniteSet(Q),
           Cardinality(Q) = n
    PROVE  GroupOf(h, Q) = Copied(m, n)
<1>2. Q # {}
  BY FS_EmptySet
<1>3. {h[j] : j \in Q} = {m}
  BY <1>2
<1>4. \A e \in {m} : Cardinality(At(h, Q, e)) = n
  <2>1. At(h, Q, m) = Q
    BY DEF At
  <2> QED BY <2>1
<1>5. GroupOf(h, Q) = [e \in {m} |-> Cardinality(At(h, Q, e))]
  BY <1>3 DEF GroupOf
<1> QED BY <1>4, <1>5 DEF Copied

\* The tiles of kind n in the run from m on.
InRun(m, n) == IF n \in m .. m + 2 THEN 1 ELSE 0

\* A place of each of three tiles is a run of them.
LEMMA RunTiles ==
    ASSUME NEW h, NEW m \in Int, NEW i, NEW j, NEW k,
           h[i] = m, h[j] = m + 1, h[k] = m + 2, NEW Q, Q = {i, j, k}
    PROVE  /\ GroupOf(h, Q) = SetToBag(m .. m + 2)
           /\ IsFiniteSet(Q) /\ Cardinality(Q) = 3
           /\ \A n : Cardinality(At(h, Q, n)) = InRun(m, n)
<1>1. i # j /\ j # k /\ i # k
  OBVIOUS
<1>2. IsFiniteSet({i}) /\ Cardinality({i}) = 1
  BY FS_Singleton
<1>3. IsFiniteSet({i, j}) /\ Cardinality({i, j}) = 2
  <2>1. {i, j} = {i} \cup {j} /\ j \notin {i}
    BY <1>1
  <2> QED BY <1>2, <2>1, FS_AddElement
<1>4. IsFiniteSet({i, j, k}) /\ Cardinality({i, j, k}) = 3
  <2>1. {i, j, k} = {i, j} \cup {k} /\ k \notin {i, j}
    BY <1>1
  <2> QED BY <1>3, <2>1, FS_AddElement
<1>5. m .. m + 2 = {m, m + 1, m + 2}
  OBVIOUS
<1>6. {h[x] : x \in {i, j, k}} = m .. m + 2
  BY <1>5
<1>7. ASSUME NEW n PROVE Cardinality(At(h, {i, j, k}, n)) = IF n \in m .. m + 2 THEN 1 ELSE 0
  <2>1. CASE n = m
    <3>1. At(h, {i, j, k}, n) = {i}
      BY <2>1 DEF At
    <3> QED BY <1>5, <2>1, <3>1, FS_Singleton
  <2>2. CASE n = m + 1
    <3>1. At(h, {i, j, k}, n) = {j}
      BY <2>2 DEF At
    <3> QED BY <1>5, <2>2, <3>1, FS_Singleton
  <2>3. CASE n = m + 2
    <3>1. At(h, {i, j, k}, n) = {k}
      BY <2>3 DEF At
    <3> QED BY <1>5, <2>3, <3>1, FS_Singleton
  <2>4. CASE n \notin m .. m + 2
    <3>1. At(h, {i, j, k}, n) = {}
      BY <1>5, <2>4 DEF At
    <3> QED BY <2>4, <3>1, FS_EmptySet
  <2> QED BY <1>5, <2>1, <2>2, <2>3, <2>4
<1>8. GroupOf(h, {i, j, k}) = [n \in m .. m + 2 |-> 1]
  <2>1. \A n \in m .. m + 2 : Cardinality(At(h, {i, j, k}, n)) = 1
    BY <1>7
  <2>2. GroupOf(h, {i, j, k}) = [n \in m .. m + 2 |-> Cardinality(At(h, {i, j, k}, n))]
    BY <1>6 DEF GroupOf
  <2> QED BY <2>1, <2>2
<1> QED BY <1>4, <1>7, <1>8 DEF SetToBag, InRun

\* Out of places enough, three (or two) can be picked.
LEMMA SomeOf ==
    ASSUME NEW P, IsFiniteSet(P), NEW n \in 0 .. Cardinality(P)
    PROVE  \E Q \in SUBSET P : IsFiniteSet(Q) /\ Cardinality(Q) = n
<1> DEFINE N == Cardinality(P)
           A == {i \in 0 .. N : \E Q \in SUBSET P : IsFiniteSet(Q) /\ Cardinality(Q) = i}
<1>1. N \in Nat
  BY FS_CardinalityType
<1>2. 0 \in A
  BY <1>1, FS_EmptySet
<1>3. ASSUME NEW i \in 0 .. N - 1, i \in A PROVE i + 1 \in A
  <2>1. PICK Q \in SUBSET P : IsFiniteSet(Q) /\ Cardinality(Q) = i
    BY <1>3
  <2>2. Q # P
    BY <1>1, <2>1
  <2>3. PICK x \in P : x \notin Q
    BY <2>2
  <2>4. IsFiniteSet(Q \cup {x}) /\ Cardinality(Q \cup {x}) = i + 1
    BY <2>1, <2>3, FS_AddElement
  <2>5. Q \cup {x} \in SUBSET P /\ i + 1 \in 0 .. N
    BY <1>1, <2>3
  <2> HIDE DEF N
  <2> QED BY <2>4, <2>5
<1>4. \A i \in 0 .. N : i \in A
  <2>1. \A i \in 0 .. N - 1 : i \in A => i + 1 \in A
    BY <1>3
  <2> HIDE DEF A, N
  <2> QED BY <1>1, <1>2, <2>1, SetInduction
<1> QED BY <1>4

----------------------------------------------------------------------------
(* Runs *)

\* A tile of a suit lies in the suit's number of the tiles: 1 to SuitSize are the
\* first suit, and so on.
LEMMA SuitOf ==
    ASSUME NEW S \in Nat \ {0}, NEW m \in Int
    PROVE  /\ (m - 1) \div S \in Int
           /\ S * ((m - 1) \div S) <= m - 1
           /\ m - 1 < S * ((m - 1) \div S) + S
OBVIOUS

\* A step up in a factor is at least a step of the other factor in the product.
LEMMA TimesKeepsOrder ==
    ASSUME NEW S \in Nat \ {0}, NEW a \in Int, NEW b \in Int, a < b
    PROVE  S * a + S <= S * b
<1>1. b - a - 1 \in Nat
  OBVIOUS
<1>2. S * (b - a - 1) \in Nat
  BY <1>1
<1>3. S * (b - a - 1) = S * b - S * a - S
  OBVIOUS
<1>4. S * b \in Int /\ S * a \in Int
  OBVIOUS
<1> QED BY <1>2, <1>3, <1>4

\* A run may start where the three tiles are of one suit of numbers.
LEMMA RunHeadIsShunzi ==
    ASSUME NEW t \in Nat \ {0}, {t, t + 1, t + 2} \subseteq Tiles
    PROVE  t \in RunHeads <=>
             \A n \in t .. t + 2 : getHuaSe(n) = getHuaSe(t) /\ getHuaSe(n) # MH_FENG
<1> DEFINE S == SuitSize
           q(m) == (m - 1) \div S
<1>1. S \in Nat \ {0}
  BY RulesAssumption
<1>2. \A m \in {t, t + 1, t + 2} : q(m) \in Int /\ S * q(m) <= m - 1 /\ m - 1 < S * q(m) + S
  <2>1. \A m \in {t, t + 1, t + 2} : m \in Int
    OBVIOUS
  <2> QED BY <1>1, <2>1, SuitOf
<1>3. t .. t + 2 = {t, t + 1, t + 2}
  OBVIOUS
<1>4. getHuaSe(t) = IF t > 3 * S THEN 0 ELSE 1 + q(t)
  BY DEF getHuaSe, Suits, MH_FENG
<1>5. getHuaSe(t + 1) = IF t + 1 > 3 * S THEN 0 ELSE 1 + q(t + 1)
  BY DEF getHuaSe, Suits, MH_FENG
<1>6. getHuaSe(t + 2) = IF t + 2 > 3 * S THEN 0 ELSE 1 + q(t + 2)
  BY DEF getHuaSe, Suits, MH_FENG
<1>7. t \in RunHeads <=> t <= 3 * S /\ q(t) = q(t + 2)
  BY <1>1 DEF RunHeads, Suits
<1>0. t \in Int /\ t >= 1 /\ t + 1 \in Int /\ t + 2 \in Int
  OBVIOUS
<1>8. \A a, b \in Int : a < b => S * a + S <= S * b
  <2> SUFFICES ASSUME NEW a \in Int, NEW b \in Int, a < b PROVE S * a + S <= S * b
    OBVIOUS
  <2> QED BY <1>1, TimesKeepsOrder
<1>9. q(t) >= 0 /\ q(t) <= q(t + 1) /\ q(t + 1) <= q(t + 2)
  <2> HIDE DEF q, S
  <2>1. S * 0 = 0
    BY <1>1
  <2>2. \A m \in {t, t + 1, t + 2} : S * q(m) \in Int
    BY <1>1, <1>2
  <2>3. ~(q(t) < 0)
    BY <1>0, <1>1, <1>2, <1>8, <2>1, <2>2
  <2>4. ~(q(t + 1) < q(t))
    BY <1>0, <1>1, <1>2, <1>8, <2>2
  <2>5. ~(q(t + 2) < q(t + 1))
    BY <1>0, <1>1, <1>2, <1>8, <2>2
  <2> QED BY <1>2, <2>3, <2>4, <2>5
<1>10. q(t) = q(t + 2) /\ t <= 3 * S => t + 2 <= 3 * S
  <2> HIDE DEF q, S
  <2> SUFFICES ASSUME q(t) = q(t + 2), t <= 3 * S PROVE t + 2 <= 3 * S
    OBVIOUS
  <2>1. S * q(t) \in Int
    BY <1>1, <1>2
  <2>2. S * q(t) < S * 3
    <3>1. S * 3 = 3 * S /\ S * 3 \in Int
      BY <1>1
    <3>2. S * q(t) <= t - 1
      BY <1>2
    <3> QED BY <1>0, <2>1, <3>1, <3>2
  <2>3. q(t) < 3
    <3>1. CASE q(t) = 3
      <4>1. S * 3 \in Int /\ S * 3 < S * 3
        BY <1>1, <2>2, <3>1
      <4> QED BY <4>1
    <3>2. CASE 3 < q(t)
      BY <1>1, <1>2, <1>8, <2>1, <2>2, <3>2
    <3> QED BY <1>2, <3>1, <3>2
  <2>4. S * q(t) + S <= S * 3
    BY <1>2, <1>8, <2>3
  <2>5. t + 1 < S * q(t) + S
    BY <1>0, <1>2
  <2> QED BY <1>0, <1>1, <2>1, <2>4, <2>5
<1> HIDE DEF q, S
<1>11. (\A n \in t .. t + 2 : getHuaSe(n) = getHuaSe(t) /\ getHuaSe(n) # MH_FENG) <=>
          /\ getHuaSe(t) # 0
          /\ getHuaSe(t + 1) = getHuaSe(t)
          /\ getHuaSe(t + 2) = getHuaSe(t)
  <2> HIDE DEF getHuaSe
  <2> QED BY <1>3 DEF MH_FENG
<1>12. ASSUME t <= 3 * S, q(t) = q(t + 2)
       PROVE  getHuaSe(t) # 0 /\ getHuaSe(t + 1) = getHuaSe(t) /\ getHuaSe(t + 2) = getHuaSe(t)
  <2>1. t + 2 <= 3 * S /\ q(t + 1) = q(t)
    BY <1>2, <1>9, <1>10, <1>12
  <2>2. ~(t > 3 * S) /\ ~(t + 1 > 3 * S) /\ ~(t + 2 > 3 * S)
    BY <1>0, <1>1, <2>1
  <2> QED BY <1>2, <1>4, <1>5, <1>6, <1>9, <1>12, <2>1, <2>2
<1>13. ASSUME getHuaSe(t) # 0, getHuaSe(t + 2) = getHuaSe(t)
       PROVE  t <= 3 * S /\ q(t) = q(t + 2)
  <2>1. ~(t > 3 * S) /\ ~(t + 2 > 3 * S)
    BY <1>4, <1>6, <1>13
  <2> QED BY <1>0, <1>1, <1>2, <1>4, <1>6, <1>13, <2>1
<1> QED BY <1>7, <1>11, <1>12, <1>13

----------------------------------------------------------------------------
(* The groups left, meld by meld *)

\* canHuGroup looks for a pair in left[N], the groups that N melds leave.
Leaves(left, group, N) ==
    /\ \A count : count \div 3 = N =>
          (canHuGroup(group, count) <=> \E m \in BagToSet(group) : Copied(m, 2) \in left[N])
    /\ left[0] = {group}
    /\ \A n \in 1 .. N : left[n] = UNION {oneMeldLess(g) : g \in left[n - 1]}

\* The recursive function of canHuGroup exists, and is what its equations say.
LEMMA MeldsTaken ==
    ASSUME NEW group, NEW N \in Nat
    PROVE  \E left : Leaves(left, group, N)
<1> DEFINE next(x) == UNION {oneMeldLess(g) : g \in x}
           To(f, n) == [i \in 0 .. n |-> IF i = 0 THEN {group} ELSE next(f[i - 1])]
           Some == {n \in 0 .. N : \E f : f = To(f, n)}
           left == CHOOSE f : f = To(f, N)
<1>1. ASSUME NEW count, count \div 3 = N
      PROVE  canHuGroup(group, count) <=>
                \E m \in BagToSet(group) : Copied(m, 2) \in left[N]
  BY <1>1 DEF canHuGroup, Copied
<1> HIDE DEF next
<1>2. 0 \in Some
  <2> DEFINE g == [i \in 0 .. 0 |-> {group}]
  <2>1. g = [i \in 0 .. 0 |-> g[i]] /\ g[0] = {group}
    OBVIOUS
  <2> HIDE DEF g
  <2>2. g = To(g, 0)
    BY <2>1
  <2> QED BY <2>2
<1>3. ASSUME NEW n \in 0 .. N - 1, n \in Some
      PROVE  n + 1 \in Some
  <2>1. PICK f : f = To(f, n)
    BY <1>3
  <2> DEFINE g == [i \in 0 .. n + 1 |-> IF i = n + 1 THEN next(f[n]) ELSE f[i]]
  <2>2. ASSUME NEW i \in 0 .. n + 1
        PROVE  g[i] = IF i = 0 THEN {group} ELSE next(g[i - 1])
    <3>1. CASE i = n + 1
      <4>1. g[i] = next(f[n]) /\ g[i - 1] = f[n] /\ i # 0
        BY <3>1
      <4> QED BY <4>1
    <3>2. CASE i # n + 1
      <4>1. i \in 0 .. n /\ g[i] = f[i] /\ (i # 0 => i - 1 \in 0 .. n + 1 /\ i - 1 # n + 1)
        BY <3>2
      <4>2. i # 0 => g[i - 1] = f[i - 1]
        BY <4>1
      <4>3. f[i] = To(f, n)[i]
        BY <2>1
      <4>4. f[i] = IF i = 0 THEN {group} ELSE next(f[i - 1])
        BY <4>1, <4>3
      <4> QED BY <4>1, <4>2, <4>4
    <3> QED BY <3>1, <3>2
  <2>3. g = [i \in 0 .. n + 1 |-> g[i]]
    OBVIOUS
  <2> HIDE DEF g
  <2>4. g = To(g, n + 1)
    BY <2>2, <2>3
  <2> QED BY <2>4
<1>4. N \in Some
  <2>1. \A n \in 0 .. N - 1 : n \in Some => n + 1 \in Some
    BY <1>3
  <2> HIDE DEF Some
  <2>2. \A n \in 0 .. N : n \in Some
    BY <1>2, <2>1, SetInduction
  <2> QED BY <2>2
<1>5. left = To(left, N)
  BY <1>4
<1>6. left[0] = {group} /\ \A n \in 1 .. N : left[n] = next(left[n - 1])
  <2> HIDE DEF left
  <2>1. \A n \in 0 .. N : left[n] = IF n = 0 THEN {group} ELSE next(left[n - 1])
    BY <1>5
  <2> QED BY <2>1
<1> HIDE DEF left
<1> QED BY <1>1, <1>6 DEF next, Leaves

----------------------------------------------------------------------------
(* What canHu accepts is a pair and melds *)

\* The tiles outside the places P make up the runs and a triplet of each of trips.
Split(h, P, runs, trips) ==
    \A t \in Tiles : Cardinality(At(h, DOMAIN h, t)) =
                       Cardinality(At(h, P, t)) + Taken(runs, t) + (IF t \in trips THEN 3 ELSE 0)

\* The group is what n melds leave of the hand.
LeavesGroup(h, n, group) ==
    \E P \in SUBSET DOMAIN h, runs \in [RunHeads -> 0 .. n], trips \in SUBSET Tiles :
        group = GroupOf(h, P) /\ Split(h, P, runs, trips)

\* A hand as the rules meet it: of tiles, each at most four times.
IsHand(h) == h \in Seq(Tiles) /\ \A t \in Tiles : Cardinality(At(h, DOMAIN h, t)) <= 4

\* The runs take a number of tiles of every kind.
LEMMA RunsTake ==
    ASSUME NEW runs \in [RunHeads -> Nat], NEW t \in Nat
    PROVE  Taken(runs, t) \in Nat
<1>1. \A s : RunsFrom(runs, s) \in Nat
  BY DEF RunsFrom
<1> QED BY <1>1 DEF Taken

\* One run more takes one tile more of the three kinds it is made of.
LEMMA OneRunMore ==
    ASSUME NEW runs \in [RunHeads -> Nat], NEW s \in RunHeads, NEW t \in Nat
    PROVE  Taken([runs EXCEPT ![s] = @ + 1], t) =
             Taken(runs, t) + (IF t \in s .. s + 2 THEN 1 ELSE 0)
<1> DEFINE more == [runs EXCEPT ![s] = @ + 1]
<1>1. s \in Nat
  BY RulesAssumption DEF RunHeads
<1>2. \A r : RunsFrom(runs, r) \in Nat /\ RunsFrom(more, r) = RunsFrom(runs, r) + (IF r = s THEN 1 ELSE 0)
  BY DEF RunsFrom
<1>3. t \in s .. s + 2 <=> t = s \/ t - 1 = s \/ t - 2 = s
  BY <1>1
<1>4. (t = s => t - 1 # s /\ t - 2 # s) /\ (t - 1 = s => t # s /\ t - 2 # s)
  BY <1>1
<1> HIDE DEF more
<1>5. /\ RunsFrom(runs, t) \in Nat /\ RunsFrom(runs, t - 1) \in Nat /\ RunsFrom(runs, t - 2) \in Nat
      /\ RunsFrom(more, t) = RunsFrom(runs, t) + (IF t = s THEN 1 ELSE 0)
      /\ RunsFrom(more, t - 1) = RunsFrom(runs, t - 1) + (IF t - 1 = s THEN 1 ELSE 0)
      /\ RunsFrom(more, t - 2) = RunsFrom(runs, t - 2) + (IF t - 2 = s THEN 1 ELSE 0)
  BY <1>2
<1>6. Taken(more, t) = Taken(runs, t) + (IF t \in s .. s + 2 THEN 1 ELSE 0)
  BY <1>3, <1>4, <1>5 DEF Taken
<1> QED BY <1>6 DEF more

\* Places of a hand: finitely many, with tiles, and their group counts them.
LEMMA HandPlaces ==
    ASSUME NEW h, IsHand(h), NEW P \in SUBSET DOMAIN h
    PROVE  /\ IsFiniteSet(P) /\ \A j \in P : h[j] \in Tiles
           /\ DOMAIN GroupOf(h, P) \subseteq Tiles
           /\ \A t : Cardinality(At(h, P, t)) \in Nat
           /\ \A t \in DOMAIN GroupOf(h, P) : GroupOf(h, P)[t] = Cardinality(At(h, P, t))
           /\ \A t : t \in DOMAIN GroupOf(h, P) <=> Cardinality(At(h, P, t)) > 0
<1>1. Len(h) \in Nat /\ DOMAIN h = 1 .. Len(h)
  BY DEF IsHand
<1>2. IsFiniteSet(P)
  <2>1. IsFiniteSet(DOMAIN h)
    BY <1>1, FS_Interval
  <2> QED BY <2>1, FS_Subset
<1>3. \A j \in P : h[j] \in Tiles
  BY <1>1 DEF IsHand
<1>4. DOMAIN GroupOf(h, P) \subseteq Tiles
  BY <1>3 DEF GroupOf
<1> QED BY <1>2, <1>3, <1>4, PlacesCounted

\* Taking one meld more out of what n melds leave, leaves what n + 1 melds leave.
LEMMA MeldLeavesGroup ==
    ASSUME NEW h, IsHand(h), NEW n \in Nat, NEW group, LeavesGroup(h, n, group),
           NEW less \in oneMeldLess(group)
    PROVE  LeavesGroup(h, n + 1, less)
<1>1. PICK P \in SUBSET DOMAIN h, runs \in [RunHeads -> 0 .. n], trips \in SUBSET Tiles :
          group = GroupOf(h, P) /\ Split(h, P, runs, trips)
  BY DEF LeavesGroup
<1>2. /\ IsFiniteSet(P) /\ DOMAIN group \subseteq Tiles
      /\ \A t : Cardinality(At(h, P, t)) \in Nat
      /\ \A t \in DOMAIN group : group[t] = Cardinality(At(h, P, t))
      /\ \A t : t \in DOMAIN group <=> Cardinality(At(h, P, t)) > 0
  BY <1>1, HandPlaces
<1>3. runs \in [RunHeads -> Nat] /\ \A t \in Tiles : t \in Nat /\ Taken(runs, t) \in Nat
  BY <1>1, RunsTake, RulesAssumption
<1>4. CASE \E m \in DOMAIN group : group[m] >= 3 /\ less = group (-) Copied(m, 3)
  <2>1. PICK m \in DOMAIN group : group[m] >= 3 /\ less = group (-) Copied(m, 3)
    BY <1>4
  <2>2. m \in Tiles /\ IsFiniteSet(At(h, P, m)) /\ Cardinality(At(h, P, m)) \in Nat
        /\ Cardinality(At(h, P, m)) >= 3
    BY <1>2, <2>1, PlacesCounted
  <2>3. PICK Q \in SUBSET At(h, P, m) : IsFiniteSet(Q) /\ Cardinality(Q) = 3
    BY <2>2, SomeOf
  <2>4. Q \subseteq P /\ Q = At(h, Q, m) /\ \A t : t # m => At(h, Q, t) = {}
    BY <2>3 DEF At
  <2>5. less = GroupOf(h, P \ Q)
    <3>1. GroupOf(h, Q) = Copied(m, 3)
      <4>1. 3 \in Nat \ {0} /\ \A j \in Q : h[j] = m
        BY <2>3 DEF At
      <4> QED BY <2>3, <4>1, EqualTiles
    <3> QED BY <1>1, <1>2, <2>1, <2>4, <3>1, GroupTaken
  <2>6. \A t : Cardinality(At(h, P \ Q, t)) = Cardinality(At(h, P, t)) - (IF t = m THEN 3 ELSE 0)
    <3>1. \A t : Cardinality(At(h, P \ Q, t)) = Cardinality(At(h, P, t)) - Cardinality(At(h, Q, t))
      BY <1>2, <2>4, PlacesTaken
    <3>2. \A t : Cardinality(At(h, Q, t)) = IF t = m THEN 3 ELSE 0
      BY <2>3, <2>4, FS_EmptySet
    <3> QED BY <3>1, <3>2
  <2>7. m \notin trips
    <3>1. Cardinality(At(h, DOMAIN h, m)) <= 4
      BY <2>2 DEF IsHand
    <3>2. Cardinality(At(h, DOMAIN h, m)) =
            Cardinality(At(h, P, m)) + Taken(runs, m) + (IF m \in trips THEN 3 ELSE 0)
      BY <1>1, <2>2 DEF Split
    <3> QED BY <1>3, <2>2, <3>1, <3>2
  <2>8. Split(h, P \ Q, runs, trips \cup {m})
    <3> SUFFICES ASSUME NEW t \in Tiles
                 PROVE  Cardinality(At(h, DOMAIN h, t)) =
                          Cardinality(At(h, P \ Q, t)) + Taken(runs, t)
                            + (IF t \in trips \cup {m} THEN 3 ELSE 0)
      BY DEF Split
    <3>1. Cardinality(At(h, DOMAIN h, t)) =
            Cardinality(At(h, P, t)) + Taken(runs, t) + (IF t \in trips THEN 3 ELSE 0)
      BY <1>1 DEF Split
    <3>2. CASE t = m
      <4>1. Cardinality(At(h, P \ Q, t)) = Cardinality(At(h, P, t)) - 3
        BY <2>6, <3>2
      <4>2. Cardinality(At(h, P, t)) \in Nat /\ Taken(runs, t) \in Nat
        BY <1>2, <1>3
      <4>3. t \notin trips /\ t \in trips \cup {m}
        BY <2>7, <3>2
      <4> QED BY <3>1, <4>1, <4>2, <4>3
    <3>3. CASE t # m
      <4>1. Cardinality(At(h, P \ Q, t)) = Cardinality(At(h, P, t)) - 0
        BY <2>6, <3>3
      <4>2. Cardinality(At(h, P, t)) \in Nat /\ (t \in trips \cup {m} <=> t \in trips)
        BY <1>2, <3>3
      <4> QED BY <3>1, <4>1, <4>2
    <3> QED BY <3>2, <3>3
  <2>9. runs \in [RunHeads -> 0 .. n + 1]
    OBVIOUS
  <2> QED BY <2>2, <2>5, <2>8, <2>9 DEF LeavesGroup
<1>5. CASE \E m \in DOMAIN group : isShunzi(group, m) /\ less = group (-) SetToBag(m .. m + 2)
  <2>1. PICK m \in DOMAIN group : isShunzi(group, m) /\ less = group (-) SetToBag(m .. m + 2)
    BY <1>5
  <2>2. /\ m \in Nat \ {0} /\ {m, m + 1, m + 2} \subseteq DOMAIN group
        /\ {m, m + 1, m + 2} \subseteq Tiles /\ m \in RunHeads
    <3>1. m \in Nat \ {0}
      BY <1>2, RulesAssumption
    <3>2. {m, m + 1, m + 2} \subseteq DOMAIN group
      BY <2>1 DEF isShunzi, BagToSet
    <3>3. {m, m + 1, m + 2} \subseteq Tiles
      BY <1>2, <3>2
    <3>4. \A x \in m .. m + 2 : getHuaSe(x) = getHuaSe(m) /\ getHuaSe(x) # MH_FENG
      BY <2>1 DEF isShunzi
    <3> QED BY <3>1, <3>2, <3>3, <3>4, RunHeadIsShunzi
  <2>3. PICK i \in P, j \in P, k \in P : h[i] = m /\ h[j] = m + 1 /\ h[k] = m + 2
    BY <1>1, <2>2 DEF GroupOf
  <2>0. PICK Q : Q = {i, j, k}
    OBVIOUS
  <2>4. /\ GroupOf(h, Q) = SetToBag(m .. m + 2)
        /\ \A t : Cardinality(At(h, Q, t)) = IF t \in m .. m + 2 THEN 1 ELSE 0
    <3>1. m \in Int
      BY <2>2
    <3>2. GroupOf(h, Q) = SetToBag(m .. m + 2)
      BY <2>3, <2>0, <3>1, RunTiles
    <3>3. \A t : Cardinality(At(h, Q, t)) = InRun(m, t)
      BY <2>3, <2>0, <3>1, <3>2, RunTiles
    <3> QED BY <3>2, <3>3 DEF InRun
  <2>5. less = GroupOf(h, P \ Q)
    BY <1>1, <1>2, <2>1, <2>3, <2>4, <2>0, GroupTaken
  <2>6. \A t : Cardinality(At(h, P \ Q, t)) =
                 Cardinality(At(h, P, t)) - (IF t \in m .. m + 2 THEN 1 ELSE 0)
    <3>1. Q \subseteq P
      BY <2>0
    <3>2. \A t : Cardinality(At(h, P \ Q, t)) = Cardinality(At(h, P, t)) - Cardinality(At(h, Q, t))
      BY <1>2, <3>1, PlacesTaken
    <3> QED BY <2>4, <3>2
  <2> DEFINE more == [runs EXCEPT ![m] = @ + 1]
  <2>7. more \in [RunHeads -> 0 .. n + 1]
    BY <2>2
  <2>8. Split(h, P \ Q, more, trips)
    <3> SUFFICES ASSUME NEW t \in Tiles
                 PROVE  Cardinality(At(h, DOMAIN h, t)) =
                          Cardinality(At(h, P \ Q, t)) + Taken(more, t)
                            + (IF t \in trips THEN 3 ELSE 0)
      BY DEF Split
    <3>1. Cardinality(At(h, DOMAIN h, t)) =
            Cardinality(At(h, P, t)) + Taken(runs, t) + (IF t \in trips THEN 3 ELSE 0)
      BY <1>1 DEF Split
    <3>2. Taken(more, t) = Taken(runs, t) + (IF t \in m .. m + 2 THEN 1 ELSE 0)
      BY <1>3, <2>2, OneRunMore
    <3> HIDE DEF more
    <3>3. Cardinality(At(h, P, t)) \in Nat /\ Taken(runs, t) \in Nat
      BY <1>2, <1>3
    <3>4. Cardinality(At(h, P \ Q, t)) =
            Cardinality(At(h, P, t)) - (IF t \in m .. m + 2 THEN 1 ELSE 0)
      BY <2>6
    <3>5. CASE t \in m .. m + 2
      BY <3>1, <3>2, <3>3, <3>4, <3>5
    <3>6. CASE t \notin m .. m + 2
      BY <3>1, <3>2, <3>3, <3>4, <3>6
    <3> QED BY <3>5, <3>6
  <2>9. P \ Q \in SUBSET DOMAIN h
    OBVIOUS
  <2> HIDE DEF more
  <2> QED BY <2>5, <2>7, <2>8, <2>9 DEF LeavesGroup
<1> QED BY <1>4, <1>5 DEF oneMeldLess, BagToSet, Copied

\* The copies of a tile in a hand are the places that hold it.
LEMMA HandIsCounted ==
    ASSUME NEW h, IsHand(h), NEW t
    PROVE  Copies(h, t) = Cardinality(At(h, DOMAIN h, t)) /\ Copies(h, t) \in Nat
<1>1. DOMAIN h \in SUBSET DOMAIN h
  OBVIOUS
<1> QED BY <1>1, HandPlaces DEF Copies, At

\* What canHu accepts is a pair and melds.
LEMMA HuSplits ==
    ASSUME NEW h, IsHand(h), Len(h) <= MaxTiles, canHu(h)
    PROVE  PairAndMelds(h)
<1> DEFINE N == Len(h) \div 3
           whole == ToBag(h)
<1>1. Len(h) \in Nat /\ N \in Nat /\ N <= MaxTiles \div 3
  BY RulesAssumption DEF IsHand
<1>2. PICK left : Leaves(left, whole, N)
  BY <1>1, MeldsTaken
<1> DEFINE A == {n \in 0 .. N : \A g \in left[n] : LeavesGroup(h, n, g)}
<1>3. 0 \in A
  <2>1. Split(h, DOMAIN h, [s \in RunHeads |-> 0], {})
    <3>1. \A s : RunsFrom([r \in RunHeads |-> 0], s) = 0
      BY DEF RunsFrom
    <3>2. \A t : Taken([s \in RunHeads |-> 0], t) = 0
      BY <3>1 DEF Taken
    <3>3. \A t : Cardinality(At(h, DOMAIN h, t)) \in Nat
      BY HandIsCounted
    <3> QED BY <3>2, <3>3 DEF Split
  <2>2. [s \in RunHeads |-> 0] \in [RunHeads -> 0 .. 0]
    OBVIOUS
  <2>3. LeavesGroup(h, 0, whole)
    BY <2>1, <2>2, WholeGroup DEF LeavesGroup
  <2> HIDE DEF N, whole
  <2> QED BY <1>1, <1>2, <2>3 DEF Leaves
<1>4. ASSUME NEW n \in 0 .. N - 1, n \in A PROVE n + 1 \in A
  <2> HIDE DEF N, whole
  <2>1. n \in Nat /\ n + 1 \in 1 .. N /\ n + 1 \in 0 .. N /\ n + 1 - 1 = n
    BY <1>1
  <2>2. left[n + 1] = UNION {oneMeldLess(g) : g \in left[n]}
    BY <1>2, <2>1 DEF Leaves
  <2>3. ASSUME NEW less \in left[n + 1] PROVE LeavesGroup(h, n + 1, less)
    <3>1. PICK g \in left[n] : less \in oneMeldLess(g)
      BY <2>2
    <3>2. LeavesGroup(h, n, g)
      BY <1>4
    <3> QED BY <2>1, <3>1, <3>2, MeldLeavesGroup
  <2> QED BY <2>1, <2>3
<1>5. \A g \in left[N] : LeavesGroup(h, N, g)
  <2>1. \A n \in 0 .. N - 1 : n \in A => n + 1 \in A
    BY <1>4
  <2>2. N \in A
    <3> HIDE DEF A, N
    <3>1. \A n \in 0 .. N : n \in A
      BY <1>1, <1>3, <2>1, SetInduction
    <3> QED BY <1>1, <3>1
  <2> QED BY <2>2
<1>6. PICK m \in BagToSet(whole) : Copied(m, 2) \in left[N]
  BY <1>2 DEF canHu, Leaves
<1>7. PICK P \in SUBSET DOMAIN h, runs \in [RunHeads -> 0 .. N], trips \in SUBSET Tiles :
          Copied(m, 2) = GroupOf(h, P) /\ Split(h, P, runs, trips)
  <2> HIDE DEF N, whole
  <2> QED BY <1>5, <1>6 DEF LeavesGroup
<1>8. m \in Tiles /\ \A t : Cardinality(At(h, P, t)) = IF t = m THEN 2 ELSE 0
  <2>1. DOMAIN Copied(m, 2) = {m} /\ Copied(m, 2)[m] = 2
    BY DEF Copied
  <2>2. /\ DOMAIN GroupOf(h, P) \subseteq Tiles
        /\ \A t : Cardinality(At(h, P, t)) \in Nat
        /\ \A t \in DOMAIN GroupOf(h, P) : GroupOf(h, P)[t] = Cardinality(At(h, P, t))
        /\ \A t : t \in DOMAIN GroupOf(h, P) <=> Cardinality(At(h, P, t)) > 0
    BY HandPlaces
  <2>3. \A t : t \in {m} <=> Cardinality(At(h, P, t)) > 0
    BY <1>7, <2>1, <2>2
  <2>4. \A t : t # m => Cardinality(At(h, P, t)) = 0
    BY <2>2, <2>3
  <2>5. Cardinality(At(h, P, m)) = 2
    BY <1>7, <2>1, <2>2
  <2> QED BY <1>7, <2>1, <2>2, <2>4, <2>5
<1>9. runs \in [RunHeads -> 0 .. MaxTiles \div 3] /\ runs \in [RunHeads -> Nat]
  <2>1. 0 .. N \subseteq 0 .. MaxTiles \div 3 /\ 0 .. N \subseteq Nat
    <3> HIDE DEF N
    <3> QED BY <1>1, RulesAssumption
  <2> HIDE DEF N
  <2> QED BY <2>1
<1>10. ASSUME NEW t \in Tiles
       PROVE  Copies(h, t) - Taken(runs, t) - (IF t = m THEN 2 ELSE 0) \in {0, 3}
  <2>1. Copies(h, t) = Cardinality(At(h, P, t)) + Taken(runs, t) + (IF t \in trips THEN 3 ELSE 0)
    BY <1>7, HandIsCounted DEF Split
  <2>2. Taken(runs, t) \in Nat
    BY <1>9, RunsTake, RulesAssumption
  <2> QED BY <1>8, <2>1, <2>2
<1> QED BY <1>8, <1>9, <1>10 DEF PairAndMelds

----------------------------------------------------------------------------
(* A pair and melds are accepted *)

\* The places P hold the pair, the runs, and a triplet of each of trips.
Holds(h, P, pair, runs, trips) ==
    \A t \in Tiles : Cardinality(At(h, P, t)) =
                       Taken(runs, t) + (IF t = pair THEN 2 ELSE 0) + (IF t \in trips THEN 3 ELSE 0)

\* The group is what n melds leave of the hand, and it still is a pair and melds.
StillSplits(h, n, pair, group) ==
    \E P \in SUBSET DOMAIN h, runs \in [RunHeads -> Nat], trips \in SUBSET Tiles :
        /\ group = GroupOf(h, P)
        /\ Cardinality(P) = Len(h) - 3 * n
        /\ Holds(h, P, pair, runs, trips)

\* A run of one copy of each tile is among the places where some tile is in a run.
LEMMA RunIsHeld ==
    ASSUME NEW h, IsHand(h), NEW P \in SUBSET DOMAIN h, NEW runs \in [RunHeads -> Nat],
           NEW pair, NEW trips, Holds(h, P, pair, runs, trips),
           NEW s \in RunHeads, runs[s] > 0
    PROVE  /\ s \in Nat \ {0} /\ {s, s + 1, s + 2} \subseteq Tiles
           /\ {s, s + 1, s + 2} \subseteq DOMAIN GroupOf(h, P)
           /\ isShunzi(GroupOf(h, P), s)
<1>1. s \in Nat \ {0} /\ s \in Tiles /\ {s, s + 1, s + 2} \subseteq Tiles
  BY RulesAssumption DEF RunHeads
<1>2. ASSUME NEW t \in {s, s + 1, s + 2} PROVE t \in DOMAIN GroupOf(h, P)
  <2>1. \A r : RunsFrom(runs, r) \in Nat
    BY DEF RunsFrom
  <2>2. RunsFrom(runs, s) > 0
    BY DEF RunsFrom
  <2>3. t = s \/ t - 1 = s \/ t - 2 = s
    BY <1>1
  <2>4. Taken(runs, t) \in Nat /\ Taken(runs, t) > 0
    <3>1. /\ RunsFrom(runs, t) \in Nat /\ RunsFrom(runs, t - 1) \in Nat /\ RunsFrom(runs, t - 2) \in Nat
          /\ RunsFrom(runs, t) > 0 \/ RunsFrom(runs, t - 1) > 0 \/ RunsFrom(runs, t - 2) > 0
      BY <2>1, <2>2, <2>3
    <3> QED BY <3>1 DEF Taken
  <2>5. t \in Tiles
    BY <1>1
  <2>6. Cardinality(At(h, P, t)) =
          Taken(runs, t) + (IF t = pair THEN 2 ELSE 0) + (IF t \in trips THEN 3 ELSE 0)
    BY <2>5 DEF Holds
  <2>7. Cardinality(At(h, P, t)) > 0
    BY <2>4, <2>6
  <2> QED BY <2>7, HandPlaces
<1>3. \A n \in s .. s + 2 : getHuaSe(n) = getHuaSe(s) /\ getHuaSe(n) # MH_FENG
  BY <1>1, RunHeadIsShunzi
<1> QED BY <1>1, <1>2, <1>3 DEF isShunzi, BagToSet

\* Where more than the pair is left, a meld can be taken, and the rest still splits.
LEMMA MeldCanBeTaken ==
    ASSUME NEW h, IsHand(h), NEW n \in Nat, 3 * n + 3 <= Len(h), NEW pair \in Tiles,
           NEW group, StillSplits(h, n, pair, group)
    PROVE  \E less \in oneMeldLess(group) : StillSplits(h, n + 1, pair, less)
<1>1. PICK P \in SUBSET DOMAIN h, runs \in [RunHeads -> Nat], trips \in SUBSET Tiles :
          /\ group = GroupOf(h, P)
          /\ Cardinality(P) = Len(h) - 3 * n
          /\ Holds(h, P, pair, runs, trips)
  BY DEF StillSplits
<1>2. /\ IsFiniteSet(P) /\ \A j \in P : h[j] \in Tiles
      /\ DOMAIN group \subseteq Tiles
      /\ \A t : Cardinality(At(h, P, t)) \in Nat
      /\ \A t \in DOMAIN group : group[t] = Cardinality(At(h, P, t))
      /\ \A t : t \in DOMAIN group <=> Cardinality(At(h, P, t)) > 0
  BY <1>1, HandPlaces
<1>3. Len(h) \in Nat /\ Cardinality(P) >= 3 /\ \A t \in Tiles : t \in Nat /\ Taken(runs, t) \in Nat
  BY <1>1, RunsTake, RulesAssumption DEF IsHand
<1>4. \E t \in Tiles : t \in trips \/ Taken(runs, t) > 0
  <2> SUFFICES ASSUME \A t \in Tiles : t \notin trips /\ Taken(runs, t) = 0
               PROVE  FALSE
    BY <1>3
  <2>1. \A t \in Tiles : Cardinality(At(h, P, t)) = IF t = pair THEN 2 ELSE 0
    BY <1>1 DEF Holds
  <2>2. \A j \in P : h[j] = pair
    <3> SUFFICES ASSUME NEW j \in P, h[j] # pair PROVE FALSE
      OBVIOUS
    <3>1. Cardinality(At(h, P, h[j])) = 0 /\ IsFiniteSet(At(h, P, h[j]))
      BY <1>2, <2>1, PlacesCounted
    <3>2. j \in At(h, P, h[j])
      BY DEF At
    <3> QED BY <3>1, <3>2, FS_EmptySet
  <2>3. At(h, P, pair) = P
    BY <2>2 DEF At
  <2> QED BY <1>3, <2>1, <2>3
<1>5. CASE \E t \in Tiles : t \in trips
  <2>1. PICK m \in Tiles : m \in trips
    BY <1>5
  <2>2. Cardinality(At(h, P, m)) \in Nat /\ Cardinality(At(h, P, m)) >= 3 /\ IsFiniteSet(At(h, P, m))
    <3>1. Cardinality(At(h, P, m)) = Taken(runs, m) + (IF m = pair THEN 2 ELSE 0) + 3
      BY <1>1, <2>1 DEF Holds
    <3>2. Cardinality(At(h, P, m)) \in Nat /\ Taken(runs, m) \in Nat /\ IsFiniteSet(At(h, P, m))
      BY <1>2, <1>3, PlacesCounted
    <3> QED BY <3>1, <3>2
  <2>3. PICK Q \in SUBSET At(h, P, m) : IsFiniteSet(Q) /\ Cardinality(Q) = 3
    BY <2>2, SomeOf
  <2>4. Q \subseteq P /\ Q = At(h, Q, m) /\ \A t : t # m => At(h, Q, t) = {}
    BY <2>3 DEF At
  <2>5. Copied(m, 3) = GroupOf(h, Q)
    <3>1. 3 \in Nat \ {0} /\ \A j \in Q : h[j] = m
      BY <2>3 DEF At
    <3> QED BY <2>3, <3>1, EqualTiles
  <2>6. m \in DOMAIN group /\ group[m] >= 3 /\ group (-) Copied(m, 3) = GroupOf(h, P \ Q)
    BY <1>1, <1>2, <2>2, <2>4, <2>5, GroupTaken
  <2>7. group (-) Copied(m, 3) \in oneMeldLess(group)
    BY <2>6 DEF oneMeldLess, BagToSet, Copied
  <2>8. Cardinality(P \ Q) = Len(h) - 3 * (n + 1)
    <3>1. P \cap Q = Q
      BY <2>4
    <3>2. Cardinality(P \ Q) = Cardinality(P) - Cardinality(P \cap Q)
      BY <1>2, FS_Difference
    <3>3. Cardinality(P \ Q) = Len(h) - 3 * n - 3
      BY <1>1, <2>3, <3>1, <3>2
    <3> QED BY <1>3, <3>3
  <2>9. Holds(h, P \ Q, pair, runs, trips \ {m})
    <3> SUFFICES ASSUME NEW t \in Tiles
                 PROVE  Cardinality(At(h, P \ Q, t)) =
                          Taken(runs, t) + (IF t = pair THEN 2 ELSE 0)
                            + (IF t \in trips \ {m} THEN 3 ELSE 0)
      BY DEF Holds
    <3>1. Cardinality(At(h, P, t)) =
            Taken(runs, t) + (IF t = pair THEN 2 ELSE 0) + (IF t \in trips THEN 3 ELSE 0)
      BY <1>1 DEF Holds
    <3>2. Cardinality(At(h, P \ Q, t)) = Cardinality(At(h, P, t)) - Cardinality(At(h, Q, t))
      BY <1>2, <2>4, PlacesTaken
    <3>3. Cardinality(At(h, P, t)) \in Nat /\ Taken(runs, t) \in Nat
      BY <1>2, <1>3
    <3>4. CASE t = m
      <4>1. Cardinality(At(h, Q, t)) = 3 /\ t \in trips /\ t \notin trips \ {m}
        BY <2>1, <2>3, <2>4, <3>4
      <4> QED BY <3>1, <3>2, <3>3, <4>1
    <3>5. CASE t # m
      <4>1. Cardinality(At(h, Q, t)) = 0 /\ (t \in trips <=> t \in trips \ {m})
        BY <2>4, <3>5, FS_EmptySet
      <4> QED BY <3>1, <3>2, <3>3, <4>1
    <3> QED BY <3>4, <3>5
  <2>10. StillSplits(h, n + 1, pair, group (-) Copied(m, 3))
    BY <2>6, <2>8, <2>9 DEF StillSplits
  <2> QED BY <2>7, <2>10
<1>6. CASE \E t \in Tiles : Taken(runs, t) > 0
  <2>1. PICK s \in RunHeads : runs[s] > 0
    <3>1. PICK t \in Tiles : Taken(runs, t) > 0
      BY <1>6
    <3>2. \A r : RunsFrom(runs, r) \in Nat /\ (r \notin RunHeads => RunsFrom(runs, r) = 0)
      BY DEF RunsFrom
    <3>3. PICK r : RunsFrom(runs, r) > 0
      BY <3>1, <3>2 DEF Taken
    <3> QED BY <3>2, <3>3 DEF RunsFrom
  <2>2. /\ s \in Nat \ {0} /\ {s, s + 1, s + 2} \subseteq Tiles
        /\ {s, s + 1, s + 2} \subseteq DOMAIN group
        /\ isShunzi(group, s)
    BY <1>1, <2>1, RunIsHeld
  <2>3. PICK i \in P, j \in P, k \in P : h[i] = s /\ h[j] = s + 1 /\ h[k] = s + 2
    BY <1>1, <2>2 DEF GroupOf
  <2>4. PICK Q : Q = {i, j, k}
    OBVIOUS
  <2>5. /\ Q \subseteq P /\ GroupOf(h, Q) = SetToBag(s .. s + 2)
        /\ IsFiniteSet(Q) /\ Cardinality(Q) = 3
        /\ \A t : Cardinality(At(h, Q, t)) = InRun(s, t)
    <3>1. s \in Int
      BY <2>2
    <3>2. GroupOf(h, Q) = SetToBag(s .. s + 2)
      BY <2>3, <2>4, <3>1, RunTiles
    <3>3. \A t : Cardinality(At(h, Q, t)) = InRun(s, t)
      BY <2>3, <2>4, <3>1, <3>2, RunTiles
    <3>4. IsFiniteSet(Q) /\ Cardinality(Q) = 3
      BY <2>3, <2>4, <3>1, <3>2, RunTiles
    <3> QED BY <2>4, <3>2, <3>3, <3>4
  <2>6. group (-) SetToBag(s .. s + 2) = GroupOf(h, P \ Q)
    <3>1. IsFiniteSet(P) /\ Q \subseteq P
      BY <1>2, <2>5
    <3>2. GroupOf(h, P \ Q) = GroupOf(h, P) (-) GroupOf(h, Q)
      BY <3>1, GroupTaken
    <3> QED BY <1>1, <2>5, <3>2
  <2>7. group (-) SetToBag(s .. s + 2) \in oneMeldLess(group)
    BY <2>2 DEF oneMeldLess, BagToSet
  <2>8. Cardinality(P \ Q) = Len(h) - 3 * (n + 1)
    <3>1. P \cap Q = Q
      BY <2>5
    <3>2. Cardinality(P \ Q) = Cardinality(P) - Cardinality(P \cap Q)
      BY <1>2, FS_Difference
    <3>3. Cardinality(P \ Q) = Len(h) - 3 * n - 3
      BY <1>1, <2>5, <3>1, <3>2
    <3> QED BY <1>3, <3>3
  <2> DEFINE fewer == [runs EXCEPT ![s] = @ - 1]
  <2>9. fewer \in [RunHeads -> Nat] /\ runs = [fewer EXCEPT ![s] = @ + 1]
    <3>1. runs[s] \in Nat /\ runs[s] - 1 \in Nat
      BY <2>1
    <3>2. fewer \in [RunHeads -> Nat] /\ fewer[s] = runs[s] - 1
      BY <3>1
    <3>3. \A r \in RunHeads : r # s => fewer[r] = runs[r]
      OBVIOUS
    <3> HIDE DEF fewer
    <3>4. \A r \in RunHeads : runs[r] = [fewer EXCEPT ![s] = @ + 1][r]
      BY <3>1, <3>2, <3>3
    <3> QED BY <3>2, <3>4
  <2>10. Holds(h, P \ Q, pair, fewer, trips)
    <3> HIDE DEF fewer
    <3> SUFFICES ASSUME NEW t \in Tiles
                 PROVE  Cardinality(At(h, P \ Q, t)) =
                          Taken(fewer, t) + (IF t = pair THEN 2 ELSE 0)
                            + (IF t \in trips THEN 3 ELSE 0)
      BY DEF Holds
    <3>1. Cardinality(At(h, P, t)) =
            Taken(runs, t) + (IF t = pair THEN 2 ELSE 0) + (IF t \in trips THEN 3 ELSE 0)
      BY <1>1 DEF Holds
    <3>2. Cardinality(At(h, P \ Q, t)) = Cardinality(At(h, P, t)) - InRun(s, t)
      BY <1>2, <2>5, PlacesTaken
    <3>3. Cardinality(At(h, P, t)) \in Nat /\ Taken(fewer, t) \in Nat /\ t \in Nat
      BY <1>2, <1>3, <2>9, RunsTake
    <3>4. Taken(runs, t) = Taken(fewer, t) + (IF t \in s .. s + 2 THEN 1 ELSE 0)
      BY <2>9, <3>3, OneRunMore
    <3>5. CASE t \in s .. s + 2
      <4>1. /\ Cardinality(At(h, P \ Q, t)) = Cardinality(At(h, P, t)) - 1
            /\ Taken(runs, t) = Taken(fewer, t) + 1
        BY <3>2, <3>4, <3>5 DEF InRun
      <4>2. PICK a \in {0, 2}, b \in {0, 3} :
                a = (IF t = pair THEN 2 ELSE 0) /\ b = (IF t \in trips THEN 3 ELSE 0)
        OBVIOUS
      <4>3. Cardinality(At(h, P, t)) = Taken(runs, t) + a + b
        BY <3>1, <4>2
      <4>4. Cardinality(At(h, P \ Q, t)) = Taken(fewer, t) + a + b
        BY <3>3, <4>1, <4>3
      <4> QED BY <4>2, <4>4
    <3>6. CASE t \notin s .. s + 2
      BY <3>1, <3>2, <3>3, <3>4, <3>6 DEF InRun
    <3> QED BY <3>5, <3>6
  <2>11. P \ Q \in SUBSET DOMAIN h
    OBVIOUS
  <2> HIDE DEF fewer
  <2>12. StillSplits(h, n + 1, pair, group (-) SetToBag(s .. s + 2))
    BY <2>6, <2>8, <2>9, <2>10, <2>11 DEF StillSplits
  <2> QED BY <2>7, <2>12
<1> QED BY <1>4, <1>5, <1>6

\* The counts of PairAndMelds, kind by kind, are the pair, the runs and triplets.
LEMMA SplitHolds ==
    ASSUME NEW h, IsHand(h), PairAndMelds(h)
    PROVE  \E pair \in Tiles, runs \in [RunHeads -> Nat], trips \in SUBSET Tiles :
               Holds(h, DOMAIN h, pair, runs, trips)
<1>1. PICK pair \in Tiles, runs \in [RunHeads -> 0 .. MaxTiles \div 3] :
          \A t \in Tiles : Copies(h, t) - Taken(runs, t) - (IF t = pair THEN 2 ELSE 0) \in {0, 3}
  BY DEF PairAndMelds
<1>2. runs \in [RunHeads -> Nat]
  <2>1. 0 .. MaxTiles \div 3 \subseteq Nat
    BY RulesAssumption
  <2> QED BY <2>1
<1> DEFINE trips == {t \in Tiles : Copies(h, t) - Taken(runs, t) - (IF t = pair THEN 2 ELSE 0) = 3}
<1>3. ASSUME NEW t \in Tiles
      PROVE  Cardinality(At(h, DOMAIN h, t)) =
               Taken(runs, t) + (IF t = pair THEN 2 ELSE 0) + (IF t \in trips THEN 3 ELSE 0)
  <2>1. Copies(h, t) = Cardinality(At(h, DOMAIN h, t)) /\ Copies(h, t) \in Nat
    BY HandIsCounted
  <2>2. Taken(runs, t) \in Nat
    BY <1>2, RunsTake, RulesAssumption
  <2>3. PICK a \in {0, 2} : a = IF t = pair THEN 2 ELSE 0
    OBVIOUS
  <2>4. Copies(h, t) - Taken(runs, t) - a \in {0, 3}
    BY <1>1, <2>3
  <2>5. t \in trips <=> Copies(h, t) - Taken(runs, t) - a = 3
    BY <2>3
  <2> HIDE DEF trips
  <2>6. PICK b \in {0, 3} : b = IF t \in trips THEN 3 ELSE 0
    OBVIOUS
  <2>7. Copies(h, t) = Taken(runs, t) + a + b
    BY <2>1, <2>2, <2>4, <2>5, <2>6
  <2> QED BY <2>1, <2>3, <2>6, <2>7
<1>4. trips \in SUBSET Tiles
  OBVIOUS
<1> HIDE DEF trips
<1> QED BY <1>2, <1>3, <1>4 DEF Holds

\* What is a pair and melds, canHu accepts.
LEMMA SplitIsHu ==
    ASSUME NEW h, IsHand(h), PairAndMelds(h)
    PROVE  canHu(h)
<1> DEFINE N == Len(h) \div 3
           whole == ToBag(h)
<1>1. Len(h) \in Nat /\ N \in Nat /\ 3 * N <= Len(h) /\ Len(h) <= 3 * N + 2
  BY DEF IsHand
<1>2. PICK left : Leaves(left, whole, N)
  BY <1>1, MeldsTaken
<1>3. PICK pair \in Tiles, runs \in [RunHeads -> Nat], trips \in SUBSET Tiles :
          Holds(h, DOMAIN h, pair, runs, trips)
  BY SplitHolds
<1> DEFINE A == {n \in 0 .. N : \E g \in left[n] : StillSplits(h, n, pair, g)}
<1>5. 0 \in A
  <2>2. Cardinality(DOMAIN h) = Len(h) - 3 * 0
    <3>1. DOMAIN h = 1 .. Len(h)
      BY DEF IsHand
    <3>2. Cardinality(1 .. Len(h)) = Len(h)
      <4> HIDE DEF N, whole
      <4>1. PICK k \in Nat : k = Len(h)
        BY <1>1
      <4>2. Cardinality(1 .. k) = k
        BY FS_Interval
      <4> QED BY <4>1, <4>2
    <3> QED BY <1>1, <3>1, <3>2
  <2>3. whole = GroupOf(h, DOMAIN h) /\ DOMAIN h \in SUBSET DOMAIN h
    BY WholeGroup
  <2> HIDE DEF whole, N
  <2>4. StillSplits(h, 0, pair, whole)
    BY <1>3, <2>2, <2>3 DEF StillSplits
  <2> QED BY <1>1, <1>2, <2>4 DEF Leaves
<1>6. ASSUME NEW n \in 0 .. N - 1, n \in A PROVE n + 1 \in A
  <2>1. PICK g \in left[n] : StillSplits(h, n, pair, g)
    BY <1>6
  <2> HIDE DEF N, whole
  <2>2. n \in Nat /\ n + 1 \in 1 .. N /\ n + 1 \in 0 .. N /\ n + 1 - 1 = n /\ 3 * n + 3 <= Len(h)
    BY <1>1
  <2>3. left[n + 1] = UNION {oneMeldLess(x) : x \in left[n]}
    BY <1>2, <2>2 DEF Leaves
  <2>4. PICK less \in oneMeldLess(g) : StillSplits(h, n + 1, pair, less)
    BY <2>1, <2>2, MeldCanBeTaken
  <2>5. less \in left[n + 1]
    BY <2>1, <2>3, <2>4
  <2> QED BY <2>2, <2>4, <2>5
<1>7. PICK g \in left[N] : StillSplits(h, N, pair, g)
  <2>1. \A n \in 0 .. N - 1 : n \in A => n + 1 \in A
    BY <1>6
  <2>2. N \in A
    <3> HIDE DEF A, N
    <3>1. \A n \in 0 .. N : n \in A
      BY <1>1, <1>5, <2>1, SetInduction
    <3> QED BY <1>1, <3>1
  <2> QED BY <2>2
<1> HIDE DEF N, whole, A
<1>8. PICK P \in SUBSET DOMAIN h, rest \in [RunHeads -> Nat], others \in SUBSET Tiles :
          /\ g = GroupOf(h, P)
          /\ Cardinality(P) = Len(h) - 3 * N
          /\ Holds(h, P, pair, rest, others)
  BY <1>7 DEF StillSplits
<1>9. IsFiniteSet(P) /\ Cardinality(P) \in Nat /\ Cardinality(P) <= 2
  <2>1. IsFiniteSet(P)
    BY HandPlaces
  <2> QED BY <1>1, <1>8, <2>1
<1>10. Cardinality(At(h, P, pair)) >= 2
  <2>1. Cardinality(At(h, P, pair)) = Taken(rest, pair) + 2 + (IF pair \in others THEN 3 ELSE 0)
    BY <1>8 DEF Holds
  <2>2. Taken(rest, pair) \in Nat
    BY RunsTake, RulesAssumption
  <2> QED BY <2>1, <2>2
<1>11. At(h, P, pair) = P /\ Cardinality(P) = 2
  <2>1. At(h, P, pair) \in SUBSET P
    BY DEF At
  <2>2. /\ Cardinality(At(h, P, pair)) <= Cardinality(P)
        /\ Cardinality(P) = Cardinality(At(h, P, pair)) => P = At(h, P, pair)
    BY <1>9, <2>1, FS_Subset
  <2>3. Cardinality(At(h, P, pair)) \in Nat
    BY <1>9, PlacesCounted
  <2> QED BY <1>9, <1>10, <2>2, <2>3
<1>12. g = Copied(pair, 2)
  <2>1. 2 \in Nat \ {0} /\ \A j \in P : h[j] = pair
    BY <1>11 DEF At
  <2> QED BY <1>8, <1>9, <1>11, <2>1, EqualTiles
<1>13. pair \in BagToSet(whole)
  <2>1. P # {}
    BY <1>11, FS_EmptySet
  <2>2. PICK j \in DOMAIN h : h[j] = pair
    BY <1>11, <2>1 DEF At
  <2> QED BY <2>2, WholeGroup DEF whole, BagToSet, GroupOf
<1> QED BY <1>2, <1>7, <1>12, <1>13 DEF canHu, Leaves, N, whole

----------------------------------------------------------------------------
(* The hands that are collected *)

\* What Collect keeps: a hand of at most MaxTiles tiles, four copies at most of each.
HandInv ==
    /\ IsHand(hand)
    /\ Len(hand) <= MaxTiles
    /\ melds \in Seq(MeldTiles)

\* The empty hand is a hand.
LEMMA HandsStart == Init => HandInv
<1> SUFFICES ASSUME Init PROVE HandInv
  OBVIOUS
<1>1. hand = <<>> /\ melds \in Seq(MeldTiles)
  <2>1. CASE melds = <<>>
    BY <2>1 DEF Init
  <2>2. CASE \E t \in MeldTiles : melds = <<t>>
    BY <2>2 DEF Init
  <2> QED BY <2>1, <2>2 DEF Init
<1>2. \A t : Cardinality(At(hand, DOMAIN hand, t)) = 0
  <2>1. \A t : At(hand, DOMAIN hand, t) = {}
    BY <1>1 DEF At
  <2> QED BY <2>1, FS_EmptySet
<1> QED BY <1>1, <1>2, RulesAssumption DEF HandInv, IsHand

\* A tile of which there are not yet four makes a hand of a hand.
LEMMA TileMore ==
    ASSUME NEW h, IsHand(h), NEW t \in Tiles, Cardinality(At(h, DOMAIN h, t)) < 4
    PROVE  IsHand(Append(h, t)) /\ Len(Append(h, t)) = Len(h) + 1
<1> DEFINE more == Append(h, t)
           last == Len(h) + 1
<1>1. /\ Len(h) \in Nat /\ more \in Seq(Tiles) /\ Len(more) = last
      /\ DOMAIN h = 1 .. Len(h) /\ DOMAIN more = 1 .. last
      /\ more[last] = t /\ \A i \in DOMAIN h : more[i] = h[i]
  BY DEF IsHand
<1>2. last \notin DOMAIN h /\ DOMAIN more = DOMAIN h \cup {last}
  BY <1>1
<1>3. IsFiniteSet(DOMAIN h)
  <2>1. IsFiniteSet(1 .. Len(h))
    BY <1>1, FS_Interval
  <2> QED BY <1>1, <2>1
<1>4. ASSUME NEW u \in Tiles PROVE Cardinality(At(more, DOMAIN more, u)) <= 4
  <2>1. /\ IsFiniteSet(At(h, DOMAIN h, u))
        /\ Cardinality(At(h, DOMAIN h, u)) \in Nat
        /\ Cardinality(At(h, DOMAIN h, u)) <= 4
    BY <1>3, PlacesCounted DEF IsHand
  <2> HIDE DEF more, last
  <2>2. CASE u = t
    <3>1. At(more, DOMAIN more, u) = At(h, DOMAIN h, u) \cup {last}
      BY <1>1, <1>2, <2>2 DEF At
    <3>2. last \notin At(h, DOMAIN h, u)
      BY <1>2 DEF At
    <3>3. Cardinality(At(more, DOMAIN more, u)) = Cardinality(At(h, DOMAIN h, u)) + 1
      BY <2>1, <3>1, <3>2, FS_AddElement
    <3> QED BY <2>1, <2>2, <3>3
  <2>3. CASE u # t
    <3>1. At(more, DOMAIN more, u) = At(h, DOMAIN h, u)
      BY <1>1, <1>2, <2>3 DEF At
    <3> QED BY <2>1, <3>1
  <2> QED BY <2>2, <2>3
<1> QED BY <1>1, <1>4 DEF IsHand

\* Collecting a tile keeps the hand one.
LEMMA HandsGrow == HandInv /\ [Next]_<<hand, melds>> => HandInv'
<1> SUFFICES ASSUME HandInv, [Next]_<<hand, melds>> PROVE HandInv'
  OBVIOUS
<1>1. CASE UNCHANGED <<hand, melds>>
  BY <1>1 DEF HandInv
<1>2. CASE Next
  <2>1. PICK t \in Tiles : Collect(t)
    BY <1>2 DEF Next
  <2>2. /\ Len(hand) \in Nat /\ Len(hand) < MaxTiles
        /\ hand' = Append(hand, t) /\ melds' = melds
        /\ Cardinality(At(hand, DOMAIN hand, t)) < 4
    BY <2>1 DEF Collect, HandInv, IsHand, At
  <2>3. IsHand(hand) /\ melds \in Seq(MeldTiles)
    BY DEF HandInv
  <2>4. IsHand(Append(hand, t)) /\ Len(Append(hand, t)) = Len(hand) + 1
    BY <2>2, <2>3, TileMore
  <2>5. IsHand(hand')
    BY <2>2, <2>4
  <2>6. Len(hand') <= MaxTiles
    BY <2>2, <2>4, RulesAssumption
  <2>7. melds' \in Seq(MeldTiles)
    BY <2>2, <2>3
  <2> QED BY <2>5, <2>6, <2>7 DEF HandInv
<1> QED BY <1>1, <1>2

\* Every hand collected is a hand as the rules meet it, whatever the bounds.
THEOREM HandsKept == Spec => []HandInv
BY HandsStart, HandsGrow, PTL DEF Spec

\* canHu (ServerUtility.cpp:141), whatever melds it tries first, accepts a hand
\* exactly when the hand is a pair and otherwise runs and triplets: for every
\* suit size, every set of tiles and hands of every size.
THEOREM HuIsASplit == Spec => []HuIsPairAndMelds
<1>1. HandInv => HuIsPairAndMelds
  BY HuSplits, SplitIsHu DEF HandInv, HuIsPairAndMelds
<1> QED BY <1>1, HandsKept, PTL

----------------------------------------------------------------------------
(* The suits of a winning hand *)

\* The suits that isQingYiSe compares.
SuitsIn(x, laid) ==
    {getHuaSe(x[j]) : j \in DOMAIN x} \cup {getHuaSe(laid[j]) : j \in DOMAIN laid}

\* The tiles at finitely many places are of finitely many suits.
LEMMA SuitsAreFinite ==
    ASSUME NEW x, NEW D, IsFiniteSet(D)
    PROVE  IsFiniteSet({getHuaSe(x[j]) : j \in D})
<1> DEFINE f == [j \in D |-> getHuaSe(x[j])]
<1>1. f \in Surjection(D, {getHuaSe(x[j]) : j \in D})
  BY DEF Surjection
<1> QED BY <1>1, FS_Surjection

\* isQingYiSe compares all suits with the first: it holds if there is one suit only.
LEMMA OneSuit ==
    ASSUME NEW x, NEW laid, 1 \in DOMAIN x,
           IsFiniteSet(DOMAIN x), IsFiniteSet(DOMAIN laid)
    PROVE  isQingYiSe(x, laid) <=> Cardinality(SuitsIn(x, laid)) = 1
<1>1. IsFiniteSet(SuitsIn(x, laid))
  BY SuitsAreFinite, FS_Union DEF SuitsIn
<1>2. Cardinality(SuitsIn(x, laid)) = 1 <=> \E c : SuitsIn(x, laid) = {c}
  BY <1>1, FS_Singleton
<1>3. isQingYiSe(x, laid) <=> SuitsIn(x, laid) = {getHuaSe(x[1])}
  BY DEF isQingYiSe, SuitsIn
<1>4. getHuaSe(x[1]) \in SuitsIn(x, laid)
  BY DEF SuitsIn
<1> QED BY <1>2, <1>3, <1>4

\* No tile of a winning hand is the only one of its suit.
LEMMA NoTileIsAlone ==
    ASSUME NEW h, IsHand(h), PairAndMelds(h), NEW i \in DOMAIN h
    PROVE  \E j \in DOMAIN h : j # i /\ getHuaSe(h[j]) = getHuaSe(h[i])
<1> DEFINE t == h[i]
           D == DOMAIN h
<1>1. PICK pair \in Tiles, runs \in [RunHeads -> Nat], trips \in SUBSET Tiles :
          Holds(h, D, pair, runs, trips)
  BY SplitHolds
<1>2. /\ D \in SUBSET DOMAIN h /\ t \in Tiles /\ t \in Nat /\ IsFiniteSet(D)
      /\ IsFiniteSet(At(h, D, t)) /\ Cardinality(At(h, D, t)) \in Nat
      /\ i \in At(h, D, t)
  <2>1. D \in SUBSET DOMAIN h /\ i \in At(h, D, t)
    BY DEF At
  <2>2. t \in Tiles /\ IsFiniteSet(D)
    BY <2>1, HandPlaces
  <2> HIDE DEF t, D
  <2> QED BY <2>1, <2>2, PlacesCounted, RulesAssumption
<1>3. CASE \E j \in At(h, D, t) : j # i
  BY <1>3 DEF At
<1>4. CASE \A j \in At(h, D, t) : j = i
  <2> HIDE DEF t, D
  <2>1. Cardinality(At(h, D, t)) = 1
    <3>1. At(h, D, t) = {i}
      BY <1>2, <1>4
    <3> QED BY <3>1, FS_Singleton
  <2>2. Cardinality(At(h, D, t)) =
          Taken(runs, t) + (IF t = pair THEN 2 ELSE 0) + (IF t \in trips THEN 3 ELSE 0)
    BY <1>1, <1>2 DEF Holds
  <2>3. Taken(runs, t) > 0
    <3>1. Taken(runs, t) \in Nat
      BY <1>2, RunsTake
    <3> QED BY <2>1, <2>2, <3>1
  <2>4. PICK s \in RunHeads : runs[s] > 0 /\ (t = s \/ t - 1 = s \/ t - 2 = s)
    <3>1. \A r : RunsFrom(runs, r) \in Nat /\ (r \notin RunHeads => RunsFrom(runs, r) = 0)
      BY DEF RunsFrom
    <3>2. RunsFrom(runs, t) > 0 \/ RunsFrom(runs, t - 1) > 0 \/ RunsFrom(runs, t - 2) > 0
      BY <2>3, <3>1 DEF Taken
    <3> QED BY <3>1, <3>2 DEF RunsFrom
  <2>5. /\ s \in Nat \ {0} /\ {s, s + 1, s + 2} \subseteq DOMAIN GroupOf(h, D)
        /\ isShunzi(GroupOf(h, D), s)
    BY <1>1, <1>2, <2>4, RunIsHeld
  <2>6. t \in s .. s + 2 /\ \A n \in s .. s + 2 : getHuaSe(n) = getHuaSe(s)
    BY <1>2, <2>4, <2>5 DEF isShunzi
  <2>7. PICK u \in {s, s + 1} : u # t
    BY <2>5
  <2>8. u \in s .. s + 2 /\ u \in DOMAIN GroupOf(h, D)
    BY <2>5, <2>7
  <2>9. PICK j \in D : h[j] = u
    BY <2>8 DEF GroupOf
  <2>10. getHuaSe(h[j]) = getHuaSe(t)
    BY <2>6, <2>8, <2>9
  <2> QED BY <2>7, <2>9, <2>10 DEF t, D
<1> QED BY <1>3, <1>4

\* The hand without the tile at place i.
Without(h, i) == SubSeq(h, 1, i - 1) \o SubSeq(h, i + 1, Len(h))

\* Without one place, a hand has the tiles of its other places.
LEMMA OtherTiles ==
    ASSUME NEW h \in Seq(Tiles), NEW i \in DOMAIN h
    PROVE  /\ Without(h, i) \in Seq(Tiles)
           /\ ToSet(Without(h, i)) = {h[j] : j \in DOMAIN h \ {i}}
<1> DEFINE o == Without(h, i)
           n == Len(h)
<1>1. n \in Nat /\ DOMAIN h = 1 .. n /\ i \in 1 .. n
  OBVIOUS
<1>2. /\ o \in Seq(Tiles) /\ Len(o) = n - 1
      /\ \A k \in 1 .. n - 1 : o[k] = IF k < i THEN h[k] ELSE h[k + 1]
  <2> DEFINE a == SubSeq(h, 1, i - 1)
             b == SubSeq(h, i + 1, n)
  <2>1. a \in Seq(Tiles) /\ Len(a) = i - 1 /\ \A k \in 1 .. i - 1 : a[k] = h[k]
    BY <1>1
  <2>2. b \in Seq(Tiles) /\ Len(b) = n - i /\ \A k \in 1 .. n - i : b[k] = h[i + k]
    BY <1>1
  <2>3. o = a \o b
    BY DEF Without
  <2> HIDE DEF a, b, o, n
  <2>4. o \in Seq(Tiles) /\ Len(o) = n - 1
    <3>1. o \in Seq(Tiles) /\ Len(o) = Len(a) + Len(b)
      BY <2>1, <2>2, <2>3, ConcatProperties
    <3> QED BY <1>1, <2>1, <2>2, <3>1
  <2>5. ASSUME NEW k \in 1 .. n - 1 PROVE o[k] = IF k < i THEN h[k] ELSE h[k + 1]
    <3>1. CASE k < i
      <4>1. k \in 1 .. Len(a)
        BY <1>1, <2>1, <3>1
      <4>2. o[k] = a[k]
        BY <2>1, <2>2, <2>3, <4>1
      <4> QED BY <2>1, <3>1, <4>1, <4>2
    <3>2. CASE ~(k < i)
      <4>1. k - (i - 1) \in 1 .. n - i /\ k > Len(a) /\ k <= Len(a) + Len(b)
        BY <1>1, <2>1, <2>2, <3>2
      <4>2. o[k] = b[k - (i - 1)]
        <5>1. k \in 1 .. Len(a) + Len(b) /\ ~(k <= Len(a)) /\ Len(a) = i - 1
          BY <1>1, <2>1, <2>2, <4>1
        <5>2. (a \o b)[k] = IF k <= Len(a) THEN a[k] ELSE b[k - Len(a)]
          BY <2>1, <2>2, <5>1, ConcatProperties
        <5> QED BY <2>3, <5>1, <5>2
      <4>3. b[k - (i - 1)] = h[i + (k - (i - 1))] /\ i + (k - (i - 1)) = k + 1
        BY <1>1, <2>2, <4>1
      <4> QED BY <3>2, <4>2, <4>3
    <3> QED BY <3>1, <3>2
  <2> QED BY <2>4, <2>5
<1>3. \A k \in 1 .. n - 1 : o[k] = IF k < i THEN h[k] ELSE h[k + 1]
  BY <1>2
<1>4. DOMAIN o = 1 .. n - 1
  BY <1>1, <1>2
<1> HIDE DEF o, n
<1>5. ASSUME NEW k \in 1 .. n - 1 PROVE \E j \in DOMAIN h \ {i} : o[k] = h[j]
  <2>1. CASE k < i
    <3>1. k \in DOMAIN h \ {i} /\ o[k] = h[k]
      BY <1>1, <1>3, <2>1
    <3> QED BY <3>1
  <2>2. CASE ~(k < i)
    <3>1. k + 1 \in DOMAIN h \ {i} /\ o[k] = h[k + 1]
      BY <1>1, <1>3, <2>2
    <3> QED BY <3>1
  <2> QED BY <2>1, <2>2
<1>6. ASSUME NEW j \in DOMAIN h \ {i} PROVE \E k \in 1 .. n - 1 : h[j] = o[k]
  <2>1. CASE j < i
    <3>1. j \in 1 .. n - 1 /\ o[j] = h[j]
      BY <1>1, <1>3, <2>1
    <3> QED BY <3>1
  <2>2. CASE ~(j < i)
    <3>1. j - 1 \in 1 .. n - 1 /\ o[j - 1] = h[j - 1 + 1] /\ j - 1 + 1 = j
      BY <1>1, <1>3, <2>2
    <3> QED BY <3>1
  <2> QED BY <2>1, <2>2
<1>7. {o[k] : k \in 1 .. n - 1} = {h[j] : j \in DOMAIN h \ {i}}
  <2> DEFINE O == {o[k] : k \in 1 .. n - 1}
             H == {h[j] : j \in DOMAIN h \ {i}}
  <2>1. \A v \in O : v \in H
    BY <1>5
  <2>2. \A v \in H : v \in O
    BY <1>6
  <2> HIDE DEF O, H
  <2>3. O = H
    BY <2>1, <2>2
  <2> QED BY <2>3 DEF O, H
<1>8. ToSet(o) = {h[j] : j \in DOMAIN h \ {i}}
  BY <1>4, <1>7 DEF ToSet
<1> QED BY <1>2, <1>8 DEF o

\* A tile put into a sequence of tiles is in it, with all that were.
LEMMA TileInserted ==
    ASSUME NEW x \in Seq(Tiles), NEW p \in DOMAIN x, NEW d \in Tiles
    PROVE  /\ InsertAt(x, p, d) \in Seq(Tiles)
           /\ ToSet(InsertAt(x, p, d)) = ToSet(x) \cup {d}
<1> DEFINE y == InsertAt(x, p, d)
           n == Len(x)
<1>1. n \in Nat /\ DOMAIN x = 1 .. n /\ p \in 1 .. n
  OBVIOUS
<1>2. /\ y \in Seq(Tiles) /\ Len(y) = n + 1
      /\ \A k \in 1 .. n + 1 : y[k] = IF k < p THEN x[k] ELSE IF k = p THEN d ELSE x[k - 1]
  <2> DEFINE a == SubSeq(x, 1, p - 1)
             m == a \o <<d>>
             b == SubSeq(x, p, n)
  <2>1. a \in Seq(Tiles) /\ Len(a) = p - 1 /\ \A k \in 1 .. p - 1 : a[k] = x[k]
    BY <1>1
  <2>2. /\ b \in Seq(Tiles) /\ Len(b) = n - p + 1
        /\ \A k \in 1 .. n - p + 1 : b[k] = x[p + k - 1]
    BY <1>1
  <2>3. y = m \o b
    BY DEF InsertAt
  <2> HIDE DEF b, y, n
  <2>4. /\ m \in Seq(Tiles) /\ Len(m) = p /\ m[p] = d
        /\ \A k \in 1 .. p - 1 : m[k] = x[k]
    <3> HIDE DEF a
    <3>1. m \in Seq(Tiles) /\ Len(m) = p /\ m[p] = d
      BY <1>1, <2>1
    <3>2. ASSUME NEW k \in 1 .. p - 1 PROVE m[k] = x[k]
      <4>1. k \in 1 .. Len(a)
        BY <1>1, <2>1
      <4>2. m[k] = a[k]
        BY <2>1, <4>1
      <4> QED BY <2>1, <4>2
    <3> QED BY <3>1, <3>2
  <2> HIDE DEF a, m
  <2>5. y \in Seq(Tiles) /\ Len(y) = n + 1
    <3>1. y \in Seq(Tiles) /\ Len(y) = Len(m) + Len(b)
      BY <2>2, <2>3, <2>4, ConcatProperties
    <3> QED BY <1>1, <2>2, <2>4, <3>1
  <2>6. ASSUME NEW k \in 1 .. n + 1
        PROVE  y[k] = IF k < p THEN x[k] ELSE IF k = p THEN d ELSE x[k - 1]
    <3>1. CASE k <= p
      <4>1. k \in 1 .. Len(m)
        BY <1>1, <2>4, <3>1
      <4>2. y[k] = m[k]
        BY <2>2, <2>3, <2>4, <4>1
      <4>3. CASE k = p
        BY <1>1, <2>4, <4>2, <4>3
      <4>4. CASE k < p
        <5>1. k \in 1 .. p - 1
          BY <1>1, <4>4
        <5> QED BY <2>4, <4>2, <4>4, <5>1
      <4> QED BY <1>1, <3>1, <4>3, <4>4
    <3>2. CASE k > p
      <4>1. k - p \in 1 .. n - p + 1 /\ k > Len(m) /\ k <= Len(m) + Len(b)
        BY <1>1, <2>2, <2>4, <3>2
      <4>2. y[k] = b[k - p]
        <5>1. k \in 1 .. Len(m) + Len(b) /\ ~(k <= Len(m)) /\ Len(m) = p
          BY <1>1, <2>2, <2>4, <4>1
        <5>2. (m \o b)[k] = IF k <= Len(m) THEN m[k] ELSE b[k - Len(m)]
          BY <2>2, <2>4, <5>1, ConcatProperties
        <5> QED BY <2>3, <5>1, <5>2
      <4>3. b[k - p] = x[p + (k - p) - 1] /\ p + (k - p) - 1 = k - 1
        BY <1>1, <2>2, <4>1
      <4> QED BY <1>1, <3>2, <4>2, <4>3
    <3> QED BY <1>1, <3>1, <3>2
  <2> QED BY <2>5, <2>6
<1>3. \A k \in 1 .. n + 1 : y[k] = IF k < p THEN x[k] ELSE IF k = p THEN d ELSE x[k - 1]
  BY <1>2
<1>4. DOMAIN y = 1 .. n + 1
  BY <1>1, <1>2
<1> HIDE DEF y, n
<1>5. ASSUME NEW k \in 1 .. n + 1 PROVE y[k] = d \/ \E j \in DOMAIN x : y[k] = x[j]
  <2>1. CASE k < p
    <3>1. k \in DOMAIN x /\ y[k] = x[k]
      BY <1>1, <1>3, <2>1
    <3> QED BY <3>1
  <2>2. CASE k = p
    BY <1>1, <1>3, <2>2
  <2>3. CASE k > p
    <3>1. k - 1 \in DOMAIN x /\ y[k] = x[k - 1]
      BY <1>1, <1>3, <2>3
    <3> QED BY <3>1
  <2> QED BY <1>1, <2>1, <2>2, <2>3
<1>6. ASSUME NEW j \in DOMAIN x PROVE \E k \in 1 .. n + 1 : x[j] = y[k]
  <2>1. CASE j < p
    <3>1. j \in 1 .. n + 1 /\ y[j] = x[j]
      BY <1>1, <1>3, <2>1
    <3> QED BY <3>1
  <2>2. CASE ~(j < p)
    <3>1. j + 1 \in 1 .. n + 1 /\ y[j + 1] = x[j + 1 - 1] /\ j + 1 - 1 = j
      BY <1>1, <1>3, <2>2
    <3> QED BY <3>1
  <2> QED BY <2>1, <2>2
<1>7. p \in 1 .. n + 1 /\ y[p] = d
  BY <1>1, <1>3
<1>8. {y[k] : k \in 1 .. n + 1} = {x[k] : k \in DOMAIN x} \cup {d}
  BY <1>5, <1>6, <1>7
<1>9. ToSet(y) = ToSet(x) \cup {d}
  BY <1>4, <1>8 DEF ToSet
<1> QED BY <1>2, <1>9 DEF y

\* Whether the tile drop is inserted or, greater than all tiles of the hand, left
\* out, the hand that generateHuType looks at has tiles of the same suits.
LEMMA DropKeepsSuits ==
    ASSUME NEW h, IsHand(h), PairAndMelds(h), NEW i \in DOMAIN h, NEW laid
    PROVE  /\ withDrop(Without(h, i), h[i]) \in Seq(Tiles)
           /\ 1 \in DOMAIN withDrop(Without(h, i), h[i])
           /\ SuitsIn(withDrop(Without(h, i), h[i]), laid) = SuitsIn(h, laid)
<1> DEFINE o == Without(h, i)
           y == withDrop(o, h[i])
           later == {k \in DOMAIN o : o[k] >= h[i]}
<1>1. /\ h \in Seq(Tiles) /\ h[i] \in Tiles
      /\ o \in Seq(Tiles) /\ ToSet(o) = {h[j] : j \in DOMAIN h \ {i}}
  <2>1. h \in Seq(Tiles)
    BY DEF IsHand
  <2>2. h[i] \in Tiles
    BY <2>1
  <2> QED BY <2>1, <2>2, OtherTiles
<1>2. y = IF later = {} THEN o ELSE InsertAt(o, Min(later), h[i])
  BY DEF withDrop
<1>3. PICK a \in DOMAIN h : a # i /\ getHuaSe(h[a]) = getHuaSe(h[i])
  BY NoTileIsAlone
<1> HIDE DEF o
<1>4. DOMAIN o = 1 .. Len(o) /\ Len(o) \in Nat /\ Len(o) > 0
  <2>1. h[a] \in ToSet(o)
    BY <1>1, <1>3
  <2>2. DOMAIN o = 1 .. Len(o) /\ Len(o) \in Nat /\ DOMAIN o # {}
    BY <1>1, <2>1 DEF ToSet
  <2> QED BY <2>2
<1>5. CASE later = {}
  <2>1. y = o
    BY <1>2, <1>5
  <2>2. \A j \in DOMAIN h : \E k \in DOMAIN o : getHuaSe(o[k]) = getHuaSe(h[j])
    <3> SUFFICES ASSUME NEW j \in DOMAIN h
                 PROVE  \E k \in DOMAIN o : getHuaSe(o[k]) = getHuaSe(h[j])
      OBVIOUS
    <3>1. PICK b \in DOMAIN h \ {i} : getHuaSe(h[b]) = getHuaSe(h[j])
      BY <1>3
    <3>2. PICK k \in DOMAIN o : o[k] = h[b]
      BY <1>1 DEF ToSet
    <3> QED BY <3>1, <3>2
  <2>3. \A k \in DOMAIN o : \E j \in DOMAIN h : getHuaSe(h[j]) = getHuaSe(o[k])
    BY <1>1 DEF ToSet
  <2>4. {getHuaSe(o[k]) : k \in DOMAIN o} = {getHuaSe(h[j]) : j \in DOMAIN h}
    BY <2>2, <2>3
  <2> HIDE DEF y
  <2>5. y \in Seq(Tiles) /\ 1 \in DOMAIN y /\ SuitsIn(y, laid) = SuitsIn(h, laid)
    <3>1. o \in Seq(Tiles) /\ 1 \in DOMAIN o
      BY <1>1, <1>4
    <3>2. SuitsIn(o, laid) = SuitsIn(h, laid)
      BY <2>4 DEF SuitsIn
    <3> QED BY <2>1, <3>1, <3>2
  <2> QED BY <2>5 DEF y, o
<1>6. CASE later # {}
  <2>1. Min(later) \in later
    <3>1. later \subseteq Nat
      BY <1>4
    <3> HIDE DEF later
    <3>2. \E x \in later : \A z \in later : x <= z
      BY <1>6, <3>1, LeastNumber
    <3> QED BY <3>2 DEF Min
  <2>2. Min(later) \in DOMAIN o
    BY <2>1
  <2> HIDE DEF later
  <2>3. y = InsertAt(o, Min(later), h[i])
    BY <1>2, <1>6
  <2> HIDE DEF y
  <2>4. y \in Seq(Tiles) /\ ToSet(y) = ToSet(o) \cup {h[i]}
    BY <1>1, <2>2, <2>3, TileInserted
  <2>5. {y[k] : k \in DOMAIN y} = {h[j] : j \in DOMAIN h}
    BY <1>1, <2>4 DEF ToSet
  <2>6. {getHuaSe(y[k]) : k \in DOMAIN y} = {getHuaSe(h[j]) : j \in DOMAIN h}
    <3>1. ASSUME NEW k \in DOMAIN y PROVE \E j \in DOMAIN h : y[k] = h[j]
      BY <2>5
    <3>2. ASSUME NEW j \in DOMAIN h PROVE \E k \in DOMAIN y : y[k] = h[j]
      BY <2>5
    <3> QED BY <3>1, <3>2
  <2>7. 1 \in DOMAIN y
    <3>1. DOMAIN y = 1 .. Len(y) /\ Len(y) \in Nat
      BY <2>4
    <3>2. DOMAIN y # {}
      BY <2>5
    <3> QED BY <3>1, <3>2
  <2>8. y \in Seq(Tiles) /\ 1 \in DOMAIN y /\ SuitsIn(y, laid) = SuitsIn(h, laid)
    BY <2>4, <2>6, <2>7 DEF SuitsIn
  <2> QED BY <2>8 DEF y, o
<1> QED BY <1>5, <1>6

\* Whichever way the winning tile comes to the hand, the suits of all tiles decide.
LEMMA SuitsDecide ==
    ASSUME HandInv, canHu(hand), NEW i \in DOMAIN hand
    PROVE  /\ generateHuType(Without(hand, i), hand[i], melds, FALSE) = {"HT_QINGYISE"} <=>
                  Cardinality(SuitsIn(hand, melds)) = 1
           /\ generateHuType(hand, hand[i], melds, TRUE) = {"HT_QINGYISE"} <=>
                  Cardinality(SuitsIn(hand, melds)) = 1
<1> DEFINE y == withDrop(Without(hand, i), hand[i])
<1>1. /\ IsHand(hand) /\ PairAndMelds(hand) /\ hand \in Seq(Tiles) /\ melds \in Seq(MeldTiles)
  BY HuSplits DEF HandInv, IsHand
<1>2. y \in Seq(Tiles) /\ 1 \in DOMAIN y /\ SuitsIn(y, melds) = SuitsIn(hand, melds)
  BY <1>1, DropKeepsSuits
<1> HIDE DEF y
<1>3. \A S : \A q \in Seq(S) : IsFiniteSet(DOMAIN q)
  <2> SUFFICES ASSUME NEW S, NEW q \in Seq(S) PROVE IsFiniteSet(DOMAIN q)
    OBVIOUS
  <2>1. Len(q) \in Nat /\ DOMAIN q = 1 .. Len(q)
    OBVIOUS
  <2>2. IsFiniteSet(1 .. Len(q))
    BY <2>1, FS_Interval
  <2> QED BY <2>1, <2>2
<1>4. isQingYiSe(y, melds) <=> Cardinality(SuitsIn(hand, melds)) = 1
  BY <1>1, <1>2, <1>3, OneSuit
<1>5. isQingYiSe(hand, melds) <=> Cardinality(SuitsIn(hand, melds)) = 1
  <2>1. 1 \in DOMAIN hand
    BY <1>1
  <2> QED BY <1>1, <1>3, <2>1, OneSuit
<1>6. /\ generateHuType(Without(hand, i), hand[i], melds, FALSE) = {"HT_QINGYISE"} <=>
           isQingYiSe(y, melds)
      /\ generateHuType(hand, hand[i], melds, TRUE) = {"HT_QINGYISE"} <=> isQingYiSe(hand, melds)
  <2>1. {"HT_QINGYISE"} # {"HT_NORMAL"}
    OBVIOUS
  <2> QED BY <2>1 DEF generateHuType, y
<1> QED BY <1>4, <1>5, <1>6

\* generateHuType (ServerUtility.cpp:358) calls a winning hand qing yi se exactly
\* if hand and melds are of one suit, although it may leave out the winning tile:
\* for every suit size, every set of tiles and hands of every size.
THEOREM QingYiSeIsJustified == Spec => []QingYiSeIsOneSuit
<1>1. HandInv => QingYiSeIsOneSuit
  BY SuitsDecide DEF QingYiSeIsOneSuit, SuitsIn, Without
<1> QED BY <1>1, HandsKept, PTL
=============================================================================
