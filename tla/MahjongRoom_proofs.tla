------------------------ MODULE MahjongRoom_proofs ------------------------
(***************************************************************************)
(* Invariants of MahjongRoom for every number of players, every set of     *)
(* robots among them, every number of kinds of tiles, every winning rule   *)
(* and every deal.  First who is asked and who holds the bank; then, on    *)
(* that, the hands: no tile is in two places, hands stay sorted, they have *)
(* the size the turn asks for, one player at most can claim a discard, and *)
(* a discard request names a tile of the hand.  What is assumed of the     *)
(* constants for the hands (four copies of a tile, hands of 3m + 2 tiles,  *)
(* the banker at seat 0) is what GameDefine.h fixes and what the first     *)
(* full room has.                                                          *)
(***************************************************************************)
EXTENDS MahjongRoom, TLAPS, FiniteSetTheorems, SequenceTheorems

----------------------------------------------------------------------------
(* What the operators on hands and melds return: the lemmas the proofs of the  *)
(* invariants rest on.                                                         *)

\* A set of natural numbers has a least element, and Min is that element (the
\* "smallest" of the priority comparison in playerConfirmAction, of std::sort
\* and of the first match of a loop).
LEMMA MinInSet ==
    ASSUME NEW S, S \subseteq Nat, S # {}
    PROVE  /\ Min(S) \in S
           /\ \A x \in S : Min(S) <= x
<1> DEFINE Below(n) == 0 .. n
           T == {Below(n) : n \in S}
<1>1. /\ T \subseteq FiniteSubsetsOf(Nat)
      /\ T # {}
  <2>1. ASSUME NEW n \in S
        PROVE  Below(n) \in FiniteSubsetsOf(Nat)
    <3>1. n \in Nat /\ 0 \in Int
      OBVIOUS
    <3>2. IsFiniteSet(0 .. n)
      BY <3>1, FS_Interval
    <3>3. 0 .. n \subseteq Nat
      BY <3>1
    <3> QED BY <3>2, <3>3 DEF FiniteSubsetsOf
  <2> QED BY <2>1
<1>2. PICK x \in T : \A y \in T : ~ (<<y, x>> \in StrictSubsetOrdering(Nat))
  <2>1. IsWellFoundedOn(StrictSubsetOrdering(Nat), FiniteSubsetsOf(Nat))
    BY FS_StrictSubsetOrderingWellFounded
  <2> HIDE DEF T
  <2> QED BY <1>1, <2>1, WFMin
<1>3. PICK m \in S : x = Below(m)
  BY <1>2
<1>4. ASSUME NEW n \in S, n < m
      PROVE  FALSE
  <2>1. Below(n) \subseteq Below(m) /\ m \in Below(m) /\ m \notin Below(n)
    BY <1>4
  <2>2. Below(n) \in SUBSET Nat /\ Below(m) \in SUBSET Nat
    OBVIOUS
  <2>3. <<Below(n), Below(m)>> \in StrictSubsetOrdering(Nat)
    <3> HIDE DEF Below
    <3> QED BY <2>1, <2>2 DEF StrictSubsetOrdering
  <2> QED BY <1>2, <1>3, <2>3
<1>5. \A n \in S : m <= n
  BY <1>4
<1> QED BY <1>5 DEF Min

\* A sequence with the elements i, ..., j - 1 cut out of it.
LEMMA CutType ==
    ASSUME NEW S, NEW h \in Seq(S), NEW i \in 1 .. Len(h) + 1, NEW j \in i .. Len(h) + 1
    PROVE  /\ SubSeq(h, 1, i - 1) \o SubSeq(h, j, Len(h)) \in Seq(S)
           /\ Len(SubSeq(h, 1, i - 1) \o SubSeq(h, j, Len(h))) = Len(h) - (j - i)
           /\ \A k \in 1 .. Len(h) - (j - i) :
                (SubSeq(h, 1, i - 1) \o SubSeq(h, j, Len(h)))[k] =
                    IF k < i THEN h[k] ELSE h[k + (j - i)]
<1> DEFINE a == SubSeq(h, 1, i - 1)
           b == SubSeq(h, j, Len(h))
<1>1. /\ Len(h) \in Nat
      /\ \A k \in 1 .. Len(h) : h[k] \in S
  BY LenProperties, ElementOfSeq
<1>2. /\ a \in Seq(S)
      /\ Len(a) = i - 1
      /\ \A k \in 1 .. i - 1 : a[k] = h[k]
  <2>1. 1 \in Int /\ i - 1 \in Int /\ \A k \in 1 .. i - 1 : h[k] \in S
    BY <1>1
  <2>2. /\ a \in Seq(S)
        /\ Len(a) = IF 1 <= i - 1 THEN (i - 1) - 1 + 1 ELSE 0
        /\ \A k \in 1 .. (i - 1) - 1 + 1 : a[k] = h[1 + k - 1]
    BY <2>1, SubSeqProperties
  <2> QED BY <2>2, <1>1
<1>3. /\ b \in Seq(S)
      /\ Len(b) = Len(h) - j + 1
      /\ \A k \in 1 .. Len(h) - j + 1 : b[k] = h[j + k - 1]
  <2>1. j \in Int /\ Len(h) \in Int /\ \A k \in j .. Len(h) : h[k] \in S
    BY <1>1
  <2>2. /\ b \in Seq(S)
        /\ Len(b) = IF j <= Len(h) THEN Len(h) - j + 1 ELSE 0
        /\ \A k \in 1 .. Len(h) - j + 1 : b[k] = h[j + k - 1]
    BY <2>1, SubSeqProperties
  <2> QED BY <2>2, <1>1
<1> HIDE DEF a, b
<1>4. /\ a \o b \in Seq(S)
      /\ Len(a \o b) = Len(a) + Len(b)
      /\ \A k \in 1 .. Len(a) + Len(b) : (a \o b)[k] = IF k <= Len(a) THEN a[k] ELSE b[k - Len(a)]
  BY <1>2, <1>3, ConcatProperties
<1>5. Len(a) + Len(b) = Len(h) - (j - i)
  BY <1>1, <1>2, <1>3
<1>6. ASSUME NEW k \in 1 .. Len(h) - (j - i)
      PROVE  (a \o b)[k] = IF k < i THEN h[k] ELSE h[k + (j - i)]
  <2>1. CASE k < i
    BY <2>1, <1>1, <1>2, <1>4, <1>5
  <2>2. CASE k >= i
    <3>1. k - Len(a) \in 1 .. Len(h) - j + 1 /\ ~ (k <= Len(a)) /\ j + (k - Len(a)) - 1 = k + (j - i)
      BY <2>2, <1>1, <1>2
    <3>2. b[k - Len(a)] = h[k + (j - i)]
      BY <3>1, <1>3
    <3>3. (a \o b)[k] = b[k - Len(a)]
      BY <3>1, <1>4, <1>5
    <3> QED BY <2>2, <3>2, <3>3
  <2>3. k < i \/ k >= i
    BY <1>1
  <2> QED BY <2>1, <2>2, <2>3
<1> QED BY <1>4, <1>5, <1>6 DEF a, b

\* RemoveAt, erasing one element (CharacterPlayer::dropMahjong).
LEMMA RemoveAtType ==
    ASSUME NEW S, NEW h \in Seq(S), NEW i \in 1 .. Len(h)
    PROVE  /\ RemoveAt(h, i) \in Seq(S)
           /\ Len(RemoveAt(h, i)) = Len(h) - 1
<1>1. Len(h) \in Nat
  BY LenProperties
<1>2. i \in 1 .. Len(h) + 1 /\ i + 1 \in i .. Len(h) + 1 /\ (i + 1) - i = 1
  BY <1>1
<1>3. /\ SubSeq(h, 1, i - 1) \o SubSeq(h, i + 1, Len(h)) \in Seq(S)
      /\ Len(SubSeq(h, 1, i - 1) \o SubSeq(h, i + 1, Len(h))) = Len(h) - ((i + 1) - i)
  BY <1>2, CutType
<1> QED BY <1>2, <1>3 DEF RemoveAt

\* Removing n adjacent copies of a tile: a hand stays a hand, and it gets n tiles
\* shorter exactly when the copies lie side by side in it.
LEMMA RemoveRunType ==
    ASSUME NEW h \in Seq(Kind), NEW t \in Kind, NEW n \in Nat \ {0}
    PROVE  /\ RemoveRun(h, t, n) \in Seq(Kind)
           /\ Len(RemoveRun(h, t, n)) =
                IF RunStarts(h, t, n) = {} THEN Len(h) ELSE Len(h) - n
<1>1. CASE RunStarts(h, t, n) = {}
  BY <1>1 DEF RemoveRun
<1>2. CASE RunStarts(h, t, n) # {}
  <2> DEFINE i == Min(RunStarts(h, t, n))
  <2>1. Len(h) \in Nat
    BY LenProperties
  <2>2. i \in RunStarts(h, t, n)
    <3>1. RunStarts(h, t, n) \subseteq Nat
      BY <2>1 DEF RunStarts
    <3> QED BY <1>2, <3>1, MinInSet
  <2>3. i \in 1 .. Len(h) /\ i + n - 1 <= Len(h)
    BY <2>2 DEF RunStarts
  <2>4. RemoveRun(h, t, n) = SubSeq(h, 1, i - 1) \o SubSeq(h, i + n, Len(h))
    BY <1>2 DEF RemoveRun
  <2> HIDE DEF i
  <2>5. i \in 1 .. Len(h) + 1 /\ i + n \in i .. Len(h) + 1 /\ (i + n) - i = n
    BY <2>1, <2>3
  <2>6. /\ SubSeq(h, 1, i - 1) \o SubSeq(h, i + n, Len(h)) \in Seq(Kind)
        /\ Len(SubSeq(h, 1, i - 1) \o SubSeq(h, i + n, Len(h))) = Len(h) - ((i + n) - i)
    BY <2>5, CutType
  <2> QED BY <1>2, <2>4, <2>5, <2>6
<1> QED BY <1>1, <1>2

\* The indices 1, ..., n are n many.
LEMMA IndexCount ==
    ASSUME NEW n \in Nat
    PROVE  IsFiniteSet(1 .. n) /\ Cardinality(1 .. n) = n
BY FS_Interval

\* How many tiles of the hand are at or below t.
LEMMA AtOrBelowType ==
    ASSUME NEW h \in Seq(Kind), NEW t \in Int
    PROVE  LET B == {j \in 1 .. Len(h) : h[j] <= t}
           IN  IsFiniteSet(B) /\ Cardinality(B) \in 0 .. Len(h)
<1> DEFINE B == {j \in 1 .. Len(h) : h[j] <= t}
<1>1. Len(h) \in Nat
  BY LenProperties
<1>2. IsFiniteSet(1 .. Len(h)) /\ Cardinality(1 .. Len(h)) = Len(h)
  BY <1>1, IndexCount
<1>3. IsFiniteSet(B) /\ Cardinality(B) <= Len(h)
  BY <1>2, FS_Subset
<1> QED BY <1>1, <1>3, FS_CardinalityType

\* std::sort (CharacterPlayer::reorderMahjong) returns a hand of the same length
\* in ascending order.
LEMMA ReorderedType ==
    ASSUME NEW h \in Seq(Kind)
    PROVE  /\ Reordered(h) \in Seq(Kind)
           /\ Len(Reordered(h)) = Len(h)
           /\ IsReordered(Reordered(h))
<1> DEFINE B(t) == {j \in 1 .. Len(h) : h[j] <= t}
           S(i) == {t \in Kind : Cardinality(B(t)) >= i}
           r(i) == Min(S(i))
<1>1. /\ Len(h) \in Nat
      /\ \A j \in 1 .. Len(h) : h[j] \in Kind
  BY LenProperties, ElementOfSeq
<1>2. TileKinds \in Kind /\ Kind \subseteq Nat
  BY ConstantsAssumption DEF Kind
<1>3. Cardinality(B(TileKinds)) = Len(h)
  <2>1. B(TileKinds) = 1 .. Len(h)
    BY <1>1 DEF Kind
  <2>2. Cardinality(1 .. Len(h)) = Len(h)
    BY <1>1, IndexCount
  <2> QED BY <2>1, <2>2
<1>4. ASSUME NEW t \in Kind
      PROVE  Cardinality(B(t)) \in 0 .. Len(h)
  <2>1. t \in Int
    BY <1>2
  <2> QED BY <2>1, AtOrBelowType
<1> HIDE DEF B
<1>5. ASSUME NEW i \in 1 .. Len(h)
      PROVE  /\ r(i) \in S(i)
             /\ r(i) \in Kind
             /\ \A x \in S(i) : r(i) <= x
  <2>1. TileKinds \in S(i)
    BY <1>1, <1>2, <1>3
  <2>2. S(i) \subseteq Nat
    BY <1>2
  <2>3. r(i) \in S(i) /\ \A x \in S(i) : r(i) <= x
    BY <2>1, <2>2, MinInSet
  <2> QED BY <2>3
<1>6. \A i, j \in 1 .. Len(h) : i <= j => S(j) \subseteq S(i)
  BY <1>1, <1>4
<1>7. Reordered(h) = [i \in 1 .. Len(h) |-> r(i)]
  BY DEF Reordered, B
<1> HIDE DEF r, S
<1>8. Reordered(h) \in Seq(Kind)
  BY <1>1, <1>5, <1>7
<1>9. /\ Len(Reordered(h)) = Len(h)
      /\ DOMAIN Reordered(h) = 1 .. Len(h)
  BY <1>1, <1>7, <1>8, LenProperties
<1>10. ASSUME NEW i \in 1 .. Len(h), NEW j \in 1 .. Len(h), i <= j
       PROVE  Reordered(h)[i] <= Reordered(h)[j]
  <2>1. r(j) \in S(i)
    BY <1>5, <1>6, <1>10
  <2> QED BY <2>1, <1>5, <1>7
<1> QED BY <1>8, <1>9, <1>10 DEF IsReordered

\* Laying down melds: a hand stays a hand, the melds stay melds, and their number
\* grows by one unless a peng is turned into a gang.
LEMMA PengType ==
    ASSUME NEW h \in Seq(Kind), NEW melds \in Seq(Meld), NEW t \in Kind
    PROVE  /\ PengHand(h, t) \in Seq(Kind)
           /\ PengMelds(melds, t) \in Seq(Meld)
           /\ Len(PengMelds(melds, t)) = Len(melds) + 1
<1>1. PengHand(h, t) \in Seq(Kind)
  BY RemoveRunType DEF PengHand
<1>2. [mah |-> t, type |-> AT_PENG] \in Meld
  BY DEF Meld
<1> QED BY <1>1, <1>2, AppendProperties DEF PengMelds

LEMMA GangType ==
    ASSUME NEW h \in Seq(Kind), NEW melds \in Seq(Meld), NEW t \in Kind,
           NEW selfDrawn \in BOOLEAN
    PROVE  /\ GangHand(h, melds, t, selfDrawn) \in Seq(Kind)
           /\ GangMelds(melds, t) \in Seq(Meld)
           /\ Len(GangMelds(melds, t)) = IF HasPeng(melds, t) THEN Len(melds) ELSE Len(melds) + 1
<1>1. \A g \in Seq(Kind), n \in {1, 3} : RemoveRun(g, t, n) \in Seq(Kind)
  BY RemoveRunType
<1>2. GangHand(h, melds, t, selfDrawn) \in Seq(Kind)
  BY <1>1 DEF GangHand
<1>3. [mah |-> t, type |-> AT_GANG] \in Meld
  BY DEF Meld
<1>4. CASE HasPeng(melds, t)
  <2>1. PengIndexes(melds, t) \subseteq Nat
    BY LenProperties DEF PengIndexes
  <2>2. Min(PengIndexes(melds, t)) \in PengIndexes(melds, t)
    BY <1>4, <2>1, MinInSet DEF HasPeng
  <2>3. Min(PengIndexes(melds, t)) \in 1 .. Len(melds)
    BY <2>2 DEF PengIndexes
  <2> QED BY <1>2, <1>3, <1>4, <2>3, ExceptSeq DEF GangMelds
<1>5. CASE ~HasPeng(melds, t)
  BY <1>2, <1>3, <1>5, AppendProperties DEF GangMelds
<1> QED BY <1>4, <1>5

\* Asking a player changes only what that player may answer, to something it was
\* offered; only a robot that has an answer queued keeps that one.
LEMMA AskActionType ==
    ASSUME NEW answers \in [Seats -> SUBSET ActionType], NEW p \in Seats,
           NEW acts \in SUBSET ActionType, acts # {}
    PROVE  /\ AskAction(answers, p, acts) \in [Seats -> SUBSET ActionType]
           /\ \A q \in Seats \ {p} : AskAction(answers, p, acts)[q] = answers[q]
           /\ p \notin Robots \/ answers[p] = {} =>
                /\ AskAction(answers, p, acts)[p] # {}
                /\ AskAction(answers, p, acts)[p] \subseteq acts
<1>1. Min(acts) \in acts
  <2>1. acts \subseteq Nat
    BY DEF ActionType, AT_HU, AT_GANG, AT_PENG, AT_PASS
  <2> QED BY <2>1, MinInSet
<1> QED BY <1>1 DEF AskAction

LEMMA AskDropType ==
    ASSUME NEW drops \in [Seats -> SUBSET Nat], NEW p \in Seats, NEW h \in Seq(Kind)
    PROVE  /\ AskDrop(drops, p, h) \in [Seats -> SUBSET Nat]
           /\ \A q \in Seats \ {p} : AskDrop(drops, p, h)[q] = drops[q]
           /\ drops[p] = {} /\ h # <<>> =>
                /\ AskDrop(drops, p, h)[p] # {}
                /\ AskDrop(drops, p, h)[p] \subseteq DOMAIN h
<1>1. /\ Len(h) \in Nat
      /\ DOMAIN h = 1 .. Len(h)
      /\ h # <<>> => Len(h) \in 1 .. Len(h)
  BY LenProperties, EmptySeq
<1>2. 1 .. Len(h) \subseteq Nat /\ {Len(h)} \subseteq Nat
  BY <1>1
<1> QED BY <1>1, <1>2 DEF AskDrop

----------------------------------------------------------------------------
(* Counting tiles *)

\* Every player's places are finite, so are all of them.
LEMMA PlacesFinite ==
    ASSUME NEW P, IsFiniteSet(P), NEW F, \A p \in P : IsFiniteSet(F[p])
    PROVE  IsFiniteSet(PlacesOf(F, P)) /\ Cardinality(PlacesOf(F, P)) \in Nat
<1> DEFINE T == {{p} \X F[p] : p \in P}
           f == [p \in P |-> {p} \X F[p]]
<1>1. IsFiniteSet(T)
  <2>1. f \in Surjection(P, T)
    BY DEF Surjection
  <2> QED BY <2>1, FS_Surjection
<1>2. ASSUME NEW X \in T
      PROVE  IsFiniteSet(X)
  <2>1. PICK p \in P : X = {p} \X F[p]
    OBVIOUS
  <2>2. IsFiniteSet({p}) /\ IsFiniteSet(F[p])
    BY FS_Singleton
  <2> QED BY <2>1, <2>2, FS_Product
<1>3. IsFiniteSet(UNION T)
  BY <1>1, <1>2, FS_UNION
<1> QED BY <1>3, FS_CardinalityType DEF PlacesOf

\* All places are those of player q and those of the others.
LEMMA PlacesSplit ==
    ASSUME NEW P, IsFiniteSet(P), NEW F, \A p \in P : IsFiniteSet(F[p]), NEW q \in P
    PROVE  /\ Cardinality(PlacesOf(F, P \ {q})) \in Nat
           /\ Cardinality(F[q]) \in Nat
           /\ Cardinality(PlacesOf(F, P)) =
                Cardinality(PlacesOf(F, P \ {q})) + Cardinality(F[q])
<1> DEFINE A == PlacesOf(F, P \ {q})
           B == {q} \X F[q]
<1>1. IsFiniteSet(A) /\ Cardinality(A) \in Nat
  <2>1. IsFiniteSet(P \ {q})
    BY FS_RemoveElement
  <2> QED BY <2>1, PlacesFinite
<1>2. /\ IsFiniteSet(B)
      /\ Cardinality(B) = Cardinality(F[q])
      /\ Cardinality(F[q]) \in Nat
  <2>1. /\ IsFiniteSet({q}) /\ Cardinality({q}) = 1
        /\ IsFiniteSet(F[q]) /\ Cardinality(F[q]) \in Nat
    BY FS_Singleton, FS_CardinalityType
  <2>2. IsFiniteSet(B) /\ Cardinality(B) = 1 * Cardinality(F[q])
    BY <2>1, FS_Product
  <2> QED BY <2>1, <2>2
<1>3. PlacesOf(F, P) = A \cup B
  BY DEF PlacesOf
<1>4. A \cap B = {}
  BY DEF PlacesOf
<1> HIDE DEF A, B
<1>5. Cardinality(A \cup B) = Cardinality(A) + Cardinality(B) - 0
  BY <1>1, <1>2, <1>4, FS_Union, FS_EmptySet
<1> QED BY <1>1, <1>2, <1>3, <1>5 DEF A

\* When player p has as many places in F as player g[p] in G, all players
\* together have as many in F as in G.
LEMMA PlacesMoved ==
    ASSUME NEW P, IsFiniteSet(P), NEW F, NEW G, NEW g \in Bijection(P, P),
           \A p \in P : /\ IsFiniteSet(F[p]) /\ IsFiniteSet(G[p])
                        /\ Cardinality(F[p]) = Cardinality(G[g[p]])
    PROVE  Cardinality(PlacesOf(F, P)) = Cardinality(PlacesOf(G, P))
<1> DEFINE b == [p \in P |-> CHOOSE h : h \in Bijection(F[p], G[g[p]])]
           m == [x \in PlacesOf(F, P) |-> <<g[x[1]], b[x[1]][x[2]]>>]
<1>1. \A p \in P : g[p] \in P
  BY DEF Bijection, Injection
<1>2. ASSUME NEW p \in P
      PROVE  b[p] \in Bijection(F[p], G[g[p]])
  <2>1. ExistsBijection(F[p], G[g[p]])
    BY <1>1, FS_SameCardinalityBij
  <2> QED BY <2>1 DEF ExistsBijection
<1>3. \A p, q \in P : g[p] = g[q] => p = q
  BY DEF Bijection, Injection, IsInjective
<1>4. \A p \in P : \E q \in P : g[q] = p
  BY DEF Bijection, Surjection
<1>5. ASSUME NEW p \in P
      PROVE  /\ \A x \in F[p] : b[p][x] \in G[g[p]]
             /\ \A x, y \in F[p] : b[p][x] = b[p][y] => x = y
             /\ \A y \in G[g[p]] : \E x \in F[p] : b[p][x] = y
  <2>1. b[p] \in Bijection(F[p], G[g[p]])
    BY <1>2
  <2> HIDE DEF b
  <2> QED BY <2>1 DEF Bijection, Injection, IsInjective, Surjection
<1> HIDE DEF b
<1>6. \A x \in PlacesOf(F, P) : x[1] \in P /\ x[2] \in F[x[1]] /\ x = <<x[1], x[2]>>
  BY DEF PlacesOf
<1>7. \A p \in P : \A y \in G[p] : <<p, y>> \in PlacesOf(G, P)
  BY DEF PlacesOf
<1>8. \A p \in P : \A y \in F[p] : <<p, y>> \in PlacesOf(F, P)
  BY DEF PlacesOf
<1>9. m \in [PlacesOf(F, P) -> PlacesOf(G, P)]
  BY <1>1, <1>5, <1>6, <1>7
<1>10. ASSUME NEW x \in PlacesOf(F, P), NEW y \in PlacesOf(F, P), m[x] = m[y]
       PROVE  x = y
  <2>1. g[x[1]] = g[y[1]] /\ b[x[1]][x[2]] = b[y[1]][y[2]]
    BY <1>10
  <2>2. x[1] = y[1]
    BY <2>1, <1>3, <1>6
  <2>3. x[2] = y[2]
    BY <2>1, <2>2, <1>5, <1>6
  <2> QED BY <2>2, <2>3, <1>6
<1>11. ASSUME NEW z \in PlacesOf(G, P)
       PROVE  \E x \in PlacesOf(F, P) : m[x] = z
  <2>0. PICK p \in P : z \in {p} \X G[p]
    BY DEF PlacesOf
  <2>1. PICK y \in G[p] : z = <<p, y>>
    BY <2>0
  <2>2. PICK q \in P : g[q] = p
    BY <1>4
  <2>3. PICK x \in F[q] : b[q][x] = y
    BY <2>2, <1>5
  <2>4. m[<<q, x>>] = z
    BY <2>1, <2>2, <2>3, <1>8
  <2> QED BY <2>4, <1>8
<1>12. m \in Bijection(PlacesOf(F, P), PlacesOf(G, P))
  <2> HIDE DEF m
  <2> QED BY <1>9, <1>10, <1>11 DEF Bijection, Injection, IsInjective, Surjection
<1>13. IsFiniteSet(PlacesOf(F, P))
  BY PlacesFinite
<1> HIDE DEF m
<1> QED BY <1>12, <1>13, FS_Bijection DEF ExistsBijection

\* Fewer places are not more.
LEMMA PlacesSubset ==
    ASSUME NEW P, IsFiniteSet(P), NEW F, \A p \in P : IsFiniteSet(F[p]),
           NEW Q \in SUBSET P, NEW G, \A q \in Q : G[q] \subseteq F[q]
    PROVE  Cardinality(PlacesOf(G, Q)) <= Cardinality(PlacesOf(F, P))
<1>1. IsFiniteSet(PlacesOf(F, P))
  BY PlacesFinite
<1>2. PlacesOf(G, Q) \subseteq PlacesOf(F, P)
  BY DEF PlacesOf
<1> QED BY <1>1, <1>2, FS_Subset

\* A hand holds at most as many copies as tiles, and one if any.
LEMMA CountType ==
    ASSUME NEW h \in Seq(Kind), NEW t
    PROVE  /\ IsFiniteSet(Indexes(h, t))
           /\ Indexes(h, t) \subseteq 1 .. Len(h)
           /\ CountOf(h, t) \in Nat
           /\ CountOf(h, t) <= Len(h)
           /\ CountOf(h, t) = 0 <=> Indexes(h, t) = {}
<1>1. Len(h) \in Nat /\ DOMAIN h = 1 .. Len(h)
  BY LenProperties
<1>2. Indexes(h, t) \subseteq 1 .. Len(h)
  BY <1>1 DEF Indexes
<1>3. IsFiniteSet(1 .. Len(h)) /\ Cardinality(1 .. Len(h)) = Len(h)
  BY <1>1, IndexCount
<1>4. IsFiniteSet(Indexes(h, t)) /\ CountOf(h, t) <= Len(h)
  BY <1>2, <1>3, FS_Subset DEF CountOf
<1>5. CountOf(h, t) \in Nat
  BY <1>4, FS_CardinalityType DEF CountOf
<1>6. CountOf(h, t) = 0 <=> Indexes(h, t) = {}
  BY <1>4, FS_EmptySet DEF CountOf
<1> QED BY <1>2, <1>4, <1>5, <1>6

\* Adding one tile (CharacterPlayer::pickUpMahjong).
LEMMA CountAppend ==
    ASSUME NEW h \in Seq(Kind), NEW t \in Kind, NEW u
    PROVE  CountOf(Append(h, t), u) = IF u = t THEN CountOf(h, u) + 1 ELSE CountOf(h, u)
<1> DEFINE g == Append(h, t)
           n == Len(h) + 1
<1>1. Len(h) \in Nat /\ DOMAIN h = 1 .. Len(h)
  BY LenProperties
<1>2. /\ g \in Seq(Kind)
      /\ Len(g) = n
      /\ \A i \in 1 .. Len(h) : g[i] = h[i]
      /\ g[n] = t
  BY AppendProperties
<1>3. DOMAIN g = 1 .. n
  BY <1>2, LenProperties
<1> HIDE DEF g
<1>4. IsFiniteSet(Indexes(h, u)) /\ n \notin Indexes(h, u)
  <2>1. IsFiniteSet(Indexes(h, u)) /\ Indexes(h, u) \subseteq 1 .. Len(h)
    BY CountType
  <2> QED BY <1>1, <2>1
<1>5. CASE u = t
  <2>1. Indexes(g, u) = Indexes(h, u) \cup {n}
    BY <1>1, <1>2, <1>3, <1>5 DEF Indexes
  <2> QED BY <2>1, <1>4, <1>5, FS_AddElement DEF CountOf, g
<1>6. CASE u # t
  <2>1. Indexes(g, u) = Indexes(h, u)
    BY <1>1, <1>2, <1>3, <1>6 DEF Indexes
  <2> QED BY <2>1, <1>6 DEF CountOf, g
<1> QED BY <1>5, <1>6

\* Cutting out the elements i, ..., j - 1 of a hand takes away their tiles.
LEMMA CountCut ==
    ASSUME NEW h \in Seq(Kind), NEW i \in 1 .. Len(h) + 1, NEW j \in i .. Len(h) + 1, NEW u
    PROVE  CountOf(SubSeq(h, 1, i - 1) \o SubSeq(h, j, Len(h)), u) =
             CountOf(h, u) - Cardinality(Indexes(h, u) \cap (i .. j - 1))
<1> DEFINE g == SubSeq(h, 1, i - 1) \o SubSeq(h, j, Len(h))
           K == Indexes(h, u) \ (i .. j - 1)
           m == [x \in Indexes(g, u) |-> IF x < i THEN x ELSE x + (j - i)]
<1>1. Len(h) \in Nat /\ DOMAIN h = 1 .. Len(h)
  BY LenProperties
<1>2. /\ g \in Seq(Kind)
      /\ Len(g) = Len(h) - (j - i)
      /\ \A k \in 1 .. Len(h) - (j - i) : g[k] = IF k < i THEN h[k] ELSE h[k + (j - i)]
  BY CutType
<1> HIDE DEF g
<1>3. DOMAIN g = 1 .. Len(h) - (j - i)
  BY <1>2, LenProperties
<1>4. \A x \in Indexes(g, u) : x \in 1 .. Len(h) - (j - i) /\ g[x] = u
  BY <1>3 DEF Indexes
<1>5. ASSUME NEW x \in Indexes(g, u)
      PROVE  m[x] \in K
  <2>1. x \in 1 .. Len(h) - (j - i) /\ g[x] = u
    BY <1>4
  <2>2. CASE x < i
    <3>1. x \in 1 .. Len(h) /\ h[x] = u /\ x \notin i .. j - 1
      BY <1>1, <1>2, <2>1, <2>2
    <3> QED BY <1>1, <2>2, <3>1 DEF Indexes
  <2>3. CASE ~(x < i)
    <3>1. x + (j - i) \in 1 .. Len(h) /\ x + (j - i) \notin i .. j - 1
      BY <1>1, <2>1, <2>3
    <3>2. h[x + (j - i)] = u
      BY <1>2, <2>1, <2>3
    <3> QED BY <1>1, <2>3, <3>1, <3>2 DEF Indexes
  <2> QED BY <2>2, <2>3
<1>6. ASSUME NEW x \in Indexes(g, u), NEW y \in Indexes(g, u), m[x] = m[y]
      PROVE  x = y
  <2>1. x \in Int /\ y \in Int /\ i \in Int /\ j \in Int /\ i <= j
    BY <1>1, <1>4
  <2>2. (IF x < i THEN x ELSE x + (j - i)) = (IF y < i THEN y ELSE y + (j - i))
    BY <1>6
  <2> QED BY <2>1, <2>2
<1>7. ASSUME NEW y \in K
      PROVE  \E x \in Indexes(g, u) : m[x] = y
  <2>1. y \in 1 .. Len(h) /\ h[y] = u /\ (y < i \/ y >= j)
    BY <1>1 DEF Indexes
  <2>2. CASE y < i
    <3>1. y \in 1 .. Len(h) - (j - i) /\ g[y] = u
      BY <1>1, <1>2, <2>1, <2>2
    <3>2. y \in Indexes(g, u)
      BY <1>3, <3>1 DEF Indexes
    <3> QED BY <2>2, <3>2
  <2>3. CASE y >= j
    <3> DEFINE x == y - (j - i)
    <3>1. x \in 1 .. Len(h) - (j - i) /\ ~(x < i) /\ x + (j - i) = y
      BY <1>1, <2>1, <2>3
    <3>2. g[x] = u
      BY <1>2, <2>1, <3>1
    <3>3. x \in Indexes(g, u)
      BY <1>3, <3>1, <3>2 DEF Indexes
    <3>4. m[x] = y
      <4> HIDE DEF x
      <4> QED BY <3>1, <3>3
    <3> QED BY <3>3, <3>4
  <2> QED BY <2>1, <2>2, <2>3
<1>8. m \in Bijection(Indexes(g, u), K)
  <2>1. m \in [Indexes(g, u) -> K]
    BY <1>5
  <2> HIDE DEF m, K
  <2> QED BY <1>6, <1>7, <2>1 DEF Bijection, Injection, IsInjective, Surjection
<1>9. IsFiniteSet(Indexes(g, u)) /\ IsFiniteSet(Indexes(h, u))
  BY <1>2, CountType
<1>10. Cardinality(K) = Cardinality(Indexes(g, u))
  <2> HIDE DEF m, K
  <2> QED BY <1>8, <1>9, FS_Bijection DEF ExistsBijection
<1>11. Cardinality(K) = Cardinality(Indexes(h, u)) - Cardinality(Indexes(h, u) \cap (i .. j - 1))
  BY <1>9, FS_Difference
<1> QED BY <1>10, <1>11 DEF CountOf, g

LEMMA CountRemoveAt ==
    ASSUME NEW h \in Seq(Kind), NEW i \in 1 .. Len(h), NEW u
    PROVE  CountOf(RemoveAt(h, i), u) = IF u = h[i] THEN CountOf(h, u) - 1 ELSE CountOf(h, u)
<1>1. Len(h) \in Nat /\ DOMAIN h = 1 .. Len(h)
  BY LenProperties
<1>2. i \in 1 .. Len(h) + 1 /\ i + 1 \in i .. Len(h) + 1 /\ i .. (i + 1) - 1 = {i}
  BY <1>1
<1>3. CountOf(RemoveAt(h, i), u) = CountOf(h, u) - Cardinality(Indexes(h, u) \cap {i})
  BY <1>2, CountCut DEF RemoveAt
<1>4. CountOf(h, u) \in Nat
  BY CountType
<1>5. CASE u = h[i]
  <2>1. Indexes(h, u) \cap {i} = {i}
    BY <1>1, <1>5 DEF Indexes
  <2> QED BY <1>3, <1>5, <2>1, FS_Singleton
<1>6. CASE u # h[i]
  <2>1. Indexes(h, u) \cap {i} = {}
    BY <1>1, <1>6 DEF Indexes
  <2> QED BY <1>3, <1>4, <1>6, <2>1, FS_EmptySet
<1> QED BY <1>5, <1>6

LEMMA CountRemoveRun ==
    ASSUME NEW h \in Seq(Kind), NEW t \in Kind, NEW n \in Nat \ {0}, NEW u
    PROVE  CountOf(RemoveRun(h, t, n), u) =
             IF u = t /\ RunStarts(h, t, n) # {} THEN CountOf(h, u) - n ELSE CountOf(h, u)
<1>1. CASE RunStarts(h, t, n) = {}
  BY <1>1 DEF RemoveRun
<1>2. CASE RunStarts(h, t, n) # {}
  <2> DEFINE i == Min(RunStarts(h, t, n))
  <2>1. Len(h) \in Nat /\ DOMAIN h = 1 .. Len(h)
    BY LenProperties
  <2>2. i \in RunStarts(h, t, n)
    <3>1. RunStarts(h, t, n) \subseteq Nat
      BY <2>1 DEF RunStarts
    <3> QED BY <1>2, <3>1, MinInSet
  <2>3. RemoveRun(h, t, n) = SubSeq(h, 1, i - 1) \o SubSeq(h, i + n, Len(h))
    BY <1>2 DEF RemoveRun
  <2> HIDE DEF i
  <2>4. i \in 1 .. Len(h) /\ i + n - 1 <= Len(h) /\ \A k \in i .. i + n - 1 : h[k] = t
    BY <2>2 DEF RunStarts
  <2>5. /\ i \in 1 .. Len(h) + 1 /\ i + n \in i .. Len(h) + 1
        /\ (i + n) - 1 = i + n - 1
    BY <2>1, <2>4
  <2>6. CountOf(RemoveRun(h, t, n), u) =
          CountOf(h, u) - Cardinality(Indexes(h, u) \cap (i .. i + n - 1))
    BY <2>3, <2>5, CountCut
  <2>7. CASE u = t
    <3>1. Indexes(h, u) \cap (i .. i + n - 1) = i .. i + n - 1
      BY <2>1, <2>4, <2>7 DEF Indexes
    <3>2. Cardinality(i .. i + n - 1) = n
      <4>1. i \in Int /\ i + n - 1 \in Int /\ ~(i > i + n - 1) /\ (i + n - 1) - i + 1 = n
        BY <2>1, <2>4
      <4> QED BY <4>1, FS_Interval
    <3> QED BY <1>2, <2>6, <2>7, <3>1, <3>2
  <2>8. CASE u # t
    <3>1. Indexes(h, u) \cap (i .. i + n - 1) = {}
      BY <2>4, <2>8 DEF Indexes
    <3>2. CountOf(h, u) \in Nat
      BY CountType
    <3>3. Cardinality(Indexes(h, u) \cap (i .. i + n - 1)) = 0
      BY <3>1, FS_EmptySet
    <3> QED BY <2>6, <2>8, <3>2, <3>3
  <2> QED BY <2>7, <2>8
<1> QED BY <1>1, <1>2

\* Sorting a hand keeps its tiles: the indexes of t in the sorted hand are those
\* after the smaller tiles and up to the last tile that is at most t.
LEMMA CountReordered ==
    ASSUME NEW h \in Seq(Kind), NEW t \in Kind
    PROVE  CountOf(Reordered(h), t) = CountOf(h, t)
<1> DEFINE B(u) == {j \in 1 .. Len(h) : h[j] <= u}
           S(i) == {u \in Kind : Cardinality(B(u)) >= i}
           n(u) == Cardinality(B(u))
           g == Reordered(h)
<1>1. /\ Len(h) \in Nat /\ DOMAIN h = 1 .. Len(h)
      /\ \A j \in 1 .. Len(h) : h[j] \in Kind
  BY LenProperties, ElementOfSeq
<1>2. /\ Kind \subseteq Nat /\ TileKinds \in Kind /\ t \in Nat /\ t - 1 \in Int
      /\ \A u \in Kind : u <= TileKinds
      /\ t - 1 \in Kind \/ \A u \in Kind : ~(u <= t - 1)
  BY ConstantsAssumption DEF Kind
<1>0. /\ \A u \in Kind : u \in Int
      /\ \A j \in 1 .. Len(h) : h[j] \in Int
  <2>1. \A u \in Kind : u \in Int
    BY DEF Kind
  <2> QED BY <1>1, <2>1
<1>3. ASSUME NEW u \in Int
      PROVE  IsFiniteSet(B(u)) /\ n(u) \in 0 .. Len(h)
  BY AtOrBelowType
<1>4. \A u, v \in Int : u <= v => B(u) \subseteq B(v)
  <2> SUFFICES ASSUME NEW u \in Int, NEW v \in Int, u <= v, NEW j \in B(u)
               PROVE  j \in B(v)
    OBVIOUS
  <2>1. j \in 1 .. Len(h) /\ h[j] <= u
    OBVIOUS
  <2>2. h[j] \in Int /\ h[j] <= v
    BY <1>0, <2>1
  <2> QED BY <2>1, <2>2
<1>5. ASSUME NEW u \in Int, NEW v \in Int, u <= v
      PROVE  n(u) <= n(v)
  <2>1. B(u) \subseteq B(v) /\ IsFiniteSet(B(v))
    BY <1>3, <1>4, <1>5
  <2> HIDE DEF B
  <2> QED BY <2>1, FS_Subset
<1>6. n(TileKinds) = Len(h)
  <2>1. B(TileKinds) = 1 .. Len(h)
    BY <1>1, <1>2
  <2> QED BY <1>1, <2>1, IndexCount
<1>7. /\ B(t) \ B(t - 1) = Indexes(h, t)
      /\ B(t) \cap B(t - 1) = B(t - 1)
  <2>1. \A j \in 1 .. Len(h) : h[j] <= t /\ ~(h[j] <= t - 1) <=> h[j] = t
    BY <1>0, <1>2
  <2>2. \A j \in 1 .. Len(h) : h[j] <= t - 1 => h[j] <= t
    BY <1>0, <1>2
  <2> QED BY <1>1, <2>1, <2>2 DEF Indexes
<1>8. CountOf(h, t) = n(t) - n(t - 1)
  <2>1. IsFiniteSet(B(t))
    BY <1>2, <1>3
  <2> HIDE DEF B
  <2>2. Cardinality(B(t) \ B(t - 1)) = n(t) - Cardinality(B(t) \cap B(t - 1))
    BY <2>1, FS_Difference
  <2> QED BY <1>7, <2>2 DEF CountOf
<1>9. /\ n(t) \in 0 .. Len(h) /\ n(t - 1) \in 0 .. Len(h)
      /\ n(t - 1) <= n(t)
      /\ t - 1 \notin Kind => n(t - 1) = 0
  <2>1. t - 1 \notin Kind => B(t - 1) = {}
    BY <1>1, <1>2
  <2>2. t \in Int /\ t - 1 \in Int /\ t - 1 <= t
    BY <1>2
  <2>3. n(t) \in 0 .. Len(h) /\ n(t - 1) \in 0 .. Len(h) /\ n(t - 1) <= n(t)
    BY <1>3, <1>5, <2>2
  <2>4. Cardinality({}) = 0
    BY FS_EmptySet
  <2> QED BY <2>1, <2>3, <2>4
<1> HIDE DEF B
<1>10. ASSUME NEW i \in 1 .. Len(h)
       PROVE  /\ g[i] \in Kind
              /\ n(g[i]) >= i
              /\ \A u \in Kind : n(u) >= i => g[i] <= u
  <2>1. TileKinds \in S(i)
    BY <1>1, <1>2, <1>6
  <2>2. S(i) \subseteq Nat
    BY <1>2
  <2>3. Min(S(i)) \in S(i) /\ \A x \in S(i) : Min(S(i)) <= x
    BY <2>1, <2>2, MinInSet
  <2>4. g[i] = Min(S(i))
    BY DEF Reordered, B
  <2> HIDE DEF g
  <2> QED BY <2>3, <2>4
<1>11. DOMAIN g = 1 .. Len(h)
  BY DEF Reordered
<1> HIDE DEF g, S
<1>12. ASSUME NEW i \in 1 .. Len(h)
       PROVE  g[i] = t <=> n(t - 1) < i /\ i <= n(t)
  <2>1. /\ g[i] \in Kind /\ g[i] \in Int /\ i \in Int
        /\ n(g[i]) \in Int /\ n(g[i]) >= i
    <3>1. g[i] \in Kind /\ n(g[i]) >= i
      BY <1>10
    <3>2. g[i] \in Int
      BY <1>0, <3>1
    <3>3. n(g[i]) \in 0 .. Len(h)
      BY <1>3, <3>2
    <3> HIDE DEF n
    <3> QED BY <1>1, <3>1, <3>2, <3>3
  <2>2. g[i] <= t <=> i <= n(t)
    <3>1. ASSUME g[i] <= t
          PROVE  i <= n(t)
      <4>1. n(g[i]) <= n(t)
        BY <1>2, <1>5, <2>1, <3>1
      <4> HIDE DEF n
      <4> QED BY <1>9, <2>1, <4>1
    <3>2. ASSUME i <= n(t)
          PROVE  g[i] <= t
      BY <1>2, <1>9, <1>10, <3>2
    <3> QED BY <3>1, <3>2
  <2>3. g[i] <= t - 1 <=> i <= n(t - 1)
    <3>1. ASSUME g[i] <= t - 1
          PROVE  i <= n(t - 1)
      <4>1. n(g[i]) <= n(t - 1)
        BY <1>2, <1>5, <2>1, <3>1
      <4> HIDE DEF n
      <4> QED BY <1>9, <2>1, <4>1
    <3>2. ASSUME i <= n(t - 1)
          PROVE  g[i] <= t - 1
      <4>1. t - 1 \in Kind
        BY <1>9, <2>1, <3>2
      <4>2. n(t - 1) >= i
        BY <1>9, <2>1, <3>2
      <4> QED BY <1>10, <4>1, <4>2
    <3> QED BY <3>1, <3>2
  <2> HIDE DEF n
  <2> QED BY <1>2, <1>9, <2>1, <2>2, <2>3
<1>13. Indexes(g, t) = n(t - 1) + 1 .. n(t)
  <2> HIDE DEF n
  <2>1. \A i \in n(t - 1) + 1 .. n(t) : i \in 1 .. Len(h)
    BY <1>1, <1>9
  <2>2. \A i \in 1 .. Len(h) : i \in n(t - 1) + 1 .. n(t) <=> n(t - 1) < i /\ i <= n(t)
    BY <1>9
  <2> QED BY <1>11, <1>12, <2>1, <2>2 DEF Indexes
<1>14. Cardinality(n(t - 1) + 1 .. n(t)) = n(t) - n(t - 1)
  <2> HIDE DEF n
  <2>1. Cardinality(n(t - 1) + 1 .. n(t)) =
          IF n(t - 1) + 1 > n(t) THEN 0 ELSE n(t) - (n(t - 1) + 1) + 1
    <3>1. n(t - 1) + 1 \in Int /\ n(t) \in Int
      BY <1>9
    <3> QED BY <3>1, FS_Interval
  <2> QED BY <1>9, <2>1
<1> QED BY <1>8, <1>13, <1>14 DEF CountOf, g

\* Copies of t lie side by side in a sorted hand (getPengGangRange and the loops
\* of ServerUtility.cpp:310-342 rely on it): n of them among the first m tiles are
\* n adjacent ones.
LEMMA RunExists ==
    ASSUME NEW h \in Seq(Kind), NEW t \in Kind, NEW n \in Nat \ {0}, NEW m \in 0 .. Len(h),
           \A i, j \in 1 .. m : i <= j => h[i] <= h[j],
           NEW I \in SUBSET (1 .. m), \A i \in I : h[i] = t, Cardinality(I) >= n
    PROVE  RunStarts(h, t, n) # {}
<1> DEFINE a == Min(I)
<1>1. /\ Len(h) \in Nat /\ m \in Nat
      /\ \A j \in 1 .. m : h[j] \in Int
  <2>1. Len(h) \in Nat
    BY LenProperties
  <2>2. \A j \in 1 .. Len(h) : h[j] \in Kind
    BY ElementOfSeq
  <2>3. \A x \in Kind : x \in Int
    BY DEF Kind
  <2> QED BY <2>1, <2>2, <2>3
<1>2. IsFiniteSet(I)
  BY <1>1, IndexCount, FS_Subset
<1>3. I # {}
  <2>1. Cardinality({}) = 0
    BY FS_EmptySet
  <2>2. ~(0 >= n)
    OBVIOUS
  <2> QED BY <2>1, <2>2
<1>4. a \in I /\ \A x \in I : a <= x
  <2>1. I \subseteq Nat
    BY <1>1
  <2> QED BY <1>3, <2>1, MinInSet
<1> HIDE DEF a
<1>5. a \in 1 .. m /\ h[a] = t
  BY <1>4
<1>6. CASE \E x \in I : x >= a + n - 1
  <2>1. PICK x \in I : x >= a + n - 1
    BY <1>6
  <2>2. x \in 1 .. m /\ h[x] = t
    OBVIOUS
  <2>3. ASSUME NEW k \in a .. a + n - 1
        PROVE  h[k] = t
    <3>1. k \in 1 .. m /\ a <= k /\ k <= x
      BY <1>1, <1>5, <2>1, <2>2
    <3>2. t <= h[k] /\ h[k] <= t
      BY <1>5, <2>2, <3>1
    <3>3. h[k] \in Int /\ t \in Int
      BY <1>1, <3>1 DEF Kind
    <3> QED BY <3>2, <3>3
  <2>4. a \in 1 .. Len(h) /\ a + n - 1 <= Len(h)
    BY <1>1, <1>5, <2>1, <2>2
  <2> QED BY <2>3, <2>4 DEF RunStarts
<1>7. CASE \A x \in I : ~(x >= a + n - 1)
  <2>1. I \subseteq a .. a + n - 2
    <3>1. \A x \in I : x \in Int /\ a <= x /\ a \in Int
      BY <1>1, <1>4, <1>5
    <3> QED BY <1>7, <3>1
  <2>2. IsFiniteSet(a .. a + n - 2) /\ Cardinality(a .. a + n - 2) = n - 1
    <3>1. a \in Int /\ a + n - 2 \in Int
      BY <1>1, <1>5
    <3>2. /\ IsFiniteSet(a .. a + n - 2)
          /\ Cardinality(a .. a + n - 2) = IF a > a + n - 2 THEN 0 ELSE (a + n - 2) - a + 1
      BY <3>1, FS_Interval
    <3> QED BY <3>1, <3>2
  <2>3. Cardinality(I) <= n - 1
    BY <2>1, <2>2, FS_Subset
  <2>4. Cardinality(I) \in Nat
    BY <1>2, FS_CardinalityType
  <2> QED BY <2>3, <2>4
<1> QED BY <1>6, <1>7

----------------------------------------------------------------------------
(* Keeping a hand sorted *)

\* Sorted but for the last tile, the one just drawn.
FrontReordered(h) == \A i, j \in 1 .. Len(h) - 1 : i <= j => h[i] <= h[j]

\* Any two tiles of r appear in h in the same order.
Within(r, h) ==
    \A i, j \in 1 .. Len(r) : i <= j =>
        \E x, y \in 1 .. Len(h) : x <= y /\ r[i] = h[x] /\ r[j] = h[y]

LEMMA WithinRemoveRun ==
    ASSUME NEW h \in Seq(Kind), NEW t \in Kind, NEW n \in Nat \ {0}
    PROVE  Within(RemoveRun(h, t, n), h)
<1>1. Len(h) \in Nat
  BY LenProperties
<1>2. CASE RunStarts(h, t, n) = {}
  BY <1>1, <1>2 DEF RemoveRun, Within
<1>3. CASE RunStarts(h, t, n) # {}
  <2> DEFINE a == Min(RunStarts(h, t, n))
             r == RemoveRun(h, t, n)
             at(k) == IF k < a THEN k ELSE k + n
  <2>1. a \in RunStarts(h, t, n)
    <3>1. RunStarts(h, t, n) \subseteq Nat
      BY <1>1 DEF RunStarts
    <3> QED BY <1>3, <3>1, MinInSet
  <2>2. r = SubSeq(h, 1, a - 1) \o SubSeq(h, a + n, Len(h))
    BY <1>3 DEF RemoveRun
  <2> HIDE DEF a, r
  <2>3. a \in 1 .. Len(h) /\ a + n - 1 <= Len(h)
    BY <2>1 DEF RunStarts
  <2>4. a \in 1 .. Len(h) + 1 /\ a + n \in a .. Len(h) + 1 /\ (a + n) - a = n
    BY <1>1, <2>3
  <2>5. /\ Len(r) = Len(h) - n
        /\ \A k \in 1 .. Len(h) - n : r[k] = IF k < a THEN h[k] ELSE h[k + n]
    <3>1. /\ Len(r) = Len(h) - ((a + n) - a)
          /\ \A k \in 1 .. Len(h) - ((a + n) - a) :
                r[k] = IF k < a THEN h[k] ELSE h[k + ((a + n) - a)]
      BY <2>2, <2>4, CutType
    <3> QED BY <2>4, <3>1
  <2>6. ASSUME NEW i \in 1 .. Len(r), NEW j \in 1 .. Len(r), i <= j
        PROVE  \E x, y \in 1 .. Len(h) : x <= y /\ r[i] = h[x] /\ r[j] = h[y]
    <3>1. /\ at(i) \in 1 .. Len(h) /\ at(j) \in 1 .. Len(h) /\ at(i) <= at(j)
      BY <1>1, <2>3, <2>5, <2>6
    <3>2. r[i] = h[at(i)] /\ r[j] = h[at(j)]
      BY <2>5
    <3> HIDE DEF at
    <3> QED BY <3>1, <3>2
  <2> QED BY <2>6 DEF Within, r
<1> QED BY <1>2, <1>3

\* The same holds of what is left of such a hand.
LEMMA WithinTwice ==
    ASSUME NEW h, NEW r, NEW s, Within(s, r), Within(r, h)
    PROVE  Within(s, h)
<1> SUFFICES ASSUME NEW i \in 1 .. Len(s), NEW j \in 1 .. Len(s), i <= j
             PROVE  \E x, y \in 1 .. Len(h) : x <= y /\ s[i] = h[x] /\ s[j] = h[y]
  BY DEF Within
<1>1. PICK x, y \in 1 .. Len(r) : x <= y /\ s[i] = r[x] /\ s[j] = r[y]
  BY DEF Within
<1>2. PICK u, v \in 1 .. Len(h) : u <= v /\ r[x] = h[u] /\ r[y] = h[v]
  BY <1>1 DEF Within
<1> QED BY <1>1, <1>2

\* What is left of a sorted hand is sorted, and so is what is left of a hand that
\* is sorted but for its last tile once there is no tile of its kind in it.
LEMMA WithinSorted ==
    ASSUME NEW h \in Seq(Kind), NEW r \in Seq(Kind), Within(r, h),
           \/ IsReordered(h)
           \/ /\ FrontReordered(h)
              /\ CountOf(r, h[Len(h)]) = 0
    PROVE  IsReordered(r)
<1>1. /\ Len(h) \in Nat /\ DOMAIN h = 1 .. Len(h)
      /\ DOMAIN r = 1 .. Len(r)
  BY LenProperties
<1>2. ASSUME NEW i \in 1 .. Len(r), NEW j \in 1 .. Len(r), i <= j
      PROVE  r[i] <= r[j]
  <2>1. PICK x, y \in 1 .. Len(h) : x <= y /\ r[i] = h[x] /\ r[j] = h[y]
    BY <1>2 DEF Within
  <2>2. CASE IsReordered(h)
    BY <1>1, <2>1, <2>2 DEF IsReordered
  <2>3. CASE FrontReordered(h) /\ CountOf(r, h[Len(h)]) = 0
    <3>1. Indexes(r, h[Len(h)]) = {}
      BY <2>3, CountType
    <3>2. r[i] # h[Len(h)] /\ r[j] # h[Len(h)]
      BY <1>1, <3>1 DEF Indexes
    <3>3. x \in 1 .. Len(h) - 1 /\ y \in 1 .. Len(h) - 1
      BY <1>1, <2>1, <3>2
    <3> QED BY <2>1, <2>3, <3>3 DEF FrontReordered
  <2> QED BY <2>2, <2>3
<1> QED BY <1>1, <1>2 DEF IsReordered

LEMMA SortedIsFront ==
    ASSUME NEW h \in Seq(Kind), IsReordered(h)
    PROVE  FrontReordered(h)
<1>1. Len(h) \in Nat /\ DOMAIN h = 1 .. Len(h)
  BY LenProperties
<1> QED BY <1>1 DEF IsReordered, FrontReordered

\* A sorted hand that picks up a tile.
LEMMA SortedAppend ==
    ASSUME NEW h \in Seq(Kind), IsReordered(h), NEW t \in Kind
    PROVE  /\ FrontReordered(Append(h, t))
           /\ Append(h, t) # <<>>
           /\ Append(h, t)[Len(Append(h, t))] = t
<1>1. Len(h) \in Nat /\ DOMAIN h = 1 .. Len(h)
  BY LenProperties
<1>2. /\ Append(h, t) # <<>>
      /\ Len(Append(h, t)) = Len(h) + 1
      /\ \A i \in 1 .. Len(h) : Append(h, t)[i] = h[i]
      /\ Append(h, t)[Len(h) + 1] = t
  BY AppendProperties
<1>3. Len(Append(h, t)) - 1 = Len(h)
  BY <1>1, <1>2
<1> QED BY <1>1, <1>2, <1>3 DEF IsReordered, FrontReordered

----------------------------------------------------------------------------
(* What a peng and a gang take from a hand *)

LEMMA PengTakes ==
    ASSUME NEW h \in Seq(Kind), NEW t \in Kind, IsReordered(h), CountOf(h, t) >= 2
    PROVE  /\ Len(PengHand(h, t)) = Len(h) - 2
           /\ IsReordered(PengHand(h, t))
           /\ \A u \in Kind : CountOf(PengHand(h, t), u) = IF u = t THEN CountOf(h, u) - 2 ELSE CountOf(h, u)
<1>1. Len(h) \in Nat /\ DOMAIN h = 1 .. Len(h)
  BY LenProperties
<1>2. RunStarts(h, t, 2) # {}
  <2>1. Indexes(h, t) \subseteq 1 .. Len(h) /\ \A i \in Indexes(h, t) : h[i] = t
    BY <1>1 DEF Indexes
  <2>2. Len(h) \in 0 .. Len(h) /\ \A i, j \in 1 .. Len(h) : i <= j => h[i] <= h[j]
    BY <1>1 DEF IsReordered
  <2>3. 2 \in Nat \ {0} /\ Indexes(h, t) \in SUBSET (1 .. Len(h)) /\ Cardinality(Indexes(h, t)) >= 2
    BY <2>1 DEF CountOf
  <2> QED BY <2>1, <2>2, <2>3, RunExists
<1>3. RemoveRun(h, t, 2) \in Seq(Kind) /\ Within(RemoveRun(h, t, 2), h)
  BY RemoveRunType, WithinRemoveRun
<1>4. IsReordered(RemoveRun(h, t, 2))
  BY <1>3, WithinSorted
<1>5. Len(RemoveRun(h, t, 2)) = Len(h) - 2
  BY <1>2, RemoveRunType
<1>6. \A u \in Kind : CountOf(RemoveRun(h, t, 2), u) = IF u = t THEN CountOf(h, u) - 2 ELSE CountOf(h, u)
  BY <1>2, CountRemoveRun
<1> QED BY <1>4, <1>5, <1>6 DEF PengHand

\* The gang of a claimed tile takes the three copies in the hand.
LEMMA ClaimedGangTakes ==
    ASSUME NEW h \in Seq(Kind), NEW melds, NEW t \in Kind, IsReordered(h), CountOf(h, t) = 3,
           ~HasPeng(melds, t)
    PROVE  /\ Len(GangHand(h, melds, t, FALSE)) = Len(h) - 3
           /\ IsReordered(GangHand(h, melds, t, FALSE))
           /\ \A u \in Kind : CountOf(GangHand(h, melds, t, FALSE), u) =
                       IF u = t THEN CountOf(h, u) - 3 ELSE CountOf(h, u)
<1>1. Len(h) \in Nat /\ DOMAIN h = 1 .. Len(h)
  BY LenProperties
<1>2. RunStarts(h, t, 3) # {}
  <2>1. Indexes(h, t) \subseteq 1 .. Len(h) /\ \A i \in Indexes(h, t) : h[i] = t
    BY <1>1 DEF Indexes
  <2>2. Len(h) \in 0 .. Len(h) /\ \A i, j \in 1 .. Len(h) : i <= j => h[i] <= h[j]
    BY <1>1 DEF IsReordered
  <2>3. 3 \in Nat \ {0} /\ Indexes(h, t) \in SUBSET (1 .. Len(h)) /\ Cardinality(Indexes(h, t)) >= 3
    BY <2>1 DEF CountOf
  <2> QED BY <2>1, <2>2, <2>3, RunExists
<1>3. RemoveRun(h, t, 3) \in Seq(Kind) /\ Within(RemoveRun(h, t, 3), h)
  BY RemoveRunType, WithinRemoveRun
<1>4. IsReordered(RemoveRun(h, t, 3))
  BY <1>3, WithinSorted
<1>5. Len(RemoveRun(h, t, 3)) = Len(h) - 3
  BY <1>2, RemoveRunType
<1>6. \A u \in Kind : CountOf(RemoveRun(h, t, 3), u) = IF u = t THEN CountOf(h, u) - 3 ELSE CountOf(h, u)
  BY <1>2, CountRemoveRun
<1>7. GangHand(h, melds, t, FALSE) = RemoveRun(h, t, 3)
  BY DEF GangHand
<1> QED BY <1>4, <1>5, <1>6, <1>7

\* A copy of t is found one by one, however the hand is ordered.
LEMMA OneCopyTaken ==
    ASSUME NEW h \in Seq(Kind), NEW t \in Kind, CountOf(h, t) = 1
    PROVE  /\ RemoveRun(h, t, 1) \in Seq(Kind)
           /\ Len(RemoveRun(h, t, 1)) = Len(h) - 1
           /\ Within(RemoveRun(h, t, 1), h)
           /\ \A u \in Kind : CountOf(RemoveRun(h, t, 1), u) = IF u = t THEN 0 ELSE CountOf(h, u)
<1>1. Len(h) \in Nat /\ DOMAIN h = 1 .. Len(h)
  BY LenProperties
<1>2. RunStarts(h, t, 1) # {}
  <2>1. Indexes(h, t) # {}
    BY CountType
  <2>2. PICK i \in 1 .. Len(h) : h[i] = t
    BY <1>1, <2>1 DEF Indexes
  <2>3. i + 1 - 1 <= Len(h) /\ i .. i + 1 - 1 = {i}
    BY <1>1
  <2>4. i \in RunStarts(h, t, 1)
    BY <2>2, <2>3 DEF RunStarts
  <2> QED BY <2>4
<1>3. /\ RemoveRun(h, t, 1) \in Seq(Kind)
      /\ Len(RemoveRun(h, t, 1)) = Len(h) - 1
      /\ Within(RemoveRun(h, t, 1), h)
  BY <1>2, RemoveRunType, WithinRemoveRun
<1>4. \A u \in Kind : CountOf(RemoveRun(h, t, 1), u) = IF u = t THEN 0 ELSE CountOf(h, u)
  <2>1. \A u \in Kind : CountOf(RemoveRun(h, t, 1), u) = IF u = t THEN CountOf(h, u) - 1 ELSE CountOf(h, u)
    BY <1>2, CountRemoveRun
  <2> QED BY <2>1
<1> QED BY <1>3, <1>4

\* The gang of a tile the player drew itself takes all its copies from the hand:
\* the drawn one when it is added to a peng, or all four.
LEMMA OwnGangTakes ==
    ASSUME NEW h \in Seq(Kind), NEW melds, NEW t \in Kind,
           FrontReordered(h), h # <<>>, h[Len(h)] = t,
           IF HasPeng(melds, t) THEN CountOf(h, t) = 1 ELSE CountOf(h, t) = 4
    PROVE  /\ Len(GangHand(h, melds, t, TRUE)) = Len(h) - CountOf(h, t)
           /\ IsReordered(GangHand(h, melds, t, TRUE))
           /\ CountOf(GangHand(h, melds, t, TRUE), t) = 0
           /\ \A u \in Kind \ {t} : CountOf(GangHand(h, melds, t, TRUE), u) = CountOf(h, u)
<1> DEFINE g == GangHand(h, melds, t, TRUE)
<1>1. Len(h) \in Nat /\ DOMAIN h = 1 .. Len(h) /\ Len(h) \in 1 .. Len(h)
  BY LenProperties, EmptySeq
<1>2. /\ g \in Seq(Kind)
      /\ Len(g) = Len(h) - CountOf(h, t)
      /\ Within(g, h)
      /\ \A u \in Kind : CountOf(g, u) = IF u = t THEN 0 ELSE CountOf(h, u)
  <2>1. CASE HasPeng(melds, t)
    <3>1. g = RemoveRun(h, t, 1) /\ CountOf(h, t) = 1
      BY <2>1 DEF GangHand
    <3>2. /\ RemoveRun(h, t, 1) \in Seq(Kind)
          /\ Len(RemoveRun(h, t, 1)) = Len(h) - 1
          /\ Within(RemoveRun(h, t, 1), h)
          /\ \A u \in Kind : CountOf(RemoveRun(h, t, 1), u) = IF u = t THEN 0 ELSE CountOf(h, u)
      BY <3>1, OneCopyTaken
    <3> HIDE DEF g
    <3> QED BY <3>1, <3>2
  <2>2. CASE ~HasPeng(melds, t)
    <3> DEFINE r == RemoveRun(h, t, 3)
               I == Indexes(h, t) \ {Len(h)}
    <3>1. CountOf(h, t) = 4 /\ g = RemoveRun(r, t, 1)
      BY <2>2 DEF GangHand
    <3>2. RunStarts(h, t, 3) # {}
      <4>1. I \subseteq 1 .. Len(h) - 1 /\ \A i \in I : h[i] = t
        BY <1>1 DEF Indexes
      <4>2. Len(h) \in Indexes(h, t) /\ IsFiniteSet(Indexes(h, t))
        BY <1>1, CountType DEF Indexes
      <4>3. Cardinality(I) = 3
        <5>1. Cardinality(I) = Cardinality(Indexes(h, t)) - 1
          BY <4>2, FS_RemoveElement
        <5> QED BY <3>1, <5>1 DEF CountOf
      <4>4. Len(h) - 1 \in 0 .. Len(h)
        BY <1>1
      <4>5. \A i, j \in 1 .. Len(h) - 1 : i <= j => h[i] <= h[j]
        BY DEF FrontReordered
      <4>6. 3 \in Nat \ {0} /\ I \in SUBSET (1 .. Len(h) - 1) /\ Cardinality(I) >= 3
        BY <4>1, <4>3
      <4> HIDE DEF I
      <4> QED BY <4>1, <4>4, <4>5, <4>6, RunExists
    <3>3. /\ r \in Seq(Kind) /\ Len(r) = Len(h) - 3 /\ Within(r, h)
          /\ \A u \in Kind : CountOf(r, u) = IF u = t THEN CountOf(h, u) - 3 ELSE CountOf(h, u)
      <4>1. r \in Seq(Kind) /\ Len(r) = Len(h) - 3
        BY <3>2, RemoveRunType
      <4>2. Within(r, h)
        BY WithinRemoveRun
      <4>3. \A u \in Kind : CountOf(r, u) = IF u = t THEN CountOf(h, u) - 3 ELSE CountOf(h, u)
        BY <3>2, CountRemoveRun
      <4> QED BY <4>1, <4>2, <4>3
    <3> HIDE DEF r
    <3>4. CountOf(r, t) = 1
      BY <3>1, <3>3
    <3>5. /\ RemoveRun(r, t, 1) \in Seq(Kind)
          /\ Len(RemoveRun(r, t, 1)) = Len(r) - 1
          /\ Within(RemoveRun(r, t, 1), r)
          /\ \A u \in Kind : CountOf(RemoveRun(r, t, 1), u) = IF u = t THEN 0 ELSE CountOf(r, u)
      BY <3>3, <3>4, OneCopyTaken
    <3>6. Within(RemoveRun(r, t, 1), h)
      BY <3>3, <3>5, WithinTwice
    <3>7. Len(r) - 1 = Len(h) - CountOf(h, t)
      BY <1>1, <3>1, <3>3
    <3> HIDE DEF g
    <3> QED BY <3>1, <3>3, <3>5, <3>6, <3>7
  <2> QED BY <2>1, <2>2
<1>3. IsReordered(g)
  <2> HIDE DEF g
  <2>1. CountOf(g, h[Len(h)]) = 0
    BY <1>2
  <2> QED BY <1>2, <2>1, WithinSorted
<1> QED BY <1>2, <1>3

\* A gang of the player's own draw never adds to its hand and takes only copies of
\* the tile.
LEMMA GangOnlyTakes ==
    ASSUME NEW h \in Seq(Kind), NEW melds, NEW t \in Kind, NEW u
    PROVE  /\ CountOf(GangHand(h, melds, t, TRUE), u) <= CountOf(h, u)
           /\ u # t => CountOf(GangHand(h, melds, t, TRUE), u) = CountOf(h, u)
<1> DEFINE r == IF HasPeng(melds, t) THEN h ELSE RemoveRun(h, t, 3)
<1>1. ASSUME NEW s \in Seq(Kind), NEW n \in {1, 3}
      PROVE  /\ RemoveRun(s, t, n) \in Seq(Kind)
             /\ CountOf(RemoveRun(s, t, n), u) \in Nat
             /\ CountOf(RemoveRun(s, t, n), u) <= CountOf(s, u)
             /\ u # t => CountOf(RemoveRun(s, t, n), u) = CountOf(s, u)
  <2>1. n \in Nat \ {0}
    OBVIOUS
  <2>2. RemoveRun(s, t, n) \in Seq(Kind)
    BY <2>1, RemoveRunType
  <2>3. CountOf(RemoveRun(s, t, n), u) =
          IF u = t /\ RunStarts(s, t, n) # {} THEN CountOf(s, u) - n ELSE CountOf(s, u)
    BY <2>1, CountRemoveRun
  <2>4. CountOf(s, u) \in Nat /\ CountOf(RemoveRun(s, t, n), u) \in Nat
    BY <2>2, CountType
  <2> QED BY <2>2, <2>3, <2>4
<1>2. CountOf(h, u) \in Nat
  BY CountType
<1>3. /\ r \in Seq(Kind)
      /\ CountOf(r, u) \in Nat
      /\ CountOf(r, u) <= CountOf(h, u)
      /\ u # t => CountOf(r, u) = CountOf(h, u)
  BY <1>1, <1>2
<1>4. GangHand(h, melds, t, TRUE) = RemoveRun(r, t, 1)
  BY DEF GangHand
<1> HIDE DEF r
<1>5. /\ CountOf(RemoveRun(r, t, 1), u) \in Nat
      /\ CountOf(RemoveRun(r, t, 1), u) <= CountOf(r, u)
      /\ u # t => CountOf(RemoveRun(r, t, 1), u) = CountOf(r, u)
  BY <1>1, <1>3
<1>6. CountOf(RemoveRun(r, t, 1), u) <= CountOf(h, u)
  BY <1>2, <1>3, <1>5
<1>7. u # t => CountOf(RemoveRun(r, t, 1), u) = CountOf(h, u)
  BY <1>3, <1>5
<1> QED BY <1>4, <1>6, <1>7

LEMMA GangKeepsOthers ==
    ASSUME NEW h \in Seq(Kind), NEW melds, NEW t \in Kind, NEW u, u # t
    PROVE  CountOf(GangHand(h, melds, t, TRUE), u) = CountOf(h, u)
BY GangOnlyTakes

----------------------------------------------------------------------------
(* The tiles that melds show *)

LEMMA MeldTilesType ==
    ASSUME NEW melds \in Seq(Meld), NEW u
    PROVE  /\ IsFiniteSet(MeldTiles(melds, u))
           /\ Cardinality(MeldTiles(melds, u)) \in Nat
           /\ MeldTiles(melds, u) \subseteq (1 .. Len(melds)) \X (1 .. 4)
           /\ \A i, j : <<i, j>> \in MeldTiles(melds, u) <=>
                /\ i \in 1 .. Len(melds) /\ j \in 1 .. 4
                /\ melds[i].mah = u /\ (j = 4 => melds[i].type = AT_GANG)
<1>1. Len(melds) \in Nat /\ DOMAIN melds = 1 .. Len(melds)
  BY LenProperties
<1>2. MeldTiles(melds, u) \subseteq (1 .. Len(melds)) \X (1 .. 4)
  BY <1>1 DEF MeldTiles
<1>3. IsFiniteSet(1 .. Len(melds)) /\ IsFiniteSet(1 .. 4)
  BY <1>1, IndexCount
<1>4. IsFiniteSet((1 .. Len(melds)) \X (1 .. 4))
  BY <1>3, FS_Product
<1>5. IsFiniteSet(MeldTiles(melds, u))
  BY <1>2, <1>4, FS_Subset
<1>6. Cardinality(MeldTiles(melds, u)) \in Nat
  BY <1>5, FS_CardinalityType
<1>7. \A i, j : <<i, j>> \in MeldTiles(melds, u) <=>
         /\ i \in 1 .. Len(melds) /\ j \in 1 .. 4
         /\ melds[i].mah = u /\ (j = 4 => melds[i].type = AT_GANG)
  BY <1>1 DEF MeldTiles
<1> QED BY <1>2, <1>5, <1>6, <1>7

\* Three or four tiles of one meld are three or four.
LEMMA MeldSize ==
    ASSUME NEW i, NEW n \in Nat
    PROVE  IsFiniteSet({i} \X (1 .. n)) /\ Cardinality({i} \X (1 .. n)) = n
<1>1. /\ IsFiniteSet({i}) /\ Cardinality({i}) = 1
      /\ IsFiniteSet(1 .. n) /\ Cardinality(1 .. n) = n
  BY FS_Singleton, IndexCount
<1>2. /\ IsFiniteSet({i} \X (1 .. n))
      /\ Cardinality({i} \X (1 .. n)) = Cardinality({i}) * Cardinality(1 .. n)
  BY <1>1, FS_Product
<1>3. 1 * n = n
  OBVIOUS
<1> QED BY <1>1, <1>2, <1>3

\* A new meld adds the tiles it shows.
LEMMA MeldAdded ==
    ASSUME NEW melds \in Seq(Meld), NEW t \in Kind, NEW type \in {AT_GANG, AT_PENG}, NEW u
    PROVE  \E n \in Nat :
             /\ Cardinality(MeldTiles(Append(melds, [mah |-> t, type |-> type]), u)) =
                  Cardinality(MeldTiles(melds, u)) + n
             /\ u # t => n = 0
             /\ u = t /\ type = AT_GANG => n = 4
             /\ u = t /\ type = AT_PENG => n = 3
<1> DEFINE meld == [mah |-> t, type |-> type]
           more == Append(melds, meld)
           n == IF u # t THEN 0 ELSE IF type = AT_GANG THEN 4 ELSE 3
           old == MeldTiles(melds, u)
           new == {Len(melds) + 1} \X (1 .. n)
<1>1. meld \in Meld /\ meld.mah = t /\ meld.type = type
  BY DEF Meld
<1>2. Len(melds) \in Nat
  BY LenProperties
<1> HIDE DEF meld
<1>3. /\ more \in Seq(Meld)
      /\ Len(more) = Len(melds) + 1
      /\ \A i \in 1 .. Len(melds) : more[i] = melds[i]
      /\ more[Len(melds) + 1] = meld
  BY <1>1, AppendProperties
<1> HIDE DEF more
<1>4. /\ MeldTiles(more, u) \subseteq (1 .. Len(more)) \X (1 .. 4)
      /\ \A i, j : <<i, j>> \in MeldTiles(more, u) <=>
            /\ i \in 1 .. Len(more) /\ j \in 1 .. 4
            /\ more[i].mah = u /\ (j = 4 => more[i].type = AT_GANG)
  BY <1>3, MeldTilesType
<1>5. /\ IsFiniteSet(old) /\ Cardinality(old) \in Nat
      /\ old \subseteq (1 .. Len(melds)) \X (1 .. 4)
      /\ \A i, j : <<i, j>> \in old <=>
            /\ i \in 1 .. Len(melds) /\ j \in 1 .. 4
            /\ melds[i].mah = u /\ (j = 4 => melds[i].type = AT_GANG)
  BY MeldTilesType
<1> HIDE DEF old
<1>6. n \in Nat /\ \A j \in Int : j \in 1 .. n <=> j \in 1 .. 4 /\ t = u /\ (j = 4 => type = AT_GANG)
  BY DEF AT_GANG, AT_PENG
<1> HIDE DEF n
<1>7. ASSUME NEW i \in Int, NEW j \in Int
      PROVE  <<i, j>> \in MeldTiles(more, u) <=> <<i, j>> \in old \cup new
  <2>1. CASE i \in 1 .. Len(melds)
    <3>1. <<i, j>> \notin new /\ i \in 1 .. Len(more) /\ more[i] = melds[i]
      BY <1>2, <1>3, <2>1
    <3> QED BY <1>4, <1>5, <2>1, <3>1
  <2>2. CASE i = Len(melds) + 1
    <3>1. <<i, j>> \notin old /\ i \in 1 .. Len(more) /\ more[i] = meld
      BY <1>2, <1>3, <1>5, <2>2
    <3>2. <<i, j>> \in new <=> j \in 1 .. n
      BY <2>2
    <3> QED BY <1>1, <1>4, <1>6, <3>1, <3>2
  <2>3. CASE i \notin 1 .. Len(melds) /\ i # Len(melds) + 1
    <3>1. i \notin 1 .. Len(more)
      BY <1>2, <1>3, <2>3
    <3> QED BY <1>4, <1>5, <2>3, <3>1
  <2> QED BY <2>1, <2>2, <2>3
<1>8. MeldTiles(more, u) = old \cup new
  <2>1. /\ MeldTiles(more, u) \subseteq Int \X Int
        /\ old \cup new \subseteq Int \X Int
    BY <1>2, <1>3, <1>4, <1>5, <1>6
  <2> HIDE DEF new
  <2> QED BY <1>7, <2>1
<1>9. old \cap new = {}
  BY <1>2, <1>5
<1>10. IsFiniteSet(new) /\ Cardinality(new) = n
  BY <1>6, MeldSize
<1> HIDE DEF new
<1>11. Cardinality(old \cup new) = Cardinality(old) + Cardinality(new) - 0
  BY <1>5, <1>9, <1>10, FS_Union, FS_EmptySet
<1>12. Cardinality(MeldTiles(more, u)) = Cardinality(old) + n
  BY <1>5, <1>6, <1>8, <1>10, <1>11
<1>13. /\ u # t => n = 0
       /\ u = t /\ type = AT_GANG => n = 4
       /\ u = t /\ type = AT_PENG => n = 3
  BY DEF n, AT_GANG, AT_PENG
<1> QED BY <1>6, <1>12, <1>13 DEF old, more, meld

\* The gang and the peng that are shown: four copies, three copies.
LEMMA GangShown ==
    ASSUME NEW melds \in Seq(Meld), NEW t \in Kind, NEW u
    PROVE  /\ u # t => Cardinality(MeldTiles(Append(melds, [mah |-> t, type |-> AT_GANG]), u)) =
                          Cardinality(MeldTiles(melds, u))
           /\ u = t => Cardinality(MeldTiles(Append(melds, [mah |-> t, type |-> AT_GANG]), u)) =
                          Cardinality(MeldTiles(melds, u)) + 4
<1>1. AT_GANG \in {AT_GANG, AT_PENG}
  OBVIOUS
<1>2. PICK n \in Nat :
         /\ Cardinality(MeldTiles(Append(melds, [mah |-> t, type |-> AT_GANG]), u)) =
              Cardinality(MeldTiles(melds, u)) + n
         /\ u # t => n = 0
         /\ u = t /\ AT_GANG = AT_GANG => n = 4
  BY <1>1, MeldAdded
<1>3. Cardinality(MeldTiles(melds, u)) \in Nat
  BY MeldTilesType
<1> QED BY <1>2, <1>3

LEMMA PengShown ==
    ASSUME NEW melds \in Seq(Meld), NEW t \in Kind, NEW u
    PROVE  /\ u # t => Cardinality(MeldTiles(Append(melds, [mah |-> t, type |-> AT_PENG]), u)) =
                          Cardinality(MeldTiles(melds, u))
           /\ u = t => Cardinality(MeldTiles(Append(melds, [mah |-> t, type |-> AT_PENG]), u)) =
                          Cardinality(MeldTiles(melds, u)) + 3
<1>1. AT_PENG \in {AT_GANG, AT_PENG}
  OBVIOUS
<1>2. PICK n \in Nat :
         /\ Cardinality(MeldTiles(Append(melds, [mah |-> t, type |-> AT_PENG]), u)) =
              Cardinality(MeldTiles(melds, u)) + n
         /\ u # t => n = 0
         /\ u = t /\ AT_PENG = AT_PENG => n = 3
  BY <1>1, MeldAdded
<1>3. Cardinality(MeldTiles(melds, u)) \in Nat
  BY MeldTilesType
<1> QED BY <1>2, <1>3

\* A peng shows three tiles.
LEMMA PengShows ==
    ASSUME NEW melds \in Seq(Meld), NEW t, HasPeng(melds, t)
    PROVE  Cardinality(MeldTiles(melds, t)) >= 3
<1>1. PICK i \in 1 .. Len(melds) : melds[i] = [mah |-> t, type |-> AT_PENG]
  BY DEF HasPeng, PengIndexes
<1>2. /\ IsFiniteSet(MeldTiles(melds, t)) /\ Cardinality(MeldTiles(melds, t)) \in Nat
      /\ \A x, y : <<x, y>> \in MeldTiles(melds, t) <=>
            /\ x \in 1 .. Len(melds) /\ y \in 1 .. 4
            /\ melds[x].mah = t /\ (y = 4 => melds[x].type = AT_GANG)
  BY MeldTilesType
<1>3. {i} \X (1 .. 3) \subseteq MeldTiles(melds, t)
  <2>1. melds[i].mah = t
    BY <1>1
  <2>2. \A y \in 1 .. 3 : <<i, y>> \in MeldTiles(melds, t)
    BY <1>2, <2>1
  <2> QED BY <2>2
<1>4. Cardinality({i} \X (1 .. 3)) = 3
  BY MeldSize
<1>5. Cardinality({i} \X (1 .. 3)) <= Cardinality(MeldTiles(melds, t))
  BY <1>2, <1>3, FS_Subset
<1> QED BY <1>2, <1>4, <1>5

\* A peng that is turned into a gang shows one tile more.
LEMMA PengUpgraded ==
    ASSUME NEW melds \in Seq(Meld), NEW t \in Kind, HasPeng(melds, t), NEW u
    PROVE  Cardinality(MeldTiles(GangMelds(melds, t), u)) =
             Cardinality(MeldTiles(melds, u)) + (IF u = t THEN 1 ELSE 0)
<1> DEFINE a == Min(PengIndexes(melds, t))
           more == GangMelds(melds, t)
           meld == [mah |-> t, type |-> AT_GANG]
           old == MeldTiles(melds, u)
<1>1. a \in 1 .. Len(melds) /\ melds[a] = [mah |-> t, type |-> AT_PENG]
  <2>1. PengIndexes(melds, t) \subseteq Nat
    BY LenProperties DEF PengIndexes
  <2>2. a \in PengIndexes(melds, t)
    BY <2>1, MinInSet DEF HasPeng
  <2> QED BY <2>2 DEF PengIndexes
<1>2. meld \in Meld /\ meld.mah = t /\ meld.type = AT_GANG
  BY DEF Meld
<1>3. more = [melds EXCEPT ![a] = meld]
  BY DEF GangMelds
<1>4. melds[a].mah = t /\ melds[a].type # AT_GANG
  BY <1>1 DEF AT_GANG, AT_PENG
<1> HIDE DEF a, meld, more
<1>5. /\ more \in Seq(Meld)
      /\ Len(more) = Len(melds)
      /\ \A i \in 1 .. Len(melds) : more[i] = IF i = a THEN meld ELSE melds[i]
  BY <1>1, <1>2, <1>3, ExceptSeq
<1>6. /\ MeldTiles(more, u) \subseteq (1 .. Len(melds)) \X (1 .. 4)
      /\ \A i, j : <<i, j>> \in MeldTiles(more, u) <=>
            /\ i \in 1 .. Len(melds) /\ j \in 1 .. 4
            /\ more[i].mah = u /\ (j = 4 => more[i].type = AT_GANG)
  BY <1>5, MeldTilesType
<1>7. /\ IsFiniteSet(old) /\ Cardinality(old) \in Nat
      /\ old \subseteq (1 .. Len(melds)) \X (1 .. 4)
      /\ \A i, j : <<i, j>> \in old <=>
            /\ i \in 1 .. Len(melds) /\ j \in 1 .. 4
            /\ melds[i].mah = u /\ (j = 4 => melds[i].type = AT_GANG)
  BY MeldTilesType
<1> HIDE DEF old
<1>8. ASSUME NEW i \in 1 .. Len(melds), NEW j \in 1 .. 4
      PROVE  <<i, j>> \in MeldTiles(more, u) <=>
               <<i, j>> \in old \/ (i = a /\ j = 4 /\ u = t)
  <2>1. CASE i = a
    <3>1. more[i] = meld
      BY <1>5, <2>1
    <3>2. <<i, j>> \in MeldTiles(more, u) <=> t = u
      BY <1>2, <1>6, <3>1
    <3>3. <<i, j>> \in old <=> t = u /\ j # 4
      BY <1>4, <1>7, <2>1
    <3> QED BY <2>1, <3>2, <3>3
  <2>2. CASE i # a
    <3>1. more[i] = melds[i]
      BY <1>5, <2>2
    <3> QED BY <1>6, <1>7, <2>2, <3>1
  <2> QED BY <2>1, <2>2
<1>9. CASE u = t
  <2>1. MeldTiles(more, u) = old \cup {<<a, 4>>}
    <3>1. <<a, 4>> \in (1 .. Len(melds)) \X (1 .. 4)
      BY <1>1
    <3>2. old \cup {<<a, 4>>} \subseteq (1 .. Len(melds)) \X (1 .. 4)
      BY <1>7, <3>1
    <3>3. \A i \in 1 .. Len(melds), j \in 1 .. 4 :
             <<i, j>> \in MeldTiles(more, u) <=> <<i, j>> \in old \cup {<<a, 4>>}
      BY <1>8, <1>9
    <3> DEFINE A == 1 .. Len(melds)
               B == 1 .. 4
               new == old \cup {<<a, 4>>}
    <3>4. MeldTiles(more, u) \in SUBSET (A \X B) /\ new \in SUBSET (A \X B)
      BY <1>6, <3>2
    <3>5. \A i \in A, j \in B : <<i, j>> \in MeldTiles(more, u) <=> <<i, j>> \in new
      BY <3>3
    <3> HIDE DEF A, B, new
    <3>6. \A x \in A \X B : x = <<x[1], x[2]>> /\ x[1] \in A /\ x[2] \in B
      OBVIOUS
    <3>7. \A x \in A \X B : x \in MeldTiles(more, u) <=> x \in new
      BY <3>5, <3>6
    <3>8. MeldTiles(more, u) = new
      BY <3>4, <3>7
    <3> QED BY <3>8 DEF new
  <2>2. <<a, 4>> \notin old
    BY <1>4, <1>7
  <2>3. Cardinality(old \cup {<<a, 4>>}) = Cardinality(old) + 1
    BY <1>7, <2>2, FS_AddElement
  <2> QED BY <1>9, <2>1, <2>3 DEF old, more
<1>10. CASE u # t
  <2>1. \A i \in 1 .. Len(melds), j \in 1 .. 4 :
           <<i, j>> \in MeldTiles(more, u) <=> <<i, j>> \in old
    BY <1>8, <1>10
  <2>2. MeldTiles(more, u) = old
    <3> DEFINE A == 1 .. Len(melds)
               B == 1 .. 4
    <3>4. MeldTiles(more, u) \in SUBSET (A \X B) /\ old \in SUBSET (A \X B)
      BY <1>6, <1>7
    <3>5. \A i \in A, j \in B : <<i, j>> \in MeldTiles(more, u) <=> <<i, j>> \in old
      BY <2>1
    <3> HIDE DEF A, B
    <3>6. \A x \in A \X B : x = <<x[1], x[2]>> /\ x[1] \in A /\ x[2] \in B
      OBVIOUS
    <3>7. \A x \in A \X B : x \in MeldTiles(more, u) <=> x \in old
      BY <3>5, <3>6
    <3> QED BY <3>4, <3>7
  <2> QED BY <1>7, <1>10, <2>2 DEF old, more
<1> QED BY <1>9, <1>10

----------------------------------------------------------------------------
(* All players together *)

LEMMA SeatsFinite == IsFiniteSet(Seats)
BY ConstantsAssumption, FS_Interval DEF Seats

\* The tiles held together are those of player q and those of the others.
LEMMA HeldSplit ==
    ASSUME NEW hands \in [Seats -> Seq(Kind)], NEW t, NEW q \in Seats
    PROVE  \E rest \in Nat :
             /\ HeldCopies(hands, t) = rest + CountOf(hands[q], t)
             /\ \A p \in Seats \ {q} : CountOf(hands[p], t) <= rest
             /\ \A h \in Seq(Kind) :
                  HeldCopies([hands EXCEPT ![q] = h], t) = rest + CountOf(h, t)
<1> DEFINE F(c) == [p \in Seats |-> Indexes(c[p], t)]
           rest == Cardinality(PlacesOf(F(hands), Seats \ {q}))
<1>1. \A c \in [Seats -> Seq(Kind)], p \in Seats :
         /\ IsFiniteSet(F(c)[p])
         /\ Cardinality(F(c)[p]) = CountOf(c[p], t)
  BY CountType DEF CountOf
<1>2. ASSUME NEW c \in [Seats -> Seq(Kind)]
      PROVE  /\ HeldCopies(c, t) =
                  Cardinality(PlacesOf(F(c), Seats \ {q})) + CountOf(c[q], t)
             /\ Cardinality(PlacesOf(F(c), Seats \ {q})) \in Nat
  <2>1. /\ \A p \in Seats : IsFiniteSet(F(c)[p])
        /\ Cardinality(F(c)[q]) = CountOf(c[q], t)
        /\ HeldCopies(c, t) = Cardinality(PlacesOf(F(c), Seats))
    BY <1>1 DEF HeldCopies
  <2> HIDE DEF F
  <2>2. /\ Cardinality(PlacesOf(F(c), Seats \ {q})) \in Nat
        /\ Cardinality(PlacesOf(F(c), Seats)) =
             Cardinality(PlacesOf(F(c), Seats \ {q})) + Cardinality(F(c)[q])
    BY <2>1, SeatsFinite, PlacesSplit
  <2> QED BY <2>1, <2>2
<1>3. ASSUME NEW h \in Seq(Kind)
      PROVE  HeldCopies([hands EXCEPT ![q] = h], t) = rest + CountOf(h, t)
  <2> DEFINE c == [hands EXCEPT ![q] = h]
  <2>1. c \in [Seats -> Seq(Kind)] /\ c[q] = h
    OBVIOUS
  <2>2. PlacesOf(F(c), Seats \ {q}) = PlacesOf(F(hands), Seats \ {q})
    <3>1. \A p \in Seats \ {q} : F(c)[p] = F(hands)[p]
      OBVIOUS
    <3> HIDE DEF F, c
    <3> QED BY <3>1 DEF PlacesOf
  <2> HIDE DEF F, c
  <2> QED BY <1>2, <2>1, <2>2 DEF c
<1>4. ASSUME NEW p \in Seats \ {q}
      PROVE  CountOf(hands[p], t) <= rest
  <2> DEFINE G == F(hands)
             one == Cardinality(PlacesOf(G, (Seats \ {q}) \ {p}))
  <2>1. IsFiniteSet(Seats \ {q}) /\ \A s \in Seats \ {q} : IsFiniteSet(G[s])
    BY <1>1, SeatsFinite, FS_RemoveElement
  <2>2. Cardinality(G[p]) = CountOf(hands[p], t)
    BY <1>1
  <2> HIDE DEF G
  <2>3. /\ one \in Nat
        /\ Cardinality(G[p]) \in Nat
        /\ Cardinality(PlacesOf(G, Seats \ {q})) = one + Cardinality(G[p])
    BY <2>1, PlacesSplit
  <2> HIDE DEF one
  <2>4. rest = Cardinality(PlacesOf(G, Seats \ {q}))
    BY DEF G
  <2> HIDE DEF rest
  <2> QED BY <2>2, <2>3, <2>4
<1>5. rest \in Nat /\ HeldCopies(hands, t) = rest + CountOf(hands[q], t)
  BY <1>2
<1> HIDE DEF rest
<1> QED BY <1>3, <1>4, <1>5

\* The players other than q show rest copies of t, whatever q shows.
LaidByOthers(melds, q, t, rest) ==
    \A c \in [Seats -> Seq(Meld)] :
       (\A p \in Seats \ {q} : c[p] = melds[p]) =>
          /\ LaidCopies(c, Seats, t) = rest + Cardinality(MeldTiles(c[q], t))
          /\ LaidCopies(c, Seats \ {q}, t) = rest

\* The same for the tiles their melds show.
LEMMA LaidSplit ==
    ASSUME NEW melds \in [Seats -> Seq(Meld)], NEW t, NEW q \in Seats
    PROVE  \E rest \in Nat : LaidByOthers(melds, q, t, rest)
<1> DEFINE F(c) == [p \in Seats |-> MeldTiles(c[p], t)]
           rest == Cardinality(PlacesOf(F(melds), Seats \ {q}))
<1>1. \A c \in [Seats -> Seq(Meld)], p \in Seats :
         /\ IsFiniteSet(F(c)[p])
         /\ F(c)[p] = MeldTiles(c[p], t)
  BY MeldTilesType
<1>2. ASSUME NEW c \in [Seats -> Seq(Meld)]
      PROVE  /\ LaidCopies(c, Seats, t) =
                  Cardinality(PlacesOf(F(c), Seats \ {q})) + Cardinality(MeldTiles(c[q], t))
             /\ LaidCopies(c, Seats \ {q}, t) = Cardinality(PlacesOf(F(c), Seats \ {q}))
             /\ Cardinality(PlacesOf(F(c), Seats \ {q})) \in Nat
  <2>1. /\ \A p \in Seats : IsFiniteSet(F(c)[p])
        /\ F(c)[q] = MeldTiles(c[q], t)
        /\ LaidCopies(c, Seats, t) = Cardinality(PlacesOf(F(c), Seats))
        /\ LaidCopies(c, Seats \ {q}, t) = Cardinality(PlacesOf(F(c), Seats \ {q}))
    BY <1>1 DEF LaidCopies
  <2> HIDE DEF F
  <2>2. /\ Cardinality(PlacesOf(F(c), Seats \ {q})) \in Nat
        /\ Cardinality(PlacesOf(F(c), Seats)) =
             Cardinality(PlacesOf(F(c), Seats \ {q})) + Cardinality(F(c)[q])
    BY <2>1, SeatsFinite, PlacesSplit
  <2> QED BY <2>1, <2>2
<1>3. ASSUME NEW c \in [Seats -> Seq(Meld)], \A p \in Seats \ {q} : c[p] = melds[p]
      PROVE  /\ LaidCopies(c, Seats, t) = rest + Cardinality(MeldTiles(c[q], t))
             /\ LaidCopies(c, Seats \ {q}, t) = rest
  <2>2. PlacesOf(F(c), Seats \ {q}) = PlacesOf(F(melds), Seats \ {q})
    <3>1. \A p \in Seats \ {q} : F(c)[p] = F(melds)[p]
      BY <1>3
    <3> HIDE DEF F
    <3> QED BY <3>1 DEF PlacesOf
  <2> HIDE DEF F
  <2> QED BY <1>2, <2>2
<1>5. rest \in Nat
  BY <1>2
<1> HIDE DEF rest
<1>6. LaidByOthers(melds, q, t, rest)
  BY <1>3 DEF LaidByOthers
<1> QED BY <1>5, <1>6

\* Hands dealt from an index that is a rearrangement of the seats, and sorted or
\* not: the players hold the tiles that were dealt.
LEMMA HeldMoved ==
    ASSUME NEW hands \in [Seats -> Seq(Kind)], NEW d \in [Seats -> Seq(Kind)], NEW t,
           NEW g \in Bijection(Seats, Seats),
           \A p \in Seats : CountOf(hands[p], t) = CountOf(d[g[p]], t)
    PROVE  HeldCopies(hands, t) = HeldCopies(d, t)
<1> DEFINE F == [p \in Seats |-> Indexes(hands[p], t)]
           G == [p \in Seats |-> Indexes(d[p], t)]
<1>1. \A p \in Seats : g[p] \in Seats
  BY DEF Bijection, Injection
<1>2. \A p \in Seats : /\ IsFiniteSet(F[p]) /\ IsFiniteSet(G[p])
                       /\ Cardinality(F[p]) = Cardinality(G[g[p]])
  BY <1>1, CountType DEF CountOf
<1> HIDE DEF F, G
<1>3. Cardinality(PlacesOf(F, Seats)) = Cardinality(PlacesOf(G, Seats))
  BY <1>2, SeatsFinite, PlacesMoved
<1> QED BY <1>3 DEF HeldCopies, F, G

----------------------------------------------------------------------------
(* Invariants *)

\* What a step that lets player q draw leaves behind has the type it must have.
LEMMA DrawType ==
    ASSUME TypeOK, NEW q \in Seats, NEW hands \in [Seats -> Seq(Kind)],
           NEW melds, NEW drops \in [Seats -> SUBSET Nat],
           NEW answers \in [Seats -> SUBSET ActionType], NEW confirming \in BOOLEAN,
           RequestMahjong(q, hands, melds, drops, answers, confirming)
    PROVE  /\ playState' \in PlayStates
           /\ pool' \in [Kind -> Nat]
           /\ huaPool' \in Nat
           /\ handIn' \in [Seats -> Seq(Kind)]
           /\ banker' \in [Seats -> BOOLEAN]
           /\ waitList' \in [Seats -> WaitActionInfo \cup {NoWait}]
           /\ askedDrop' \in [Seats -> SUBSET Nat]
           /\ askedAction' \in [Seats -> SUBSET ActionType]
<1>0. NobodyWaits \in [Seats -> WaitActionInfo \cup {NoWait}]
  BY DEF NobodyWaits
<1>1. CASE /\ pool' = pool
           /\ huaPool' = 0
           /\ handIn' = hands
           /\ EndGame({}, q)
           /\ askedDrop' = drops
           /\ askedAction' = answers
  BY <1>0, <1>1 DEF EndGame, TypeOK, PlayStates
<1>2. ASSUME NEW t \in Kind, NEW hua \in 0 .. huaPool,
             pool[t] > 0,
             pool' = [pool EXCEPT ![t] = @ - 1],
             huaPool' = huaPool - hua,
             handIn' = [hands EXCEPT ![q] = Append(@, t)],
             NotifyPlayerGet(q, t, Append(hands[q], t), melds[q], drops, answers, confirming),
             UNCHANGED banker
      PROVE  /\ playState' \in PlayStates
             /\ pool' \in [Kind -> Nat]
             /\ huaPool' \in Nat
             /\ handIn' \in [Seats -> Seq(Kind)]
             /\ banker' \in [Seats -> BOOLEAN]
             /\ waitList' \in [Seats -> WaitActionInfo \cup {NoWait}]
             /\ askedDrop' \in [Seats -> SUBSET Nat]
             /\ askedAction' \in [Seats -> SUBSET ActionType]
  <2> DEFINE h == Append(hands[q], t)
             acts == SelfActions(h, melds[q], t)
             info == [dropped |-> q, mah |-> t, actions |-> acts, confirmed |-> AT_MAX]
  <2>1. h \in Seq(Kind)
    BY AppendProperties
  <2>2. acts \in SUBSET ActionType
    BY DEF SelfActions, ActionType
  <2>3. info \in WaitActionInfo
    BY <2>2 DEF WaitActionInfo
  <2> HIDE DEF h, acts, info
  <2>4. /\ pool' \in [Kind -> Nat]
        /\ huaPool' \in Nat
        /\ banker' \in [Seats -> BOOLEAN]
    BY <1>2 DEF TypeOK
  <2>5. handIn' \in [Seats -> Seq(Kind)]
    BY <1>2, <2>1 DEF h
  <2>6. /\ waitList' = IF confirming THEN NobodyWaits
                       ELSE IF acts # {} /\ ~Waiting(q) THEN [waitList EXCEPT ![q] = info]
                       ELSE waitList
        /\ playState' = IF acts = {} THEN "MPS_NORMAL_GAMING" ELSE "MPS_WAIT_FOR_ACTION"
        /\ askedDrop' = IF acts = {} THEN AskDrop(drops, q, h) ELSE drops
        /\ askedAction' = IF acts = {} THEN answers ELSE AskAction(answers, q, acts)
    BY <1>2 DEF NotifyPlayerGet, h, acts, info
  <2>7. /\ waitList' \in [Seats -> WaitActionInfo \cup {NoWait}]
        /\ playState' \in PlayStates
    BY <1>0, <2>3, <2>6 DEF TypeOK, PlayStates
  <2>8. askedDrop' \in [Seats -> SUBSET Nat]
    BY <2>1, <2>6, AskDropType
  <2>9. askedAction' \in [Seats -> SUBSET ActionType]
    BY <2>2, <2>6, AskActionType
  <2> QED BY <2>4, <2>5, <2>7, <2>8, <2>9
<1> QED BY <1>1, <1>2 DEF RequestMahjong, InPool

\* The same for the start of a hand, whose arguments are the hands as they are then.
LEMMA StartHandType ==
    ASSUME TypeOK, NEW done, NEW hands \in [Seats -> Seq(Kind)], StartHand(done, hands)
    PROVE  /\ playState' \in PlayStates
           /\ askedDrop' \in [Seats -> SUBSET Nat]
           /\ crashed' \in BOOLEAN
<1>1. bankerPos # -1 => AskDrop(askedDrop, bankerPos, hands[bankerPos]) \in [Seats -> SUBSET Nat]
  <2>1. bankerPos # -1 => bankerPos \in Seats
    BY DEF TypeOK
  <2> QED BY <2>1, AskDropType DEF TypeOK
<1> QED BY <1>1 DEF StartHand, AllPlayerGetStartDone, TypeOK, PlayStates

\* A hand starts with some hands of tiles; robots report theirs at once.
LEMMA StartGameHands ==
    ASSUME TypeOK, StartGame
    PROVE  \E done, hands : hands \in [Seats -> Seq(Kind)] /\ handIn' = hands /\ StartHand(done, hands)
<1> DEFINE done == [p \in Seats |-> getStartDone[p] \/ p \in Robots]
           Held(p, dealt) == LET h == handIn[p] \o dealt
                             IN  IF p \in Robots THEN Reordered(h) ELSE h
           none == [p \in Seats |-> Held(p, <<>>)]
           dealtTo(d) == [p \in Seats |-> Held(p, d[DealIndex(p)])]
<1>1. ASSUME NEW p \in Seats, NEW dealt \in Seq(Kind)
      PROVE  Held(p, dealt) \in Seq(Kind)
  <2>1. handIn[p] \o dealt \in Seq(Kind)
    BY ConcatProperties DEF TypeOK
  <2> QED BY <2>1, ReorderedType
<1> HIDE DEF Held
<1>2. none \in [Seats -> Seq(Kind)]
  BY <1>1, EmptySeq
<1>3. ASSUME NEW d \in Deals, bankerPos # -1
      PROVE  dealtTo(d) \in [Seats -> Seq(Kind)]
  <2>1. \A p \in Seats : DealIndex(p) \in Seats
    BY <1>3, ConstantsAssumption DEF DealIndex, Seats, TypeOK
  <2>2. d \in [Seats -> Seq(Kind)]
    BY ConstantsAssumption
  <2> QED BY <1>1, <2>1, <2>2
<1>4. \/ handIn' = none /\ StartHand(done, none)
      \/ \E d \in Deals : bankerPos # -1 /\ handIn' = dealtTo(d) /\ StartHand(done, dealtTo(d))
  BY DEF StartGame, Held
<1> HIDE DEF none, dealtTo, done
<1> QED BY <1>2, <1>3, <1>4

LEMMA StartGameType ==
    ASSUME TypeOK, StartGame
    PROVE  /\ ready' \in [Seats -> BOOLEAN]
           /\ getStartDone' \in [Seats -> BOOLEAN]
           /\ pool' \in [Kind -> Nat]
           /\ huaPool' \in Nat
           /\ handIn' \in [Seats -> Seq(Kind)]
           /\ playState' \in PlayStates
           /\ askedDrop' \in [Seats -> SUBSET Nat]
           /\ crashed' \in BOOLEAN
<1>1. /\ ready' \in [Seats -> BOOLEAN]
      /\ getStartDone' \in [Seats -> BOOLEAN]
  BY DEF StartGame, TypeOK
<1>2. pool' \in [Kind -> Nat] /\ huaPool' \in Nat
  <2>1. CASE /\ pool' = [t \in Kind |-> pool[t] + SingleCount]
             /\ huaPool' = huaPool + HuaCount
    BY <2>1, ConstantsAssumption DEF TypeOK
  <2>2. ASSUME NEW d \in Deals, NEW hua \in 0 .. HuaCount,
               IsDeal(d, bankerPos),
               pool' = [t \in Kind |-> pool[t] + SingleCount - HeldCopies(d, t)],
               huaPool' = huaPool + HuaCount - hua
        PROVE  pool' \in [Kind -> Nat] /\ huaPool' \in Nat
    <3>1. \A t \in Kind : HeldCopies(d, t) \in 0 .. SingleCount
      BY <2>2 DEF IsDeal
    <3> QED BY <2>2, <3>1, ConstantsAssumption DEF TypeOK
  <2> QED BY <2>1, <2>2 DEF StartGame
<1>3. PICK done, hands : hands \in [Seats -> Seq(Kind)] /\ handIn' = hands /\ StartHand(done, hands)
  BY StartGameHands
<1> QED BY <1>1, <1>2, <1>3, StartHandType

LEMMA EndGameType ==
    ASSUME TypeOK, NEW winners, NEW dropped, EndGame(winners, dropped)
    PROVE  /\ playState' \in PlayStates
           /\ waitList' \in [Seats -> WaitActionInfo \cup {NoWait}]
           /\ banker' \in [Seats -> BOOLEAN]
<1>1. /\ playState' \in PlayStates
      /\ waitList' \in [Seats -> WaitActionInfo \cup {NoWait}]
  BY DEF EndGame, PlayStates, NobodyWaits
<1>2. /\ [p \in Seats |-> p \in winners] \in [Seats -> BOOLEAN]
      /\ [p \in Seats |-> p = dropped] \in [Seats -> BOOLEAN]
      /\ banker \in [Seats -> BOOLEAN]
  BY DEF TypeOK
<1>3. \/ banker' = [p \in Seats |-> p \in winners]
      \/ banker' = [p \in Seats |-> p = dropped]
      \/ banker' = banker
  BY DEF EndGame
<1> QED BY <1>1, <1>2, <1>3

\* An entry of the wait list that is in the map has all its fields.
LEMMA WaitingType ==
    ASSUME TypeOK, NEW q \in Seats, Waiting(q)
    PROVE  /\ waitList[q].dropped \in Seats
           /\ waitList[q].mah \in Kind
           /\ waitList[q].actions \in SUBSET ActionType
BY DEF TypeOK, Waiting, WaitActionInfo

\* What carrying out the confirmed action of entry waitList[q] leaves behind.
LEMMA ExecuteType ==
    ASSUME TypeOK, NEW q \in Seats, Waiting(q),
           NEW answers \in [Seats -> SUBSET ActionType],
           \/ ExecuteGang(q, waitList[q], answers)
           \/ ExecutePeng(q, waitList[q], answers)
           \/ ExecutePass(q, waitList[q], answers)
    PROVE  /\ playState' \in PlayStates
           /\ pool' \in [Kind -> Nat]
           /\ huaPool' \in Nat
           /\ handIn' \in [Seats -> Seq(Kind)]
           /\ pengGang' \in [Seats -> Seq(Meld)]
           /\ banker' \in [Seats -> BOOLEAN]
           /\ waitList' \in [Seats -> WaitActionInfo \cup {NoWait}]
           /\ askedDrop' \in [Seats -> SUBSET Nat]
           /\ askedAction' \in [Seats -> SUBSET ActionType]
           /\ wrongGang' \subseteq Seats
<1> DEFINE info == waitList[q]
<1>1. /\ info.dropped \in Seats
      /\ info.mah \in Kind
  BY WaitingType
<1> HIDE DEF info
<1>2. /\ handIn \in [Seats -> Seq(Kind)]
      /\ pengGang \in [Seats -> Seq(Meld)]
      /\ askedDrop \in [Seats -> SUBSET Nat]
      /\ wrongGang \subseteq Seats
      /\ handIn[q] \in Seq(Kind)
      /\ pengGang[q] \in Seq(Meld)
  BY DEF TypeOK
<1>3. NobodyWaits \in [Seats -> WaitActionInfo \cup {NoWait}]
  BY DEF NobodyWaits
<1>4. CASE ExecuteGang(q, info, answers)
  <2> DEFINE selfDrawn == info.dropped = q
             hands == [handIn EXCEPT ![q] = GangHand(@, pengGang[q], info.mah, selfDrawn)]
             melds == [pengGang EXCEPT ![q] = GangMelds(@, info.mah)]
  <2>1. /\ hands \in [Seats -> Seq(Kind)]
        /\ melds \in [Seats -> Seq(Meld)]
    <3>1. selfDrawn \in BOOLEAN
      OBVIOUS
    <3> HIDE DEF selfDrawn
    <3> QED BY <3>1, <1>1, <1>2, GangType
  <2>2. /\ pengGang' = melds
        /\ wrongGang' = wrongGang \/ wrongGang' = wrongGang \cup {q}
        /\ RequestMahjong(q, hands, melds, askedDrop, answers, TRUE)
    BY <1>4 DEF ExecuteGang
  <2> HIDE DEF hands, melds
  <2> QED BY <2>1, <2>2, <1>2, DrawType
<1>5. CASE ExecutePeng(q, info, answers)
  <2> DEFINE hand == PengHand(handIn[q], info.mah)
             melds == PengMelds(pengGang[q], info.mah)
  <2>1. hand \in Seq(Kind) /\ melds \in Seq(Meld)
    BY <1>1, <1>2, PengType
  <2> HIDE DEF hand, melds
  <2>2. AskDrop(askedDrop, q, hand) \in [Seats -> SUBSET Nat]
    BY <2>1, <1>2, AskDropType
  <2>3. /\ playState' = "MPS_NORMAL_GAMING"
        /\ handIn' = [handIn EXCEPT ![q] = hand]
        /\ pengGang' = [pengGang EXCEPT ![q] = melds]
        /\ askedDrop' = AskDrop(askedDrop, q, hand)
        /\ askedAction' = answers
        /\ waitList' = NobodyWaits
        /\ UNCHANGED <<pool, huaPool, banker, wrongGang>>
    BY <1>5 DEF ExecutePeng, hand, melds
  <2>4. handIn' \in [Seats -> Seq(Kind)] /\ pengGang' \in [Seats -> Seq(Meld)]
    BY <2>1, <2>3, <1>2
  <2>5. /\ pool' \in [Kind -> Nat]
        /\ huaPool' \in Nat
        /\ banker' \in [Seats -> BOOLEAN]
        /\ wrongGang' \subseteq Seats
    BY <2>3 DEF TypeOK
  <2>6. playState' \in PlayStates
    BY <2>3 DEF PlayStates
  <2> QED BY <1>3, <2>2, <2>3, <2>4, <2>5, <2>6
<1>6. CASE ExecutePass(q, info, answers)
  <2>1. UNCHANGED <<pengGang, wrongGang>>
    BY <1>6 DEF ExecutePass
  <2>2. CASE RequestMahjong(NextSeat(info.dropped), handIn, pengGang, askedDrop, answers, TRUE)
    <3>1. NextSeat(info.dropped) \in Seats
      BY <1>1, ConstantsAssumption DEF NextSeat, Seats
    <3> QED BY <2>1, <2>2, <3>1, <1>2, DrawType
  <2>3. CASE /\ playState' = "MPS_NORMAL_GAMING"
             /\ askedDrop' = AskDrop(askedDrop, q, handIn[q])
             /\ askedAction' = answers
             /\ waitList' = NobodyWaits
             /\ UNCHANGED <<pool, huaPool, handIn, banker>>
    <3>1. askedDrop' \in [Seats -> SUBSET Nat]
      BY <2>3, <1>2, AskDropType
    <3>2. /\ pool' \in [Kind -> Nat]
          /\ huaPool' \in Nat
          /\ banker' \in [Seats -> BOOLEAN]
      BY <2>3 DEF TypeOK
    <3>3. playState' \in PlayStates
      BY <2>3 DEF PlayStates
    <3> QED BY <1>2, <1>3, <2>1, <2>3, <3>1, <3>2, <3>3
  <2> QED BY <1>6, <2>2, <2>3 DEF ExecutePass
<1> QED BY <1>4, <1>5, <1>6 DEF info

----------------------------------------------------------------------------
\* Every variable keeps its type: in particular the pool is never drawn below
\* zero, hands stay sequences of tiles whatever is cut out of them, and every
\* position read from the position list is a seat.
THEOREM TypeCorrect == Spec => []TypeOK
<1>1. Init => TypeOK
  <2> SUFFICES ASSUME Init
               PROVE  TypeOK
    OBVIOUS
  <2>1. bankerPos \in Seats
    BY ConstantsAssumption DEF Init
  <2>2. /\ handIn \in [Seats -> Seq(Kind)]
        /\ pengGang \in [Seats -> Seq(Meld)]
    BY EmptySeq DEF Init
  <2>3. /\ waitList \in [Seats -> WaitActionInfo \cup {NoWait}]
        /\ askedDrop \in [Seats -> SUBSET Nat]
        /\ askedAction \in [Seats -> SUBSET ActionType]
    BY DEF Init, NobodyWaits, NobodyAsked
  <2> QED BY <2>1, <2>2, <2>3 DEF Init, TypeOK, PlayStates
<1>2. TypeOK /\ [Next]_vars => TypeOK'
  <2> SUFFICES ASSUME TypeOK, [Next]_vars
               PROVE  TypeOK'
    OBVIOUS
  <2>1. ASSUME NEW p \in Seats, NEW r \in BOOLEAN, PlayerReady(p, r)
        PROVE  TypeOK'
    <3>1. CASE StartGame
      BY <2>1, <3>1, StartGameType DEF PlayerReady, TypeOK
    <3>2. CASE ~StartGame
      <4>1. /\ ready' = [ready EXCEPT ![p] = r]
            /\ UNCHANGED <<pool, huaPool, handIn, getStartDone, playState, askedDrop, crashed>>
        BY <2>1, <3>2 DEF PlayerReady
      <4> QED BY <2>1, <4>1 DEF PlayerReady, TypeOK
    <3> QED BY <3>1, <3>2
  <2>2. ASSUME NEW p \in Seats, PlayerGetStartDone(p)
        PROVE  TypeOK'
    <3> DEFINE done == [getStartDone EXCEPT ![p] = TRUE]
               hands == [handIn EXCEPT ![p] = Reordered(@)]
    <3>1. hands \in [Seats -> Seq(Kind)]
      BY ReorderedType DEF TypeOK
    <3>2. getStartDone' \in [Seats -> BOOLEAN]
      BY <2>2 DEF PlayerGetStartDone, TypeOK
    <3>3. handIn' = hands /\ StartHand(done, hands)
      BY <2>2 DEF PlayerGetStartDone
    <3> HIDE DEF done, hands
    <3> QED BY <2>2, <3>1, <3>2, <3>3, StartHandType DEF PlayerGetStartDone, TypeOK
  <2>3. ASSUME NEW p \in Seats, NEW i \in askedDrop[p], RequestDrop(p, i)
        PROVE  TypeOK'
    <3> DEFINE t == handIn[p][i]
               hands == [handIn EXCEPT ![p] = Reordered(RemoveAt(@, i))]
               drops == [askedDrop EXCEPT ![p] = {}]
               acts == [q \in Seats |-> IF q = p THEN {} ELSE ClaimActions(handIn[q], t)]
               claimers == {q \in Seats : acts[q] # {}}
               Info(q) == [dropped |-> p, mah |-> t, actions |-> acts[q], confirmed |-> AT_MAX]
    <3>1. t \in Kind /\ hands \in [Seats -> Seq(Kind)]
      <4>1. handIn[p] \in Seq(Kind) /\ i \in 1 .. Len(handIn[p])
        BY <2>3, LenProperties DEF RequestDrop, TypeOK
      <4> QED BY <4>1, ElementOfSeq, RemoveAtType, ReorderedType DEF TypeOK
    <3>2. drops \in [Seats -> SUBSET Nat] /\ askedAction \in [Seats -> SUBSET ActionType]
      BY DEF TypeOK
    <3>3. \A q \in Seats : acts[q] \in SUBSET ActionType
      BY DEF ClaimActions, ActionType
    <3>4. \A q \in Seats : Info(q) \in WaitActionInfo
      BY <3>1, <3>3 DEF WaitActionInfo
    <3>5. UNCHANGED <<pengGang, wrongGang, ready, getStartDone, bankerPos, chooseList, crashed>>
      BY <2>3 DEF RequestDrop
    <3>6. CASE claimers = {}
      <4>1. RequestMahjong(NextSeat(p), hands, pengGang, drops, askedAction, FALSE)
        BY <2>3, <3>6 DEF RequestDrop
      <4>2. NextSeat(p) \in Seats
        BY ConstantsAssumption DEF NextSeat, Seats
      <4> HIDE DEF hands, drops, claimers
      <4> QED BY <3>1, <3>2, <3>5, <4>1, <4>2, DrawType DEF TypeOK
    <3>7. CASE claimers # {}
      <4>1. /\ playState' = "MPS_WAIT_FOR_ACTION"
            /\ waitList' = [q \in Seats |-> IF q \in claimers /\ ~Waiting(q)
                                           THEN Info(q) ELSE waitList[q]]
            /\ askedAction' = [q \in Seats |-> IF q \in claimers
                                  THEN AskAction(askedAction, q, acts[q])[q]
                                  ELSE askedAction[q]]
            /\ askedDrop' = drops
            /\ handIn' = hands
            /\ UNCHANGED <<pool, huaPool, banker>>
        BY <2>3, <3>7 DEF RequestDrop
      <4>2. waitList' \in [Seats -> WaitActionInfo \cup {NoWait}]
        BY <3>4, <4>1 DEF TypeOK
      <4>3. \A q \in claimers : AskAction(askedAction, q, acts[q])[q] \in SUBSET ActionType
        BY <3>2, <3>3, AskActionType
      <4>4. askedAction' \in [Seats -> SUBSET ActionType]
        BY <3>2, <4>1, <4>3
      <4> QED BY <3>1, <3>2, <3>5, <4>1, <4>2, <4>4 DEF TypeOK, PlayStates
    <3> QED BY <3>6, <3>7
  <2>4. ASSUME NEW p \in Seats, NEW a \in ActionType, ConfirmIgnored(p, a)
        PROVE  TypeOK'
    BY <2>4 DEF ConfirmIgnored, TypeOK, tiles, seating
  <2>5. ASSUME NEW p \in Seats, NEW a \in ActionType, ConfirmAndWait(p, a)
        PROVE  TypeOK'
    <3>1. waitList' \in [Seats -> WaitActionInfo \cup {NoWait}]
      <4>1. Waiting(p)
        BY <2>5 DEF ConfirmAndWait, NoWait, Waiting
      <4>2. [waitList[p] EXCEPT !.confirmed = a] \in WaitActionInfo
        BY <4>1 DEF TypeOK, Waiting, WaitActionInfo
      <4>3. waitList' = [waitList EXCEPT ![p] = [waitList[p] EXCEPT !.confirmed = a]]
        BY <2>5 DEF ConfirmAndWait, TypeOK
      <4> QED BY <4>2, <4>3 DEF TypeOK
    <3> QED BY <2>5, <3>1 DEF ConfirmAndWait, TypeOK, tiles, seating
  <2>6. ASSUME NEW p \in Seats, NEW a \in ActionType, ConfirmLast(p, a)
        PROVE  TypeOK'
    <3> DEFINE answers == [askedAction EXCEPT ![p] = {}]
    <3>1. answers \in [Seats -> SUBSET ActionType]
      BY DEF TypeOK
    <3>2. PICK q \in Seats : /\ Waiting(q)
                             /\ \/ ExecuteGang(q, waitList[q], answers)
                                \/ ExecutePeng(q, waitList[q], answers)
                                \/ ExecutePass(q, waitList[q], answers)
      BY <2>6 DEF ConfirmLast
    <3> HIDE DEF answers
    <3>3. UNCHANGED <<ready, getStartDone, bankerPos, chooseList, crashed>>
      BY <2>6 DEF ConfirmLast
    <3> QED BY <3>1, <3>2, <3>3, ExecuteType DEF TypeOK
  <2>7. ASSUME NEW p \in Seats, ConfirmHu(p)
        PROVE  TypeOK'
    BY <2>7, EndGameType DEF ConfirmHu, TypeOK, tiles
  <2>8. ASSUME NEW p \in Seats, PlayerContinueGame(p)
        PROVE  TypeOK'
    <3>1. /\ handIn' \in [Seats -> Seq(Kind)]
          /\ pengGang' \in [Seats -> Seq(Meld)]
      BY <2>8, EmptySeq DEF PlayerContinueGame, TypeOK
    <3>2. waitList' \in [Seats -> WaitActionInfo \cup {NoWait}]
      BY <2>8 DEF PlayerContinueGame, TypeOK, NobodyWaits
    <3> QED BY <2>8, <3>1, <3>2 DEF PlayerContinueGame, TypeOK, PlayStates
  <2>9. CASE UNCHANGED vars
    BY <2>9 DEF TypeOK, vars, tiles, seating, asking
  <2> QED BY <2>1, <2>2, <2>3, <2>4, <2>5, <2>6, <2>7, <2>8, <2>9 DEF Next
<1> QED BY <1>1, <1>2, PTL DEF Spec

----------------------------------------------------------------------------
(***************************************************************************)
(* WaitersAreAsked is not inductive: a robot whose earlier answer is still *)
(* queued would not be asked again.  The strengthening says when such an   *)
(* answer can be outstanding, that nobody is asked to discard while others *)
(* are asked to claim, and that a robot neither chooses to continue nor    *)
(* gets ready after the first hand, so that no hand starts with its answer *)
(* to the previous one outstanding.                                        *)
(***************************************************************************)
DropsAlone ==
    \A p \in Seats : askedDrop[p] # {} =>
        /\ playState = "MPS_NORMAL_GAMING"
        /\ \A q \in Seats \ {p} : askedDrop[q] = {}

RobotAnswersAreDue ==
    \A p \in Robots : askedAction[p] # {} =>
        \/ Waiting(p) /\ waitList[p].confirmed = AT_MAX
        \/ Stuck
        \/ playState = "MPS_ENDING"

RobotsPlayOnce ==
    /\ chooseList \cap Robots = {}
    /\ playState # "MPS_WAITING" => \A p \in Robots : ~ready[p]

AskingInv == WaitersAreAsked /\ DropsAlone /\ RobotAnswersAreDue /\ RobotsPlayOnce

\* The part of the invariant that a draw establishes.
Asking == WaitersAreAsked /\ DropsAlone /\ RobotAnswersAreDue

LEMMA DrawAsks ==
    ASSUME TypeOK, NEW q \in Seats, NEW hands \in [Seats -> Seq(Kind)],
           NEW melds, NEW drops \in [Seats -> SUBSET Nat],
           NEW answers \in [Seats -> SUBSET ActionType], NEW confirming \in BOOLEAN,
           \A p \in Seats : drops[p] = {},
           \A p \in Robots : answers[p] = {},
           confirming \/ \A p \in Seats : ~Waiting(p),
           RequestMahjong(q, hands, melds, drops, answers, confirming)
    PROVE  Asking' /\ playState' # "MPS_WAITING"
<1>0. Robots \subseteq Seats
  BY ConstantsAssumption
<1>1. CASE EndGame({}, q) /\ askedDrop' = drops /\ askedAction' = answers
  BY <1>0, <1>1 DEF EndGame, NobodyWaits, Asking, WaitersAreAsked, DropsAlone, RobotAnswersAreDue, Waiting
<1>2. ASSUME NEW t \in Kind,
             NotifyPlayerGet(q, t, Append(hands[q], t), melds[q], drops, answers, confirming)
      PROVE  Asking' /\ playState' # "MPS_WAITING"
  <2> DEFINE h == Append(hands[q], t)
             acts == SelfActions(h, melds[q], t)
             info == [dropped |-> q, mah |-> t, actions |-> acts, confirmed |-> AT_MAX]
  <2>1. h \in Seq(Kind)
    BY AppendProperties
  <2>2. acts \in SUBSET ActionType
    BY DEF SelfActions, ActionType
  <2>3. info # NoWait /\ info.actions = acts /\ info.confirmed = AT_MAX
    <3>1. info.dropped # -1
      BY DEF Seats
    <3> QED BY <3>1 DEF NoWait
  <2> HIDE DEF h, acts, info
  <2>4. /\ waitList' = IF confirming THEN NobodyWaits
                       ELSE IF acts # {} /\ ~Waiting(q) THEN [waitList EXCEPT ![q] = info]
                       ELSE waitList
        /\ playState' = IF acts = {} THEN "MPS_NORMAL_GAMING" ELSE "MPS_WAIT_FOR_ACTION"
        /\ askedDrop' = IF acts = {} THEN AskDrop(drops, q, h) ELSE drops
        /\ askedAction' = IF acts = {} THEN answers ELSE AskAction(answers, q, acts)
    BY <1>2 DEF NotifyPlayerGet, h, acts, info
  <2>5. CASE acts = {}
    <3>1. \A p \in Seats : ~Waiting(p)'
      BY <2>4, <2>5 DEF NobodyWaits, Waiting
    <3>2. DropsAlone'
      <4>1. \A p \in Seats \ {q} : AskDrop(drops, q, h)[p] = drops[p]
        BY DEF AskDrop
      <4>2. \A p \in Seats \ {q} : askedDrop'[p] = {}
        BY <2>4, <2>5, <4>1
      <4> QED BY <2>4, <2>5, <4>2 DEF DropsAlone
    <3> QED BY <1>0, <2>4, <2>5, <3>1, <3>2 DEF Asking, WaitersAreAsked, RobotAnswersAreDue
  <2>6. CASE acts # {}
    <3>1. /\ \A p \in Seats \ {q} : askedAction'[p] = answers[p]
          /\ askedAction'[q] # {}
          /\ askedAction'[q] \subseteq acts
      <4>1. q \notin Robots \/ answers[q] = {}
        OBVIOUS
      <4>2. /\ AskAction(answers, q, acts)[q] # {}
            /\ AskAction(answers, q, acts)[q] \subseteq acts
        BY <2>2, <2>6, <4>1, AskActionType
      <4>3. \A p \in Seats \ {q} : AskAction(answers, q, acts)[p] = answers[p]
        BY DEF AskAction
      <4> QED BY <2>4, <2>6, <4>2, <4>3
    <3>2. DropsAlone'
      BY <2>4, <2>6 DEF DropsAlone
    <3>3. CASE confirming
      <4>1. \A p \in Seats : ~Waiting(p)'
        BY <2>4, <3>3 DEF NobodyWaits, Waiting
      <4>2. Stuck'
        BY <2>4, <2>6, <4>1 DEF Stuck
      <4> QED BY <2>4, <2>6, <3>2, <4>1, <4>2 DEF Asking, WaitersAreAsked, RobotAnswersAreDue
    <3>4. CASE ~confirming
      <4>1. waitList' = [waitList EXCEPT ![q] = info]
        BY <2>4, <2>6, <3>4
      <4>2. /\ waitList'[q] = info
            /\ \A p \in Seats \ {q} : waitList'[p] = NoWait
        BY <3>4, <4>1 DEF TypeOK, Waiting
      <4>3. WaitersAreAsked'
        BY <2>3, <2>4, <2>6, <3>1, <4>2 DEF WaitersAreAsked, Waiting
      <4>4. RobotAnswersAreDue'
        BY <1>0, <2>3, <3>1, <4>2 DEF RobotAnswersAreDue, Waiting
      <4> QED BY <2>4, <2>6, <3>2, <4>3, <4>4 DEF Asking
    <3> QED BY <3>3, <3>4
  <2> QED BY <2>5, <2>6
<1> QED BY <1>1, <1>2 DEF RequestMahjong, InPool

\* When nobody waits or is asked for a discard, a hand starts with at most the banker asked.
LEMMA StartHandAsks ==
    ASSUME TypeOK, NEW done, NEW hands \in [Seats -> Seq(Kind)], StartHand(done, hands),
           \A p \in Seats : askedDrop[p] = {},
           \A p \in Seats : ~Waiting(p),
           \A p \in Robots : askedAction[p] = {},
           UNCHANGED <<waitList, askedAction>>
    PROVE  Asking' /\ playState' # "MPS_WAITING"
<1>1. bankerPos # -1 => bankerPos \in Seats
  BY DEF TypeOK
<1>2. CASE UNCHANGED askedDrop
  BY <1>2 DEF StartHand, AllPlayerGetStartDone, Asking, WaitersAreAsked, DropsAlone, RobotAnswersAreDue, Waiting
<1>3. CASE /\ playState' = "MPS_NORMAL_GAMING"
           /\ bankerPos \in Seats
           /\ askedDrop' = AskDrop(askedDrop, bankerPos, hands[bankerPos])
  <2>1. \A q \in Seats \ {bankerPos} : askedDrop'[q] = {}
    <3>1. askedDrop \in [Seats -> SUBSET Nat] /\ hands[bankerPos] \in Seq(Kind)
      BY <1>3 DEF TypeOK
    <3>2. \A q \in Seats \ {bankerPos} :
             AskDrop(askedDrop, bankerPos, hands[bankerPos])[q] = askedDrop[q]
      BY <1>3, <3>1, AskDropType
    <3> QED BY <1>3, <3>2
  <2> QED BY <1>3, <2>1 DEF Asking, WaitersAreAsked, DropsAlone, RobotAnswersAreDue, Waiting
<1> QED BY <1>1, <1>2, <1>3 DEF StartHand, AllPlayerGetStartDone

LEMMA ExecuteAsks ==
    ASSUME TypeOK, NEW q \in Seats, Waiting(q),
           NEW answers \in [Seats -> SUBSET ActionType],
           \A p \in Seats : askedDrop[p] = {},
           \A p \in Robots : answers[p] = {},
           \/ ExecuteGang(q, waitList[q], answers)
           \/ ExecutePeng(q, waitList[q], answers)
           \/ ExecutePass(q, waitList[q], answers)
    PROVE  Asking' /\ playState' # "MPS_WAITING"
<1> DEFINE info == waitList[q]
<1>1. info.dropped \in Seats /\ info.mah \in Kind
  BY WaitingType
<1> HIDE DEF info
<1>2. /\ handIn \in [Seats -> Seq(Kind)]
      /\ pengGang \in [Seats -> Seq(Meld)]
      /\ askedDrop \in [Seats -> SUBSET Nat]
      /\ handIn[q] \in Seq(Kind)
      /\ pengGang[q] \in Seq(Meld)
  BY DEF TypeOK
<1>3. ASSUME NEW h \in Seq(Kind),
             playState' = "MPS_NORMAL_GAMING",
             askedDrop' = AskDrop(askedDrop, q, h),
             askedAction' = answers,
             waitList' = NobodyWaits
      PROVE  Asking' /\ playState' # "MPS_WAITING"
  <2>1. \A p \in Seats \ {q} : AskDrop(askedDrop, q, h)[p] = askedDrop[p]
    BY <1>2 DEF AskDrop
  <2>2. DropsAlone'
    BY <1>3, <2>1 DEF DropsAlone
  <2>3. \A p \in Seats : ~Waiting(p)'
    BY <1>3 DEF NobodyWaits, Waiting
  <2> QED BY <1>3, <2>2, <2>3 DEF Asking, WaitersAreAsked, RobotAnswersAreDue
<1>4. CASE ExecuteGang(q, info, answers)
  <2> DEFINE selfDrawn == info.dropped = q
             hands == [handIn EXCEPT ![q] = GangHand(@, pengGang[q], info.mah, selfDrawn)]
             melds == [pengGang EXCEPT ![q] = GangMelds(@, info.mah)]
  <2>1. hands \in [Seats -> Seq(Kind)]
    <3>1. selfDrawn \in BOOLEAN
      OBVIOUS
    <3> HIDE DEF selfDrawn
    <3> QED BY <3>1, <1>1, <1>2, GangType
  <2>2. RequestMahjong(q, hands, melds, askedDrop, answers, TRUE)
    BY <1>4 DEF ExecuteGang
  <2> HIDE DEF hands, melds
  <2> QED BY <2>1, <2>2, <1>2, DrawAsks
<1>5. CASE ExecutePeng(q, info, answers)
  <2>1. PengHand(handIn[q], info.mah) \in Seq(Kind)
    BY <1>1, <1>2, PengType
  <2> QED BY <1>3, <1>5, <2>1 DEF ExecutePeng
<1>6. CASE ExecutePass(q, info, answers)
  <2>1. NextSeat(info.dropped) \in Seats
    BY <1>1, ConstantsAssumption DEF NextSeat, Seats
  <2>2. CASE RequestMahjong(NextSeat(info.dropped), handIn, pengGang, askedDrop, answers, TRUE)
    BY <1>2, <2>1, <2>2, DrawAsks
  <2>3. CASE /\ playState' = "MPS_NORMAL_GAMING"
             /\ askedDrop' = AskDrop(askedDrop, q, handIn[q])
             /\ askedAction' = answers
             /\ waitList' = NobodyWaits
    BY <1>2, <1>3, <2>3
  <2> QED BY <1>6, <2>2, <2>3 DEF ExecutePass
<1> QED BY <1>4, <1>5, <1>6 DEF info

LEMMA AskingStep == TypeOK /\ AskingInv /\ [Next]_vars => AskingInv'
<1> SUFFICES ASSUME TypeOK, AskingInv, [Next]_vars
             PROVE  AskingInv'
  OBVIOUS
<1>0. /\ Robots \subseteq Seats
      /\ \A p \in Robots : p \in Seats
  BY ConstantsAssumption
<1> USE DEF AskingInv
<1>1. ASSUME NEW p \in Seats, NEW r \in BOOLEAN, PlayerReady(p, r)
      PROVE  AskingInv'
  <2>1. UNCHANGED <<chooseList, waitList, askedAction>>
    BY <1>1 DEF PlayerReady
  <2>2. CASE /\ ready' = [ready EXCEPT ![p] = r]
             /\ UNCHANGED <<playState, askedDrop>>
    <3>1. p \in Robots => playState = "MPS_WAITING"
      BY <1>1 DEF PlayerReady, RobotsPlayOnce
    <3>2. RobotsPlayOnce'
      BY <1>0, <2>1, <2>2, <3>1 DEF RobotsPlayOnce, TypeOK
    <3>3. WaitersAreAsked' /\ DropsAlone' /\ RobotAnswersAreDue'
      BY <2>1, <2>2 DEF WaitersAreAsked, DropsAlone, RobotAnswersAreDue, Waiting, Stuck
    <3> QED BY <3>2, <3>3
  <2>3. CASE StartGame /\ \A q \in Seats : q # p => ready[q]
    <3>1. /\ playState \in {"MPS_WAITING", "MPS_ENDING"}
          /\ playState = "MPS_ENDING" => p \in chooseList
      BY <1>1 DEF PlayerReady
    <3>2. playState = "MPS_ENDING" => Robots = {}
      BY <1>0, <2>3, <3>1 DEF RobotsPlayOnce
    <3>3. /\ \A q \in Seats : askedDrop[q] = {}
          /\ \A q \in Seats : ~Waiting(q)
      BY <3>1 DEF DropsAlone, WaitersAreAsked
    <3>4. \A q \in Robots : askedAction[q] = {}
      BY <1>0, <3>1, <3>2, <3>3 DEF RobotAnswersAreDue, Stuck
    <3>5. PICK done, hands : hands \in [Seats -> Seq(Kind)] /\ StartHand(done, hands)
      BY <2>3, StartGameHands
    <3>6. Asking' /\ playState' # "MPS_WAITING"
      BY <2>1, <3>3, <3>4, <3>5, StartHandAsks
    <3>7. RobotsPlayOnce'
      BY <1>0, <2>1, <2>3 DEF RobotsPlayOnce, StartGame
    <3> QED BY <3>6, <3>7 DEF Asking
  <2> QED BY <1>1, <2>2, <2>3 DEF PlayerReady
<1>2. ASSUME NEW p \in Seats, PlayerGetStartDone(p)
      PROVE  AskingInv'
  <2> DEFINE done == [getStartDone EXCEPT ![p] = TRUE]
             hands == [handIn EXCEPT ![p] = Reordered(@)]
  <2>1. hands \in [Seats -> Seq(Kind)]
    BY ReorderedType DEF TypeOK
  <2>2. /\ playState = "MPS_GET_START"
        /\ StartHand(done, hands)
        /\ UNCHANGED <<ready, chooseList, waitList, askedAction>>
    BY <1>2 DEF PlayerGetStartDone
  <2> HIDE DEF done, hands
  <2>3. /\ \A q \in Seats : askedDrop[q] = {}
        /\ \A q \in Seats : ~Waiting(q)
        /\ \A q \in Robots : askedAction[q] = {}
    BY <1>0, <2>2 DEF DropsAlone, WaitersAreAsked, RobotAnswersAreDue, Stuck
  <2>4. Asking' /\ playState' # "MPS_WAITING"
    BY <2>1, <2>2, <2>3, StartHandAsks
  <2>5. RobotsPlayOnce'
    BY <2>2 DEF RobotsPlayOnce
  <2> QED BY <2>4, <2>5 DEF Asking
<1>3. ASSUME NEW p \in Seats, NEW i \in askedDrop[p], RequestDrop(p, i)
      PROVE  AskingInv'
  <2> DEFINE t == handIn[p][i]
             hands == [handIn EXCEPT ![p] = Reordered(RemoveAt(@, i))]
             drops == [askedDrop EXCEPT ![p] = {}]
             acts == [q \in Seats |-> IF q = p THEN {} ELSE ClaimActions(handIn[q], t)]
             claimers == {q \in Seats : acts[q] # {}}
             Info(q) == [dropped |-> p, mah |-> t, actions |-> acts[q], confirmed |-> AT_MAX]
  <2>1. hands \in [Seats -> Seq(Kind)]
    <3>1. handIn[p] \in Seq(Kind) /\ i \in 1 .. Len(handIn[p])
      BY <1>3, LenProperties DEF RequestDrop, TypeOK
    <3> QED BY <3>1, RemoveAtType, ReorderedType DEF TypeOK
  <2>2. /\ drops \in [Seats -> SUBSET Nat]
        /\ askedAction \in [Seats -> SUBSET ActionType]
    BY DEF TypeOK
  <2>3. \A q \in Seats : drops[q] = {}
    BY <1>3 DEF DropsAlone, TypeOK
  <2>4. /\ playState = "MPS_NORMAL_GAMING"
        /\ UNCHANGED <<ready, chooseList>>
    BY <1>3 DEF RequestDrop
  <2>5. /\ \A q \in Seats : ~Waiting(q)
        /\ \A q \in Robots : askedAction[q] = {}
    BY <1>0, <2>4 DEF WaitersAreAsked, RobotAnswersAreDue, Stuck
  <2>6. RobotsPlayOnce'
    BY <2>4 DEF RobotsPlayOnce
  <2>7. CASE claimers = {}
    <3>1. RequestMahjong(NextSeat(p), hands, pengGang, drops, askedAction, FALSE)
      BY <1>3, <2>7 DEF RequestDrop
    <3>2. NextSeat(p) \in Seats
      BY ConstantsAssumption DEF NextSeat, Seats
    <3> HIDE DEF hands, drops, claimers
    <3>3. Asking'
      BY <2>1, <2>2, <2>3, <2>5, <3>1, <3>2, DrawAsks
    <3> QED BY <2>6, <3>3 DEF Asking
  <2>8. CASE claimers # {}
    <3>1. /\ playState' = "MPS_WAIT_FOR_ACTION"
          /\ waitList' = [q \in Seats |-> IF q \in claimers /\ ~Waiting(q)
                                         THEN Info(q) ELSE waitList[q]]
          /\ askedAction' = [q \in Seats |-> IF q \in claimers
                                THEN AskAction(askedAction, q, acts[q])[q]
                                ELSE askedAction[q]]
          /\ askedDrop' = drops
      BY <1>3, <2>8 DEF RequestDrop
    <3>2. \A q \in claimers : acts[q] \in SUBSET ActionType /\ acts[q] # {}
      BY DEF ClaimActions, ActionType
    <3>3. \A q \in claimers : /\ askedAction'[q] # {}
                              /\ askedAction'[q] \subseteq acts[q]
      <4>1. ASSUME NEW q \in claimers
            PROVE  /\ AskAction(askedAction, q, acts[q])[q] # {}
                   /\ AskAction(askedAction, q, acts[q])[q] \subseteq acts[q]
        <5> HIDE DEF acts
        <5> QED BY <2>2, <2>5, <3>2, AskActionType
      <4> QED BY <3>1, <4>1
    <3>4. /\ \A q \in claimers : /\ waitList'[q] # NoWait
                                 /\ waitList'[q].actions = acts[q]
                                 /\ waitList'[q].confirmed = AT_MAX
          /\ \A q \in Seats \ claimers : waitList'[q] = NoWait
      <4>1. \A q \in Seats : Info(q).dropped # NoWait.dropped
        BY DEF Seats, NoWait
      <4>2. \A q \in Seats : Info(q) # NoWait
        BY <4>1
      <4>3. \A q \in claimers : waitList'[q] = Info(q)
        BY <2>5, <3>1
      <4>4. \A q \in Seats \ claimers : waitList'[q] = NoWait
        BY <2>5, <3>1 DEF Waiting
      <4>5. \A q \in claimers : /\ waitList'[q].actions = acts[q]
                                /\ waitList'[q].confirmed = AT_MAX
        <5>1. \A q \in Seats : Info(q).actions = acts[q] /\ Info(q).confirmed = AT_MAX
          OBVIOUS
        <5> HIDE DEF Info, acts
        <5> QED BY <4>3, <5>1
      <4> HIDE DEF Info
      <4> QED BY <4>2, <4>3, <4>4, <4>5
    <3> HIDE DEF claimers, acts
    <3>5. \A q \in Seats : Waiting(q)' <=> q \in claimers
      BY <3>4 DEF Waiting
    <3>6. claimers \subseteq Seats
      BY DEF claimers
    <3>7. WaitersAreAsked'
      BY <2>8, <3>1, <3>3, <3>4, <3>5, <3>6 DEF WaitersAreAsked
    <3>8. DropsAlone'
      BY <2>3, <3>1 DEF DropsAlone
    <3>9. RobotAnswersAreDue'
      BY <1>0, <2>5, <3>1, <3>4, <3>5 DEF RobotAnswersAreDue
    <3> QED BY <2>6, <3>7, <3>8, <3>9
  <2> QED BY <2>7, <2>8
<1>4. ASSUME NEW p \in Seats, NEW a \in ActionType, ConfirmIgnored(p, a)
      PROVE  AskingInv'
  <2>1. /\ UNCHANGED <<ready, chooseList, playState, waitList, askedDrop>>
        /\ \A q \in Seats \ {p} : askedAction'[q] = askedAction[q]
        /\ askedAction'[p] = {}
        /\ ~(Waiting(p) /\ waitList[p].confirmed = AT_MAX)
    BY <1>4 DEF ConfirmIgnored, seating, TypeOK, WaitersAreAsked
  <2>2. WaitersAreAsked'
    BY <2>1 DEF WaitersAreAsked, Waiting
  <2>3. DropsAlone' /\ RobotsPlayOnce'
    BY <2>1 DEF DropsAlone, RobotsPlayOnce
  <2>4. RobotAnswersAreDue'
    BY <1>0, <2>1 DEF RobotAnswersAreDue, Stuck, Waiting
  <2> QED BY <2>2, <2>3, <2>4
<1>5. ASSUME NEW p \in Seats, NEW a \in ActionType, ConfirmAndWait(p, a)
      PROVE  AskingInv'
  <2>1. Waiting(p)
    BY <1>5 DEF ConfirmAndWait, NoWait, Waiting
  <2>2. /\ UNCHANGED <<ready, chooseList, playState, askedDrop>>
        /\ \A q \in Seats \ {p} : askedAction'[q] = askedAction[q] /\ waitList'[q] = waitList[q]
        /\ askedAction'[p] = {}
        /\ waitList'[p] = [waitList[p] EXCEPT !.confirmed = a]
        /\ \E q \in Seats \ {p} : Waiting(q) /\ waitList[q].confirmed = AT_MAX
    BY <1>5 DEF ConfirmAndWait, seating, TypeOK
  <2>3. waitList'[p].confirmed # AT_MAX
    <3>1. a # AT_MAX
      BY DEF ActionType, AT_HU, AT_GANG, AT_PENG, AT_PASS, AT_MAX
    <3>2. waitList[p] \in WaitActionInfo
      BY <2>1 DEF TypeOK, Waiting
    <3>3. waitList'[p].confirmed = a
      BY <2>2, <3>2 DEF WaitActionInfo
    <3> QED BY <3>1, <3>3
  <2>4. WaitersAreAsked'
    BY <2>1, <2>2, <2>3 DEF WaitersAreAsked, Waiting
  <2>5. DropsAlone' /\ RobotsPlayOnce'
    BY <2>2 DEF DropsAlone, RobotsPlayOnce
  <2>6. RobotAnswersAreDue'
    BY <1>0, <2>1, <2>2 DEF RobotAnswersAreDue, Stuck, Waiting
  <2> QED BY <2>4, <2>5, <2>6
<1>6. ASSUME NEW p \in Seats, NEW a \in ActionType, ConfirmLast(p, a)
      PROVE  AskingInv'
  <2> DEFINE answers == [askedAction EXCEPT ![p] = {}]
  <2>1. /\ answers \in [Seats -> SUBSET ActionType]
        /\ answers[p] = {}
        /\ \A q \in Seats \ {p} : answers[q] = askedAction[q]
    BY DEF TypeOK
  <2>2. PICK q \in Seats : /\ Waiting(q)
                           /\ \/ ExecuteGang(q, waitList[q], answers)
                              \/ ExecutePeng(q, waitList[q], answers)
                              \/ ExecutePass(q, waitList[q], answers)
    BY <1>6 DEF ConfirmLast
  <2>3. UNCHANGED <<ready, chooseList>>
    BY <1>6 DEF ConfirmLast
  <2>4. playState = "MPS_WAIT_FOR_ACTION" /\ ~Stuck
    BY <2>2 DEF WaitersAreAsked, Stuck
  <2>5. \A x \in Seats : askedDrop[x] = {}
    BY <2>4 DEF DropsAlone
  <2>6. \A x \in Robots : answers[x] = {}
    <3>1. \A x \in Seats \ {p} : Waiting(x) => waitList[x].confirmed # AT_MAX
      BY <1>6 DEF ConfirmLast
    <3> HIDE DEF answers
    <3> QED BY <1>0, <2>1, <2>4, <3>1 DEF RobotAnswersAreDue
  <2> HIDE DEF answers
  <2>7. Asking' /\ playState' # "MPS_WAITING"
    BY <2>1, <2>2, <2>5, <2>6, ExecuteAsks
  <2>8. RobotsPlayOnce'
    BY <2>3, <2>4 DEF RobotsPlayOnce
  <2> QED BY <2>7, <2>8 DEF Asking
<1>7. ASSUME NEW p \in Seats, ConfirmHu(p)
      PROVE  AskingInv'
  <2>1. Waiting(p)
    BY <1>7 DEF ConfirmHu, NoWait, Waiting
  <2>2. playState = "MPS_WAIT_FOR_ACTION"
    BY <2>1 DEF WaitersAreAsked
  <2>3. /\ playState' = "MPS_ENDING"
        /\ \A q \in Seats : ~Waiting(q)'
        /\ UNCHANGED <<ready, chooseList, askedDrop>>
    BY <1>7 DEF ConfirmHu, EndGame, NobodyWaits, Waiting
  <2>4. DropsAlone'
    BY <2>2, <2>3 DEF DropsAlone
  <2>5. RobotsPlayOnce'
    BY <2>2, <2>3 DEF RobotsPlayOnce
  <2> QED BY <2>3, <2>4, <2>5 DEF WaitersAreAsked, RobotAnswersAreDue
<1>8. ASSUME NEW p \in Seats, PlayerContinueGame(p)
      PROVE  AskingInv'
  <2>1. /\ p \notin Robots
        /\ playState = "MPS_ENDING"
        /\ UNCHANGED <<askedDrop, askedAction>>
    BY <1>8 DEF PlayerContinueGame
  <2>2. /\ \A q \in Seats : ~Waiting(q)
        /\ \A q \in Seats : askedDrop[q] = {}
    BY <2>1 DEF WaitersAreAsked, DropsAlone
  <2>3. \A q \in Seats : ~Waiting(q)'
    BY <1>8, <2>2 DEF PlayerContinueGame, NobodyWaits, Waiting
  <2>4. WaitersAreAsked' /\ DropsAlone'
    BY <2>1, <2>2, <2>3 DEF WaitersAreAsked, DropsAlone
  <2>5. CASE chooseList \cup {p} = Seats
    <3>1. Robots = {}
      BY <1>0, <2>1, <2>5 DEF RobotsPlayOnce
    <3> QED BY <2>4, <3>1 DEF RobotAnswersAreDue, RobotsPlayOnce
  <2>6. CASE chooseList \cup {p} # Seats
    <3>1. /\ playState' = playState
          /\ chooseList' = chooseList \cup {p}
          /\ ready' = [ready EXCEPT ![p] = FALSE]
      BY <1>8, <2>6 DEF PlayerContinueGame
    <3>2. RobotsPlayOnce'
      BY <1>0, <2>1, <3>1 DEF RobotsPlayOnce, TypeOK
    <3> QED BY <2>1, <2>4, <3>1, <3>2 DEF RobotAnswersAreDue
  <2> QED BY <2>5, <2>6
<1>9. CASE UNCHANGED vars
  <2>1. UNCHANGED <<playState, waitList, askedDrop, askedAction, chooseList, ready>>
    BY <1>9 DEF vars, seating, asking
  <2> QED BY <2>1 DEF WaitersAreAsked, DropsAlone, RobotAnswersAreDue, RobotsPlayOnce, Waiting, Stuck
<1> QED BY <1>1, <1>2, <1>3, <1>4, <1>5, <1>6, <1>7, <1>8, <1>9 DEF Next

\* The invariant holds of every state.
LEMMA AskingCorrect == Spec => []AskingInv
<1>1. Init => AskingInv
  <2> SUFFICES ASSUME Init
               PROVE  AskingInv
    OBVIOUS
  <2>1. /\ \A p \in Seats : ~Waiting(p) /\ askedDrop[p] = {} /\ askedAction[p] = {}
        /\ playState = "MPS_WAITING"
        /\ chooseList = {}
    BY DEF Init, NobodyWaits, NobodyAsked, Waiting
  <2>2. \A p \in Robots : p \in Seats
    BY ConstantsAssumption
  <2> QED BY <2>1, <2>2 DEF AskingInv, WaitersAreAsked, DropsAlone, RobotAnswersAreDue, RobotsPlayOnce
<1>2. TypeOK /\ AskingInv /\ [Next]_vars => AskingInv'
  BY AskingStep
<1> QED BY <1>1, <1>2, TypeCorrect, PTL DEF Spec

\* Every player the room waits for has been asked and can still answer, whatever
\* the order in which humans answer and robots' queued commands run: no ask is
\* swallowed by a robot's pending command (CharacterMahjongRobot.cpp:22) and none
\* of the room's waits has no end (Room.cpp:190).
THEOREM WaitersCanAnswer == Spec => []WaitersAreAsked
<1>1. AskingInv => WaitersAreAsked
  BY DEF AskingInv
<1> QED BY <1>1, AskingCorrect, PTL

----------------------------------------------------------------------------
LEMMA EndGameBanker ==
    ASSUME TypeOK, OneBanker, NEW winners \in SUBSET Seats, NEW dropped \in Seats,
           EndGame(winners, dropped)
    PROVE  OneBanker'
<1>1. CASE winners = {}
  BY <1>1 DEF EndGame, OneBanker
<1>2. CASE winners # {} /\ Cardinality(winners) = 1
  <2>1. \E w : winners = {w}
    <3>1. IsFiniteSet(Seats)
      BY FS_Interval, ConstantsAssumption DEF Seats
    <3>2. IsFiniteSet(winners)
      BY <3>1, FS_Subset
    <3> QED BY <1>2, <3>2, FS_Singleton
  <2>2. PICK w \in Seats : winners = {w}
    BY <2>1
  <2>3. banker' = [p \in Seats |-> p \in winners]
    BY <1>2 DEF EndGame
  <2> QED BY <2>2, <2>3 DEF OneBanker
<1>3. CASE winners # {} /\ Cardinality(winners) # 1
  <2>1. banker' = [p \in Seats |-> p = dropped]
    BY <1>3 DEF EndGame
  <2> QED BY <2>1 DEF OneBanker
<1> QED BY <1>1, <1>2, <1>3

LEMMA DrawBanker ==
    ASSUME TypeOK, OneBanker, NEW q \in Seats, NEW hands, NEW melds, NEW drops,
           NEW answers, NEW confirming,
           RequestMahjong(q, hands, melds, drops, answers, confirming)
    PROVE  OneBanker'
<1>1. CASE UNCHANGED banker
  BY <1>1 DEF OneBanker
<1>2. CASE EndGame({}, q)
  BY <1>2, EndGameBanker
<1> QED BY <1>1, <1>2 DEF RequestMahjong

\* However a hand ends - won by one player, by several at once, or drawn - exactly
\* one player is the banker of the next (Room.cpp:311).
THEOREM AlwaysOneBanker == Spec => []OneBanker
<1>1. Init => OneBanker
  BY ConstantsAssumption DEF Init, OneBanker
<1>2. TypeOK /\ OneBanker /\ [Next]_vars => OneBanker'
  <2> SUFFICES ASSUME TypeOK, OneBanker, [Next]_vars
               PROVE  OneBanker'
    OBVIOUS
  <2>1. CASE UNCHANGED banker
    BY <2>1 DEF OneBanker
  <2>2. ASSUME NEW p \in Seats, NEW i \in askedDrop[p], RequestDrop(p, i)
        PROVE  OneBanker'
    <3>1. NextSeat(p) \in Seats
      BY ConstantsAssumption DEF NextSeat, Seats
    <3>2. CASE UNCHANGED banker
      BY <2>1, <3>2
    <3>3. CASE \E hands, drops :
                  RequestMahjong(NextSeat(p), hands, pengGang, drops, askedAction, FALSE)
      BY <3>1, <3>3, DrawBanker
    <3> QED BY <2>2, <3>2, <3>3 DEF RequestDrop
  <2>3. ASSUME NEW p \in Seats, NEW a \in ActionType, ConfirmLast(p, a)
        PROVE  OneBanker'
    <3> DEFINE answers == [askedAction EXCEPT ![p] = {}]
    <3>1. PICK q \in Seats : /\ Waiting(q)
                             /\ \/ ExecuteGang(q, waitList[q], answers)
                                \/ ExecutePeng(q, waitList[q], answers)
                                \/ ExecutePass(q, waitList[q], answers)
      BY <2>3 DEF ConfirmLast
    <3>2. NextSeat(waitList[q].dropped) \in Seats
      BY <3>1, WaitingType, ConstantsAssumption DEF NextSeat, Seats
    <3>3. CASE UNCHANGED banker
      BY <2>1, <3>3
    <3>4. CASE \E s \in Seats : \E hands, melds :
                  RequestMahjong(s, hands, melds, askedDrop, answers, TRUE)
      BY <3>4, DrawBanker
    <3> HIDE DEF answers
    <3> QED BY <3>1, <3>2, <3>3, <3>4 DEF ExecuteGang, ExecutePeng, ExecutePass
  <2>4. ASSUME NEW p \in Seats, ConfirmHu(p)
        PROVE  OneBanker'
    <3>1. Waiting(p)
      BY <2>4 DEF ConfirmHu, NoWait, Waiting
    <3>2. waitList[p].dropped \in Seats
      BY <3>1, WaitingType
    <3>3. EndGame({q \in Seats : AT_HU \in waitList[q].actions}, waitList[p].dropped)
      BY <2>4 DEF ConfirmHu
    <3> QED BY <3>2, <3>3, EndGameBanker
  <2>5. ASSUME NEW p \in Seats,
               \/ \E r \in BOOLEAN : PlayerReady(p, r)
               \/ PlayerGetStartDone(p)
               \/ PlayerContinueGame(p)
               \/ \E a \in ActionType : ConfirmIgnored(p, a) \/ ConfirmAndWait(p, a)
        PROVE  OneBanker'
    BY <2>1, <2>5 DEF PlayerReady, PlayerGetStartDone, PlayerContinueGame, ConfirmIgnored,
                      ConfirmAndWait, seating
  <2>6. CASE UNCHANGED vars
    BY <2>1, <2>6 DEF vars, seating
  <2> QED BY <2>2, <2>3, <2>4, <2>5, <2>6 DEF Next
<1> QED BY <1>1, <1>2, TypeCorrect, PTL DEF Spec

----------------------------------------------------------------------------
(* The hands *)

(***************************************************************************)
(* None of the properties is inductive.  The strengthening says what a     *)
(* hand starts from (Starts), which hands are sorted while a discard is    *)
(* due (DropSorted), and what the entries of the wait list were computed   *)
(* from, which the actions carried out later still rely on (WaitSorted).   *)
(***************************************************************************)
Cleared(p) ==
    handIn[p] = <<>> /\ pengGang[p] = <<>> /\ ~getStartDone[p] /\ p \notin wrongGang

Starts ==
    /\ bankerPos \in FirstBankers \cup {-1}
    /\ \A p \in chooseList : Cleared(p)
    /\ playState = "MPS_WAITING" =>
         /\ pool = [t \in Kind |-> 0]
         /\ \A p \in Seats : Cleared(p)
    /\ playState # "MPS_ENDING" => chooseList = {}
    /\ playState = "MPS_ENDING" =>
         /\ chooseList # Seats
         /\ \A p \in Seats : ready[p] => p \in chooseList
    /\ playState \notin {"MPS_WAITING", "MPS_ENDING"} => \A p \in Seats : ~ready[p]
    /\ playState = "MPS_GET_START" =>
         /\ wrongGang = {}
         /\ \A p \in Seats : /\ pengGang[p] = <<>>
                             /\ getStartDone[p] => IsReordered(handIn[p])

\* While a discard is due nobody laid down a gang it does not own, and all hands
\* are sorted, that of the player asked but for the tile drawn.
DropSorted ==
    playState = "MPS_NORMAL_GAMING" =>
        /\ wrongGang = {}
        /\ \A p \in Seats : IF askedDrop[p] # {} THEN FrontReordered(handIn[p])
                            ELSE IsReordered(handIn[p])

Sorted(hands) == \A p \in Seats : IsReordered(hands[p])

\* Player q decides on the tile it drew itself; nobody else is asked.
OwnDraw(q) ==
    LET h == handIn[q]
    IN  /\ waitList[q].dropped = q
        /\ waitList[q].actions = SelfActions(h, pengGang[q], waitList[q].mah)
        /\ h # <<>> /\ h[Len(h)] = waitList[q].mah
        /\ FrontReordered(h)
        /\ \A p \in Seats \ {q} : ~Waiting(p) /\ IsReordered(handIn[p])

\* Player q may claim the discard of another player.  The discard itself lies
\* nowhere in the model: one copy less of it than there are is seen.
Claims(q) ==
    LET d == waitList[q].dropped
        t == waitList[q].mah
    IN  /\ d # q /\ ~Waiting(d)
        /\ waitList[q].actions = ClaimActions(handIn[q], t)
        /\ CopiesSeen(t, Seats) < SingleCount
        /\ \A p \in Seats : /\ IsReordered(handIn[p])
                            /\ Waiting(p) => waitList[p].dropped = d /\ waitList[p].mah = t

WaitSorted ==
    \A q \in Seats : Waiting(q) =>
        /\ wrongGang = {}
        /\ waitList[q].confirmed \in waitList[q].actions \cup {AT_MAX}
        /\ OwnDraw(q) \/ Claims(q)

HandsInv == Starts /\ DropSorted /\ WaitSorted /\ TilesConserved

InHand == {"MPS_NORMAL_GAMING", "MPS_WAIT_FOR_ACTION"}

----------------------------------------------------------------------------
(* Before and after a hand *)

\* A step of a hand leaves what the next hand starts from alone.
LEMMA InHandStarts ==
    ASSUME TypeOK, Starts, playState \in InHand,
           playState' \in InHand \cup {"MPS_ENDING"},
           UNCHANGED <<ready, bankerPos, chooseList>>
    PROVE  Starts'
<1>1. chooseList = {} /\ chooseList' = {} /\ \A p \in Seats : ~ready'[p]
  BY DEF Starts, InHand
<1>2. Seats # {}
  BY ConstantsAssumption DEF Seats
<1> QED BY <1>1, <1>2 DEF Starts, InHand

\* A deal gives the players the tiles that leave the pool, whatever seat the
\* banker has: DealIndex only rearranges the seats.
LEMMA DealIndexMoves ==
    ASSUME bankerPos \in Seats
    PROVE  /\ [p \in Seats |-> DealIndex(p)] \in Bijection(Seats, Seats)
           /\ bankerPos = 0 => \A p \in Seats : DealIndex(p) = p
<1> DEFINE g == [p \in Seats |-> DealIndex(p)]
<1>1. MaxPlayer \in Nat \ {0} /\ bankerPos \in 0 .. MaxPlayer - 1
  BY ConstantsAssumption DEF Seats
<1>2. ASSUME NEW p \in Seats
      PROVE  DealIndex(p) = IF p >= bankerPos THEN p - bankerPos ELSE p - bankerPos + MaxPlayer
  <2>1. p \in 0 .. MaxPlayer - 1
    BY DEF Seats
  <2>2. CASE p >= bankerPos
    <3>1. p - bankerPos \in 0 .. MaxPlayer - 1
      BY <1>1, <2>1, <2>2
    <3>2. ((p - bankerPos) + MaxPlayer) % MaxPlayer = p - bankerPos
      BY <1>1, <3>1
    <3>3. p + MaxPlayer - bankerPos = (p - bankerPos) + MaxPlayer
      BY <1>1, <2>1
    <3> QED BY <2>2, <3>2, <3>3 DEF DealIndex
  <2>3. CASE ~(p >= bankerPos)
    <3>1. p + MaxPlayer - bankerPos \in 0 .. MaxPlayer - 1
      BY <1>1, <2>1, <2>3
    <3>2. (p + MaxPlayer - bankerPos) % MaxPlayer = p + MaxPlayer - bankerPos
      BY <1>1, <3>1
    <3>3. p + MaxPlayer - bankerPos = p - bankerPos + MaxPlayer
      BY <1>1, <2>1
    <3> QED BY <2>3, <3>2, <3>3 DEF DealIndex
  <2> QED BY <2>2, <2>3
<1>3. \A p \in Seats : DealIndex(p) \in Seats
  BY <1>1, <1>2 DEF Seats
<1>4. \A p, q \in Seats : DealIndex(p) = DealIndex(q) => p = q
  <2> SUFFICES ASSUME NEW p \in Seats, NEW q \in Seats, DealIndex(p) = DealIndex(q)
               PROVE  p = q
    OBVIOUS
  <2>1. p \in 0 .. MaxPlayer - 1 /\ q \in 0 .. MaxPlayer - 1
    BY DEF Seats
  <2>2. (IF p >= bankerPos THEN p - bankerPos ELSE p - bankerPos + MaxPlayer) =
        (IF q >= bankerPos THEN q - bankerPos ELSE q - bankerPos + MaxPlayer)
    BY <1>2
  <2> QED BY <1>1, <2>1, <2>2
<1>5. \A i \in Seats : \E p \in Seats : DealIndex(p) = i
  <2> SUFFICES ASSUME NEW i \in Seats
               PROVE  \E p \in Seats : DealIndex(p) = i
    OBVIOUS
  <2> DEFINE p == IF i + bankerPos < MaxPlayer THEN i + bankerPos ELSE i + bankerPos - MaxPlayer
  <2>1. p \in Seats
    BY <1>1 DEF Seats
  <2>2. (IF p >= bankerPos THEN p - bankerPos ELSE p - bankerPos + MaxPlayer) = i
    BY <1>1 DEF Seats
  <2> HIDE DEF p
  <2> QED BY <1>2, <2>1, <2>2
<1>6. g \in Bijection(Seats, Seats)
  <2>1. /\ g \in [Seats -> Seats]
        /\ \A p, q \in Seats : g[p] = g[q] => p = q
        /\ \A i \in Seats : \E p \in Seats : g[p] = i
    BY <1>3, <1>4, <1>5
  <2> HIDE DEF g
  <2> QED BY <2>1 DEF Bijection, Injection, IsInjective, Surjection
<1>7. bankerPos = 0 => \A p \in Seats : DealIndex(p) = p
  BY <1>1, <1>2 DEF Seats
<1> QED BY <1>6, <1>7

\* Nobody holds a tile of empty hands, and no melds show none.
LEMMA NothingHeld ==
    ASSUME NEW hands \in [Seats -> Seq(Kind)], \A p \in Seats : Len(hands[p]) = 0, NEW t
    PROVE  HeldCopies(hands, t) = 0
<1>1. \A p \in Seats : Indexes(hands[p], t) = {}
  <2> SUFFICES ASSUME NEW p \in Seats
               PROVE  Indexes(hands[p], t) = {}
    OBVIOUS
  <2>1. Indexes(hands[p], t) \subseteq 1 .. Len(hands[p])
    BY CountType
  <2> QED BY <2>1
<1>2. PlacesOf([p \in Seats |-> Indexes(hands[p], t)], Seats) = {}
  BY <1>1 DEF PlacesOf
<1> QED BY <1>2, FS_EmptySet DEF HeldCopies

\* Without melds no tile is laid down.
LEMMA NothingLaid ==
    ASSUME NEW melds, \A p \in Seats : melds[p] = <<>>, NEW t
    PROVE  LaidCopies(melds, Seats, t) = 0
<1>1. <<>> \in Seq(Meld) /\ Len(<<>>) = 0
  BY EmptySeq
<1>2. MeldTiles(<<>>, t) = {}
  <2>1. MeldTiles(<<>>, t) \subseteq (1 .. Len(<<>>)) \X (1 .. 4)
    BY <1>1, MeldTilesType
  <2>2. 1 .. Len(<<>>) = {}
    BY <1>1
  <2> QED BY <2>1, <2>2
<1>3. PlacesOf([p \in Seats |-> MeldTiles(melds[p], t)], Seats) = {}
  BY <1>2 DEF PlacesOf
<1> QED BY <1>3, FS_EmptySet DEF LaidCopies

\* How a hand starts: what is dealt has left the pool, and whoever has reported
\* its start hand has it sorted.
LEMMA StartEffect ==
    ASSUME TypeOK, StartGame,
           pool = [t \in Kind |-> 0],
           \A p \in Seats : handIn[p] = <<>> /\ ~getStartDone[p]
    PROVE  \E done, hands :
             /\ hands \in [Seats -> Seq(Kind)] /\ handIn' = hands
             /\ getStartDone' = done /\ StartHand(done, hands)
             /\ \A p \in Seats : ~ready'[p]
             /\ \A p \in Seats : done[p] => IsReordered(hands[p])
             /\ \A t \in Kind : pool'[t] + HeldCopies(hands, t) = SingleCount
             /\ bankerPos # -1 => \A p \in Seats :
                  Len(hands[p]) = IF DealIndex(p) = bankerPos THEN HandCount ELSE HandCount - 1
<1> DEFINE done == [p \in Seats |-> getStartDone[p] \/ p \in Robots]
           Held(p, dealt) == LET h == handIn[p] \o dealt
                             IN  IF p \in Robots THEN Reordered(h) ELSE h
           none == [p \in Seats |-> Held(p, <<>>)]
           dealtTo(d) == [p \in Seats |-> Held(p, d[DealIndex(p)])]
<1>1. ASSUME NEW p \in Seats, NEW dealt \in Seq(Kind)
      PROVE  /\ Held(p, dealt) \in Seq(Kind)
             /\ Len(Held(p, dealt)) = Len(dealt)
             /\ \A t \in Kind : CountOf(Held(p, dealt), t) = CountOf(dealt, t)
             /\ done[p] => IsReordered(Held(p, dealt))
  <2>1. handIn[p] \o dealt = dealt
    BY ConcatEmptySeq
  <2>2. Held(p, dealt) = IF p \in Robots THEN Reordered(dealt) ELSE dealt
    BY <2>1
  <2>3. done[p] => p \in Robots
    OBVIOUS
  <2>4. /\ Reordered(dealt) \in Seq(Kind)
        /\ Len(Reordered(dealt)) = Len(dealt)
        /\ IsReordered(Reordered(dealt))
        /\ \A t \in Kind : CountOf(Reordered(dealt), t) = CountOf(dealt, t)
    BY ReorderedType, CountReordered
  <2> HIDE DEF Held, done
  <2> QED BY <2>2, <2>3, <2>4
<1>2. getStartDone' = done /\ \A p \in Seats : ~ready'[p]
  BY DEF StartGame
<1>3. \/ /\ bankerPos = -1
         /\ pool' = [t \in Kind |-> pool[t] + SingleCount]
         /\ handIn' = none /\ StartHand(done, none)
      \/ \E d \in Deals :
           /\ bankerPos # -1 /\ IsDeal(d, bankerPos)
           /\ pool' = [t \in Kind |-> pool[t] + SingleCount - HeldCopies(d, t)]
           /\ handIn' = dealtTo(d) /\ StartHand(done, dealtTo(d))
  BY DEF StartGame
<1> HIDE DEF Held, done
<1>4. CASE /\ bankerPos = -1
           /\ pool' = [t \in Kind |-> pool[t] + SingleCount]
           /\ handIn' = none /\ StartHand(done, none)
  <2>1. /\ none \in [Seats -> Seq(Kind)]
        /\ \A p \in Seats : Len(none[p]) = 0 /\ (done[p] => IsReordered(none[p]))
    BY <1>1, EmptySeq
  <2> HIDE DEF none
  <2>2. \A t \in Kind : HeldCopies(none, t) = 0
    BY <2>1, NothingHeld
  <2>3. \A t \in Kind : pool'[t] + HeldCopies(none, t) = SingleCount
    BY <1>4, <2>2, ConstantsAssumption
  <2> QED BY <1>2, <1>4, <2>1, <2>3
<1>5. ASSUME NEW d \in Deals, bankerPos # -1, IsDeal(d, bankerPos),
             pool' = [t \in Kind |-> pool[t] + SingleCount - HeldCopies(d, t)],
             handIn' = dealtTo(d), StartHand(done, dealtTo(d))
      PROVE  \E dn, hands :
             /\ hands \in [Seats -> Seq(Kind)] /\ handIn' = hands
             /\ getStartDone' = dn /\ StartHand(dn, hands)
             /\ \A p \in Seats : ~ready'[p]
             /\ \A p \in Seats : dn[p] => IsReordered(hands[p])
             /\ \A t \in Kind : pool'[t] + HeldCopies(hands, t) = SingleCount
             /\ bankerPos # -1 => \A p \in Seats :
                  Len(hands[p]) = IF DealIndex(p) = bankerPos THEN HandCount ELSE HandCount - 1
  <2> DEFINE hands == dealtTo(d)
             g == [p \in Seats |-> DealIndex(p)]
  <2>1. bankerPos \in Seats /\ d \in [Seats -> Seq(Kind)]
    BY <1>5, ConstantsAssumption DEF TypeOK
  <2>2. g \in Bijection(Seats, Seats) /\ \A p \in Seats : DealIndex(p) \in Seats
    <3>1. g \in Bijection(Seats, Seats)
      BY <2>1, DealIndexMoves
    <3>2. g \in [Seats -> Seats]
      <4> HIDE DEF g
      <4> QED BY <3>1 DEF Bijection, Injection
    <3> QED BY <3>1, <3>2
  <2>3. ASSUME NEW p \in Seats
        PROVE  /\ hands[p] \in Seq(Kind)
               /\ Len(hands[p]) = Len(d[DealIndex(p)])
               /\ \A t \in Kind : CountOf(hands[p], t) = CountOf(d[g[p]], t)
               /\ done[p] => IsReordered(hands[p])
    <3>1. d[DealIndex(p)] \in Seq(Kind) /\ g[p] = DealIndex(p) /\ hands[p] = Held(p, d[DealIndex(p)])
      BY <2>1, <2>2
    <3> HIDE DEF hands, g
    <3> QED BY <1>1, <3>1
  <2>4. hands \in [Seats -> Seq(Kind)]
    BY <2>3
  <2>5. \A p \in Seats : Len(hands[p]) = IF DealIndex(p) = bankerPos THEN HandCount ELSE HandCount - 1
    <3> HIDE DEF hands
    <3> QED BY <1>5, <2>2, <2>3 DEF IsDeal
  <2> HIDE DEF hands, g
  <2>6. \A t \in Kind : HeldCopies(hands, t) = HeldCopies(d, t)
    BY <2>1, <2>2, <2>3, <2>4, HeldMoved
  <2>7. \A t \in Kind : pool'[t] + HeldCopies(hands, t) = SingleCount
    <3>1. \A t \in Kind : HeldCopies(d, t) \in 0 .. SingleCount
      BY <1>5 DEF IsDeal
    <3> QED BY <1>5, <2>6, <3>1, ConstantsAssumption
  <2>8. handIn' = hands /\ StartHand(done, hands)
    BY <1>5 DEF hands
  <2> QED BY <1>2, <2>3, <2>4, <2>5, <2>7, <2>8
<1> HIDE DEF none, dealtTo
<1> QED BY <1>3, <1>4, <1>5

----------------------------------------------------------------------------
(* A draw *)

\* The hand is over because the pool is empty.
Drained(hands) ==
    /\ playState' = "MPS_ENDING" /\ pool' = pool /\ handIn' = hands
    /\ \A p \in Seats : waitList'[p] = NoWait /\ askedDrop'[p] = {}

\* Player q has drawn t, and is asked to discard, or to decide on the tile, or -
\* when the wait list is about to be cleared - is waited for in vain.
Drawn(q, hands, melds, confirming, t) ==
    LET h == Append(hands[q], t)
        acts == SelfActions(h, melds[q], t)
    IN  /\ pool[t] > 0
        /\ pool' = [pool EXCEPT ![t] = @ - 1]
        /\ handIn' = [hands EXCEPT ![q] = h]
        /\ \A p \in Seats \ {q} : waitList'[p] = NoWait /\ askedDrop'[p] = {}
        /\ \/ /\ acts = {} /\ playState' = "MPS_NORMAL_GAMING"
              /\ waitList'[q] = NoWait
              /\ askedDrop'[q] # {} /\ askedDrop'[q] \subseteq DOMAIN h
           \/ /\ confirming /\ playState' = "MPS_WAIT_FOR_ACTION"
              /\ waitList'[q] = NoWait /\ askedDrop'[q] = {}
           \/ /\ ~confirming /\ playState' = "MPS_WAIT_FOR_ACTION"
              /\ waitList'[q] = [dropped |-> q, mah |-> t, actions |-> acts,
                                 confirmed |-> AT_MAX]
              /\ askedDrop'[q] = {}

\* What a draw does when nobody waits and no discard is due.
LEMMA DrawEffect ==
    ASSUME TypeOK, NEW q \in Seats, NEW hands \in [Seats -> Seq(Kind)], NEW melds,
           NEW drops \in [Seats -> SUBSET Nat], NEW answers, NEW confirming \in BOOLEAN,
           \A p \in Seats : drops[p] = {},
           confirming \/ \A p \in Seats : ~Waiting(p),
           RequestMahjong(q, hands, melds, drops, answers, confirming)
    PROVE  Drained(hands) \/ \E t \in Kind : Drawn(q, hands, melds, confirming, t)
<1>1. CASE /\ pool' = pool /\ handIn' = hands /\ EndGame({}, q) /\ askedDrop' = drops
  BY <1>1 DEF EndGame, NobodyWaits, Drained
<1>2. ASSUME NEW t \in Kind, pool[t] > 0, pool' = [pool EXCEPT ![t] = @ - 1],
             handIn' = [hands EXCEPT ![q] = Append(@, t)],
             NotifyPlayerGet(q, t, Append(hands[q], t), melds[q], drops, answers, confirming)
      PROVE  Drawn(q, hands, melds, confirming, t)
  <2> DEFINE h == Append(hands[q], t)
             acts == SelfActions(h, melds[q], t)
             info == [dropped |-> q, mah |-> t, actions |-> acts, confirmed |-> AT_MAX]
  <2>1. /\ waitList' = IF confirming THEN NobodyWaits
                       ELSE IF acts # {} /\ ~Waiting(q) THEN [waitList EXCEPT ![q] = info]
                       ELSE waitList
        /\ playState' = IF acts = {} THEN "MPS_NORMAL_GAMING" ELSE "MPS_WAIT_FOR_ACTION"
        /\ askedDrop' = IF acts = {} THEN AskDrop(drops, q, h) ELSE drops
    BY <1>2 DEF NotifyPlayerGet
  <2>2. h \in Seq(Kind) /\ h # <<>> /\ handIn' = [hands EXCEPT ![q] = h]
    BY <1>2, AppendProperties, SMTT(30)
  <2> HIDE DEF h, acts, info, Drawn
  <2>3. /\ AskDrop(drops, q, h)[q] # {} /\ AskDrop(drops, q, h)[q] \subseteq DOMAIN h
        /\ \A p \in Seats \ {q} : AskDrop(drops, q, h)[p] = {}
    <3>1. drops[q] = {} /\ h # <<>>
      BY <2>2
    <3>2. AskDrop(drops, q, h)[q] # {} /\ AskDrop(drops, q, h)[q] \subseteq DOMAIN h
      BY <2>2, <3>1, AskDropType
    <3>3. \A p \in Seats \ {q} : AskDrop(drops, q, h)[p] = drops[p]
      BY <2>2, AskDropType
    <3> QED BY <3>2, <3>3
  <2>4. ~confirming => \A p \in Seats : waitList[p] = NoWait
    BY DEF Waiting
  <2>5. \A p \in Seats : NobodyWaits[p] = NoWait
    BY DEF NobodyWaits
  <2>6. waitList \in [Seats -> WaitActionInfo \cup {NoWait}]
    BY DEF TypeOK
  <2>7. \A p \in Seats \ {q} : waitList'[p] = NoWait /\ askedDrop'[p] = {}
    BY <2>1, <2>3, <2>4, <2>5, <2>6
  <2>8. CASE acts = {}
    <3>1. /\ playState' = "MPS_NORMAL_GAMING" /\ waitList'[q] = NoWait
          /\ askedDrop'[q] # {} /\ askedDrop'[q] \subseteq DOMAIN h
      BY <2>1, <2>3, <2>4, <2>5, <2>8
    <3> QED BY <1>2, <2>2, <2>7, <2>8, <3>1 DEF h, acts, Drawn
  <2>9. CASE acts # {} /\ confirming
    <3>1. playState' = "MPS_WAIT_FOR_ACTION" /\ waitList'[q] = NoWait /\ askedDrop'[q] = {}
      BY <2>1, <2>5, <2>9
    <3> QED BY <1>2, <2>2, <2>7, <2>9, <3>1 DEF h, acts, Drawn
  <2>10. CASE acts # {} /\ ~confirming
    <3>1. playState' = "MPS_WAIT_FOR_ACTION" /\ waitList'[q] = info /\ askedDrop'[q] = {}
      BY <2>1, <2>4, <2>6, <2>10 DEF Waiting
    <3> QED BY <1>2, <2>2, <2>7, <2>10, <3>1 DEF h, acts, info, Drawn
  <2> QED BY <2>8, <2>9, <2>10
<1> QED BY <1>1, <1>2 DEF RequestMahjong, InPool

\* A draw moves a tile from the pool to a hand.
LEMMA DrawSeen ==
    ASSUME TypeOK, NEW q \in Seats, NEW hands \in [Seats -> Seq(Kind)], NEW t \in Kind,
           pool' = [pool EXCEPT ![t] = @ - 1],
           handIn' = [hands EXCEPT ![q] = Append(hands[q], t)], NEW u \in Kind
    PROVE  pool'[u] + HeldCopies(handIn', u) = pool[u] + HeldCopies(hands, u)
<1>1. hands[q] \in Seq(Kind) /\ Append(hands[q], t) \in Seq(Kind)
  BY AppendProperties
<1>2. PICK rest \in Nat : /\ HeldCopies(hands, u) = rest + CountOf(hands[q], u)
                          /\ HeldCopies(handIn', u) = rest + CountOf(Append(hands[q], t), u)
  BY <1>1, HeldSplit
<1>3. CountOf(Append(hands[q], t), u) =
        IF u = t THEN CountOf(hands[q], u) + 1 ELSE CountOf(hands[q], u)
  BY <1>1, CountAppend
<1>4. CountOf(hands[q], u) \in Nat
  BY <1>1, CountType
<1>5. pool[u] \in Nat /\ pool'[u] = IF u = t THEN pool[u] - 1 ELSE pool[u]
  BY DEF TypeOK
<1> QED BY <1>2, <1>3, <1>4, <1>5

\* A draw in a hand in which all hands are sorted and no tile is in two places
\* keeps it that way.
LEMMA DrawKeeps ==
    ASSUME TypeOK, NEW q \in Seats, NEW hands \in [Seats -> Seq(Kind)],
           NEW melds \in [Seats -> Seq(Meld)],
           NEW drops \in [Seats -> SUBSET Nat], NEW answers, NEW confirming \in BOOLEAN,
           \A p \in Seats : drops[p] = {},
           confirming \/ \A p \in Seats : ~Waiting(p),
           RequestMahjong(q, hands, melds, drops, answers, confirming),
           pengGang' = melds, wrongGang' = {}, Sorted(hands),
           \A t \in Kind :
               pool[t] + HeldCopies(hands, t) + LaidCopies(melds, Seats, t) <= SingleCount
    PROVE  /\ DropSorted' /\ WaitSorted' /\ TilesConserved'
           /\ playState' \in InHand \cup {"MPS_ENDING"}
<1>0. Seats \ wrongGang' = Seats
  OBVIOUS
<1>1. CASE Drained(hands)
  <2>1. TilesConserved'
    BY <1>0, <1>1 DEF TilesConserved, CopiesSeen, Drained
  <2> QED BY <1>1, <2>1 DEF DropSorted, WaitSorted, Waiting, Drained
<1>2. ASSUME NEW t \in Kind, Drawn(q, hands, melds, confirming, t)
      PROVE  /\ DropSorted' /\ WaitSorted' /\ TilesConserved'
             /\ playState' \in InHand \cup {"MPS_ENDING"}
  <2> DEFINE h == Append(hands[q], t)
             acts == SelfActions(h, melds[q], t)
  <2>0. /\ pool' = [pool EXCEPT ![t] = @ - 1]
        /\ handIn' = [hands EXCEPT ![q] = h]
        /\ \A p \in Seats \ {q} : waitList'[p] = NoWait /\ askedDrop'[p] = {}
        /\ \/ /\ playState' = "MPS_NORMAL_GAMING"
              /\ waitList'[q] = NoWait /\ askedDrop'[q] # {}
           \/ /\ playState' = "MPS_WAIT_FOR_ACTION"
              /\ waitList'[q] = NoWait
           \/ /\ playState' = "MPS_WAIT_FOR_ACTION"
              /\ waitList'[q] = [dropped |-> q, mah |-> t, actions |-> acts,
                                 confirmed |-> AT_MAX]
    BY <1>2 DEF Drawn
  <2>1. TilesConserved'
    <3>1. \A u \in Kind : pool'[u] + HeldCopies(handIn', u) = pool[u] + HeldCopies(hands, u)
      BY <2>0, DrawSeen
    <3> QED BY <1>0, <3>1 DEF TilesConserved, CopiesSeen
  <2>2. FrontReordered(h) /\ h # <<>> /\ h[Len(h)] = t
    BY SortedAppend DEF Sorted
  <2>3. handIn'[q] = h /\ \A p \in Seats \ {q} : handIn'[p] = hands[p] /\ IsReordered(handIn'[p])
    BY <2>0 DEF Sorted
  <2>7. acts = SelfActions(h, melds[q], t)
    OBVIOUS
  <2> HIDE DEF h, acts
  <2>4. DropSorted'
    BY <2>0, <2>2, <2>3 DEF DropSorted
  <2>5. WaitSorted'
    <3> SUFFICES ASSUME NEW p \in Seats, Waiting(p)'
                 PROVE  /\ waitList'[p].confirmed \in waitList'[p].actions \cup {AT_MAX}
                        /\ OwnDraw(p)'
      BY DEF WaitSorted
    <3>1. p = q /\ waitList'[q] # NoWait
      BY <2>0 DEF Waiting
    <3>2. waitList'[q] = [dropped |-> q, mah |-> t, actions |-> acts, confirmed |-> AT_MAX]
      BY <2>0, <3>1 DEF Waiting
    <3>3. /\ waitList'[q].dropped = q /\ waitList'[q].mah = t
          /\ waitList'[q].actions = acts /\ waitList'[q].confirmed = AT_MAX
      BY <3>2
    <3>4. \A s \in Seats \ {q} : ~Waiting(s)'
      BY <2>0 DEF Waiting
    <3> QED BY <2>7, <2>2, <2>3, <3>1, <3>3, <3>4 DEF OwnDraw
  <2>6. playState' \in InHand \cup {"MPS_ENDING"}
    BY <2>0 DEF InHand
  <2> QED BY <2>1, <2>4, <2>5, <2>6
<1>3. Drained(hands) \/ \E t \in Kind : Drawn(q, hands, melds, confirming, t)
  BY DrawEffect
<1> QED BY <1>1, <1>2, <1>3

----------------------------------------------------------------------------
(* A gang *)

\* The hands and melds after the gang of player q, and whether its tiles are its own.
GangHands(q) ==
    [handIn EXCEPT ![q] = GangHand(@, pengGang[q], waitList[q].mah, waitList[q].dropped = q)]
MeldsWithGang(q) == [pengGang EXCEPT ![q] = GangMelds(@, waitList[q].mah)]
OwnsGang(q) ==
    \/ waitList[q].dropped # q
    \/ HasPeng(pengGang[q], waitList[q].mah)
    \/ CountOf(handIn[q], waitList[q].mah) = SingleCount

\* What a player holds of t is part of what is seen of it.
LEMMA SeenSplit ==
    ASSUME TypeOK, NEW q \in Seats, NEW t \in Kind
    PROVE  \E held, laid \in Nat :
             /\ CopiesSeen(t, Seats) =
                  pool[t] + (held + CountOf(handIn[q], t)) +
                      (laid + Cardinality(MeldTiles(pengGang[q], t)))
             /\ HeldCopies(handIn, t) = held + CountOf(handIn[q], t)
             /\ \A p \in Seats \ {q} : CountOf(handIn[p], t) <= held
             /\ \A h \in Seq(Kind) :
                  HeldCopies([handIn EXCEPT ![q] = h], t) = held + CountOf(h, t)
             /\ LaidCopies(pengGang, Seats, t) = laid + Cardinality(MeldTiles(pengGang[q], t))
             /\ \A m \in Seq(Meld) :
                  LaidCopies([pengGang EXCEPT ![q] = m], Seats, t) =
                       laid + Cardinality(MeldTiles(m, t))
             /\ \A m \in Seq(Meld) :
                  LaidCopies([pengGang EXCEPT ![q] = m], Seats \ {q}, t) = laid
             /\ pool[t] \in Nat
             /\ CountOf(handIn[q], t) \in Nat
             /\ Cardinality(MeldTiles(pengGang[q], t)) \in Nat
<1>1. handIn \in [Seats -> Seq(Kind)] /\ pengGang \in [Seats -> Seq(Meld)] /\ pool[t] \in Nat
  BY DEF TypeOK
<1>0. pengGang \in [Seats -> Seq(Meld)]
  BY <1>1
<1>3. PICK laid \in Nat : LaidByOthers(pengGang, q, t, laid)
  BY <1>0, LaidSplit
<1>2. PICK held \in Nat : /\ HeldCopies(handIn, t) = held + CountOf(handIn[q], t)
                          /\ \A p \in Seats \ {q} : CountOf(handIn[p], t) <= held
                          /\ \A h \in Seq(Kind) :
                               HeldCopies([handIn EXCEPT ![q] = h], t) = held + CountOf(h, t)
  BY <1>1, HeldSplit
<1>6. LaidCopies(pengGang, Seats, t) = laid + Cardinality(MeldTiles(pengGang[q], t))
  BY <1>0, <1>3 DEF LaidByOthers
<1>7. ASSUME NEW m \in Seq(Meld)
      PROVE  /\ LaidCopies([pengGang EXCEPT ![q] = m], Seats, t) =
                  laid + Cardinality(MeldTiles(m, t))
             /\ LaidCopies([pengGang EXCEPT ![q] = m], Seats \ {q}, t) = laid
  <2> DEFINE c == [pengGang EXCEPT ![q] = m]
  <2>1. /\ c \in [Seats -> Seq(Meld)]
        /\ c[q] = m
        /\ \A p \in Seats \ {q} : c[p] = pengGang[p]
    BY <1>1
  <2> HIDE DEF c
  <2>2. LaidCopies(c, Seats, t) = laid + Cardinality(MeldTiles(m, t))
        /\ LaidCopies(c, Seats \ {q}, t) = laid
    BY <2>1, <1>3 DEF LaidByOthers
  <2> QED BY <2>2 DEF c
<1>4. CountOf(handIn[q], t) \in Nat /\ Cardinality(MeldTiles(pengGang[q], t)) \in Nat
  <2>1. handIn[q] \in Seq(Kind) /\ pengGang[q] \in Seq(Meld)
    BY <1>1
  <2> QED BY <2>1, CountType, MeldTilesType
<1>5. CopiesSeen(t, Seats) =
        pool[t] + (held + CountOf(handIn[q], t)) +
            (laid + Cardinality(MeldTiles(pengGang[q], t)))
  BY <1>2, <1>6 DEF CopiesSeen
<1> QED BY <1>1, <1>2, <1>6, <1>7, <1>4, <1>5

\* The gang of a claimed discard: three copies leave the hand, four are shown, and
\* the discard was not seen before.
LEMMA ClaimedGangEffect ==
    ASSUME TypeOK, SingleCount = 4, NEW q \in Seats, Waiting(q), Claims(q),
           TilesConserved, wrongGang = {}, AT_GANG \in waitList[q].actions
    PROVE  /\ Sorted(GangHands(q))
           /\ \A t \in Kind : pool[t] + HeldCopies(GangHands(q), t) +
                                LaidCopies(MeldsWithGang(q), Seats, t) <= SingleCount
           /\ Len(GangHands(q)[q]) + 3 * Len(MeldsWithGang(q)[q]) =
                Len(handIn[q]) + 3 * Len(pengGang[q])
<1> DEFINE h == handIn[q]
           m == pengGang[q]
           t == waitList[q].mah
           g == GangHand(h, m, t, FALSE)
           n == GangMelds(m, t)
<1>1. t \in Kind /\ h \in Seq(Kind) /\ m \in Seq(Meld)
  BY WaitingType DEF TypeOK
<1>2. /\ waitList[q].dropped # q
      /\ CopiesSeen(t, Seats) < 4
      /\ CountOf(h, t) = 3
      /\ \A p \in Seats : IsReordered(handIn[p])
  BY DEF Claims, ClaimActions, CanGang, AT_HU, AT_GANG, AT_PENG, AT_PASS
<1>3. /\ GangHands(q) = [handIn EXCEPT ![q] = g]
      /\ MeldsWithGang(q) = [pengGang EXCEPT ![q] = n]
  BY <1>2 DEF GangHands, MeldsWithGang
<1>4. ~HasPeng(m, t)
  <2> SUFFICES ASSUME HasPeng(m, t)
               PROVE  FALSE
    OBVIOUS
  <2> HIDE DEF h, m, t
  <2>1. Cardinality(MeldTiles(m, t)) >= 3
    BY <1>1, PengShows
  <2>2. PICK held, laid \in Nat :
           /\ CopiesSeen(t, Seats) =
                pool[t] + (held + CountOf(h, t)) + (laid + Cardinality(MeldTiles(m, t)))
           /\ pool[t] \in Nat
           /\ Cardinality(MeldTiles(m, t)) \in Nat
    BY <1>1, SeenSplit DEF h, m
  <2> QED BY <1>2, <2>1, <2>2
<1>5. n = Append(m, [mah |-> t, type |-> AT_GANG])
  BY <1>4 DEF GangMelds
<1> HIDE DEF h, m, t, g
<1>6. /\ g \in Seq(Kind) /\ n \in Seq(Meld)
      /\ Len(n) = Len(m) + 1
  <2>1. FALSE \in BOOLEAN
    OBVIOUS
  <2> QED BY <1>1, <1>4, <2>1, GangType DEF g
<1>7. /\ Len(g) = Len(h) - 3
      /\ IsReordered(g)
      /\ \A u \in Kind : CountOf(g, u) = IF u = t THEN CountOf(h, u) - 3 ELSE CountOf(h, u)
  <2>1. IsReordered(h)
    BY <1>2 DEF h
  <2>2. Len(GangHand(h, m, t, FALSE)) = Len(h) - 3 /\ IsReordered(GangHand(h, m, t, FALSE))
    BY <1>1, <1>2, <1>4, <2>1, ClaimedGangTakes
  <2>3. \A u \in Kind : CountOf(GangHand(h, m, t, FALSE), u) =
                  IF u = t THEN CountOf(h, u) - 3 ELSE CountOf(h, u)
    BY <1>1, <1>2, <1>4, <2>1, ClaimedGangTakes, ZenonT(60)
  <2> QED BY <2>2, <2>3 DEF g
<1>8. Sorted(GangHands(q))
  BY <1>2, <1>3, <1>7 DEF Sorted, TypeOK
<1>9. ASSUME NEW u \in Kind
      PROVE  pool[u] + HeldCopies(GangHands(q), u) + LaidCopies(MeldsWithGang(q), Seats, u) <= 4
  <2>1. PICK held, laid \in Nat :
           /\ CopiesSeen(u, Seats) =
                pool[u] + (held + CountOf(h, u)) + (laid + Cardinality(MeldTiles(m, u)))
           /\ HeldCopies(GangHands(q), u) = held + CountOf(g, u)
           /\ LaidCopies(MeldsWithGang(q), Seats, u) = laid + Cardinality(MeldTiles(n, u))
           /\ pool[u] \in Nat
           /\ CountOf(h, u) \in Nat
           /\ Cardinality(MeldTiles(m, u)) \in Nat
    <3> HIDE DEF n
    <3>1. PICK held, laid \in Nat :
             /\ CopiesSeen(u, Seats) =
                  pool[u] + (held + CountOf(h, u)) + (laid + Cardinality(MeldTiles(m, u)))
             /\ \A x \in Seq(Kind) :
                  HeldCopies([handIn EXCEPT ![q] = x], u) = held + CountOf(x, u)
             /\ \A x \in Seq(Meld) :
                  LaidCopies([pengGang EXCEPT ![q] = x], Seats, u) =
                       laid + Cardinality(MeldTiles(x, u))
             /\ pool[u] \in Nat
             /\ CountOf(h, u) \in Nat
             /\ Cardinality(MeldTiles(m, u)) \in Nat
      BY SeenSplit DEF h, m
    <3> QED BY <1>3, <1>6, <3>1
  <2>2. Cardinality(MeldTiles(n, u)) =
          Cardinality(MeldTiles(m, u)) + (IF u = t THEN 4 ELSE 0)
    <3>1. /\ u # t => Cardinality(MeldTiles(Append(m, [mah |-> t, type |-> AT_GANG]), u)) =
                       Cardinality(MeldTiles(m, u))
          /\ u = t => Cardinality(MeldTiles(Append(m, [mah |-> t, type |-> AT_GANG]), u)) =
                       Cardinality(MeldTiles(m, u)) + 4
      BY <1>1, GangShown
    <3>2. Cardinality(MeldTiles(m, u)) \in Nat
      BY <1>1, MeldTilesType
    <3> HIDE DEF n
    <3> QED BY <1>5, <3>1, <3>2
  <2>3. CopiesSeen(u, Seats) <= 4
    <3>1. Seats \ wrongGang = Seats
      OBVIOUS
    <3> QED BY <3>1 DEF TilesConserved
  <2>4. u = t => CopiesSeen(u, Seats) < 4
    BY <1>2
  <2> HIDE DEF n
  <2> QED BY <1>7, <2>1, <2>2, <2>3, <2>4, SMTT(30)
<1>10. Len(g) + 3 * Len(n) = Len(h) + 3 * Len(m)
  <2>1. Len(m) \in Nat /\ Len(h) \in Nat
    BY <1>1, LenProperties
  <2> HIDE DEF n
  <2> QED BY <1>6, <1>7, <2>1
<1>11. GangHands(q)[q] = g /\ MeldsWithGang(q)[q] = n
  BY <1>3 DEF TypeOK
<1> HIDE DEF n
<1> QED BY <1>8, <1>9, <1>10, <1>11 DEF h, m

\* The gang of a tile the player drew: the drawn tile joins its peng, or all four
\* copies leave the hand; what is seen of every tile stays the same.
LEMMA OwnGangEffect ==
    ASSUME TypeOK, SingleCount = 4, NEW q \in Seats, Waiting(q), OwnDraw(q),
           TilesConserved, wrongGang = {}, OwnsGang(q)
    PROVE  /\ Sorted(GangHands(q))
           /\ \A t \in Kind : pool[t] + HeldCopies(GangHands(q), t) +
                                LaidCopies(MeldsWithGang(q), Seats, t) <= SingleCount
           /\ Len(GangHands(q)[q]) + 3 * Len(MeldsWithGang(q)[q]) =
                Len(handIn[q]) + 3 * Len(pengGang[q]) - 1
<1> DEFINE h == handIn[q]
           m == pengGang[q]
           t == waitList[q].mah
           g == GangHand(h, m, t, TRUE)
           n == GangMelds(m, t)
<1>1. t \in Kind /\ h \in Seq(Kind) /\ m \in Seq(Meld)
  BY WaitingType DEF TypeOK
<1>2. /\ waitList[q].dropped = q
      /\ h # <<>> /\ h[Len(h)] = t
      /\ FrontReordered(h)
      /\ \A p \in Seats \ {q} : IsReordered(handIn[p])
      /\ HasPeng(m, t) \/ CountOf(h, t) = 4
  BY DEF OwnDraw, OwnsGang
<1>3. /\ GangHands(q) = [handIn EXCEPT ![q] = g]
      /\ MeldsWithGang(q) = [pengGang EXCEPT ![q] = n]
  <2>1. (waitList[q].dropped = q) = TRUE
    BY <1>2
  <2> QED BY <2>1 DEF GangHands, MeldsWithGang
<1> HIDE DEF h, m, t
<1>4. \A u \in Kind : CopiesSeen(u, Seats) <= 4
  <2>1. Seats \ wrongGang = Seats
    OBVIOUS
  <2> QED BY <2>1 DEF TilesConserved
<1>5. CountOf(h, t) \in Nat /\ CountOf(h, t) >= 1
  <2>1. Len(h) \in Nat /\ Len(h) # 0 /\ DOMAIN h = 1 .. Len(h)
    BY <1>1, <1>2, EmptySeq, LenProperties
  <2>2. Len(h) \in Indexes(h, t)
    BY <1>2, <2>1 DEF Indexes
  <2>3. CountOf(h, t) \in Nat /\ (CountOf(h, t) = 0 <=> Indexes(h, t) = {})
    BY <1>1, CountType
  <2> QED BY <2>2, <2>3
<1>6. HasPeng(m, t) => CountOf(h, t) = 1
  <2> SUFFICES ASSUME HasPeng(m, t)
               PROVE  CountOf(h, t) = 1
    OBVIOUS
  <2>1. Cardinality(MeldTiles(m, t)) >= 3
    BY <1>1, PengShows
  <2>2. PICK held, laid \in Nat :
           /\ CopiesSeen(t, Seats) =
                pool[t] + (held + CountOf(h, t)) + (laid + Cardinality(MeldTiles(m, t)))
           /\ pool[t] \in Nat
           /\ Cardinality(MeldTiles(m, t)) \in Nat
    BY <1>1, SeenSplit DEF h, m
  <2>3. CopiesSeen(t, Seats) <= 4
    BY <1>1, <1>4
  <2> QED BY <1>5, <2>1, <2>2, <2>3
<1>7. /\ Len(g) = Len(h) - CountOf(h, t)
      /\ IsReordered(g)
      /\ CountOf(g, t) = 0
      /\ \A u \in Kind \ {t} : CountOf(g, u) = CountOf(h, u)
  <2>0. h # <<>> /\ h[Len(h)] = t /\ FrontReordered(h)
    BY <1>2
  <2>1. IF HasPeng(m, t) THEN CountOf(h, t) = 1 ELSE CountOf(h, t) = 4
    BY <1>2, <1>6
  <2>2. /\ Len(GangHand(h, m, t, TRUE)) = Len(h) - CountOf(h, t)
        /\ IsReordered(GangHand(h, m, t, TRUE))
    BY <1>1, <2>0, <2>1, OwnGangTakes
  <2>3. /\ CountOf(GangHand(h, m, t, TRUE), t) = 0
        /\ \A u \in Kind \ {t} : CountOf(GangHand(h, m, t, TRUE), u) = CountOf(h, u)
    BY <1>1, <2>0, <2>1, OwnGangTakes, ZenonT(60)
  <2> QED BY <2>2, <2>3
<1>8. g \in Seq(Kind) /\ n \in Seq(Meld)
      /\ Len(n) = IF HasPeng(m, t) THEN Len(m) ELSE Len(m) + 1
  <2>1. TRUE \in BOOLEAN
    OBVIOUS
  <2> QED BY <1>1, <2>1, GangType
<1>9. ASSUME NEW u \in Kind
      PROVE  /\ u # t => Cardinality(MeldTiles(n, u)) = Cardinality(MeldTiles(m, u))
             /\ u = t => Cardinality(MeldTiles(n, u)) = Cardinality(MeldTiles(m, u)) + CountOf(h, t)
  <2>0. Cardinality(MeldTiles(m, u)) \in Nat
    BY <1>1, MeldTilesType
  <2>1. CASE HasPeng(m, t)
    <3>1. Cardinality(MeldTiles(GangMelds(m, t), u)) =
            Cardinality(MeldTiles(m, u)) + (IF u = t THEN 1 ELSE 0)
      BY <1>1, <2>1, PengUpgraded
    <3> QED BY <1>6, <2>0, <2>1, <3>1
  <2>2. CASE ~HasPeng(m, t)
    <3>1. n = Append(m, [mah |-> t, type |-> AT_GANG])
      BY <2>2 DEF GangMelds
    <3>2. /\ u # t => Cardinality(MeldTiles(Append(m, [mah |-> t, type |-> AT_GANG]), u)) =
                       Cardinality(MeldTiles(m, u))
          /\ u = t => Cardinality(MeldTiles(Append(m, [mah |-> t, type |-> AT_GANG]), u)) =
                       Cardinality(MeldTiles(m, u)) + 4
      BY <1>1, GangShown
    <3> HIDE DEF n
    <3> QED BY <1>2, <2>2, <3>1, <3>2
  <2> QED BY <2>1, <2>2
<1> HIDE DEF g, n
<1>10. Sorted(GangHands(q))
  BY <1>2, <1>3, <1>7 DEF Sorted, TypeOK
<1>11. ASSUME NEW u \in Kind
       PROVE  pool[u] + HeldCopies(GangHands(q), u) + LaidCopies(MeldsWithGang(q), Seats, u) <= 4
  <2>1. PICK held, laid \in Nat :
           /\ CopiesSeen(u, Seats) =
                pool[u] + (held + CountOf(h, u)) + (laid + Cardinality(MeldTiles(m, u)))
           /\ \A x \in Seq(Kind) :
                HeldCopies([handIn EXCEPT ![q] = x], u) = held + CountOf(x, u)
           /\ \A x \in Seq(Meld) :
                LaidCopies([pengGang EXCEPT ![q] = x], Seats, u) =
                     laid + Cardinality(MeldTiles(x, u))
           /\ pool[u] \in Nat
           /\ CountOf(h, u) \in Nat
           /\ Cardinality(MeldTiles(m, u)) \in Nat
    BY SeenSplit DEF h, m
  <2>2. /\ HeldCopies(GangHands(q), u) = held + CountOf(g, u)
        /\ LaidCopies(MeldsWithGang(q), Seats, u) = laid + Cardinality(MeldTiles(n, u))
    BY <1>3, <1>8, <2>1
  <2>3. CountOf(g, u) + Cardinality(MeldTiles(n, u)) =
          CountOf(h, u) + Cardinality(MeldTiles(m, u))
    <3>1. CASE u = t
      BY <1>7, <1>9, <2>1, <3>1
    <3>2. CASE u # t
      BY <1>7, <1>9, <2>1, <3>2
    <3> QED BY <3>1, <3>2
  <2>4. CountOf(g, u) \in Nat /\ Cardinality(MeldTiles(n, u)) \in Nat
    BY <1>8, CountType, MeldTilesType
  <2>5. CopiesSeen(u, Seats) <= 4
    BY <1>4
  <2> QED BY <2>1, <2>2, <2>3, <2>4, <2>5, SMTT(30)
<1>12. Len(g) + 3 * Len(n) = Len(h) + 3 * Len(m) - 1
  <2>1. Len(m) \in Nat /\ Len(h) \in Nat
    BY <1>1, LenProperties
  <2> QED BY <1>2, <1>6, <1>7, <1>8, <2>1
<1>13. GangHands(q)[q] = g /\ MeldsWithGang(q)[q] = n
  BY <1>3 DEF TypeOK
<1> QED BY <1>10, <1>11, <1>12, <1>13 DEF h, m

\* A gang of the tile drawn while the four copies in the hand are of another
\* tile.  The four copies stay, so whatever is drawn next the player is asked
\* again - by a request the server then forgets: nobody discards any more.
LEMMA WrongGangEffect ==
    ASSUME TypeOK, NEW q \in Seats, Waiting(q), OwnDraw(q), TilesConserved, wrongGang = {},
           AT_GANG \in waitList[q].actions, ~OwnsGang(q)
    PROVE  /\ \E u \in Kind : pool[u] = 0 /\ CountOf(GangHands(q)[q], u) = SingleCount
           /\ \A u \in Kind : pool[u] + HeldCopies(GangHands(q), u) +
                                LaidCopies(MeldsWithGang(q), Seats \ {q}, u) <= SingleCount
<1> DEFINE h == handIn[q]
           m == pengGang[q]
           t == waitList[q].mah
           g == GangHand(h, m, t, TRUE)
           n == GangMelds(m, t)
<1>1. t \in Kind /\ h \in Seq(Kind) /\ m \in Seq(Meld)
  BY WaitingType DEF TypeOK
<1>2. /\ waitList[q].dropped = q
      /\ ~HasPeng(m, t) /\ CountOf(h, t) # SingleCount
      /\ AT_GANG \in SelfActions(h, m, t)
  BY DEF OwnDraw, OwnsGang
<1>3. /\ GangHands(q) = [handIn EXCEPT ![q] = g]
      /\ MeldsWithGang(q) = [pengGang EXCEPT ![q] = n]
  <2>1. (waitList[q].dropped = q) = TRUE
    BY <1>2
  <2> QED BY <2>1 DEF GangHands, MeldsWithGang
<1> HIDE DEF h, m, t
<1>4. \A u \in Kind : CopiesSeen(u, Seats) <= SingleCount
  <2>1. Seats \ wrongGang = Seats
    OBVIOUS
  <2> QED BY <2>1 DEF TilesConserved
<1>5. PICK w \in Kind : CountOf(h, w) = SingleCount
  BY <1>2 DEF SelfActions, CanSelfGang, AT_HU, AT_GANG, AT_PASS
<1>6. g \in Seq(Kind) /\ n \in Seq(Meld)
  <2>1. TRUE \in BOOLEAN
    OBVIOUS
  <2> QED BY <1>1, <2>1, GangType
<1>7. ASSUME NEW u \in Kind
      PROVE  /\ CountOf(g, u) <= CountOf(h, u)
             /\ u # t => CountOf(g, u) = CountOf(h, u)
  <2>1. CountOf(GangHand(h, m, t, TRUE), u) <= CountOf(h, u)
    BY <1>1, GangOnlyTakes
  <2>2. ASSUME u # t
        PROVE  CountOf(GangHand(h, m, t, TRUE), u) = CountOf(h, u)
    BY <1>1, <2>2, GangKeepsOthers
  <2> QED BY <2>1, <2>2
<1> HIDE DEF g, n
<1>8. ASSUME NEW u \in Kind
      PROVE  \E held, laid, others \in Nat :
               /\ pool[u] + (held + CountOf(h, u)) + (laid + others) <= SingleCount
               /\ HeldCopies(GangHands(q), u) = held + CountOf(g, u)
               /\ LaidCopies(MeldsWithGang(q), Seats \ {q}, u) = laid
               /\ pool[u] \in Nat
               /\ CountOf(h, u) \in Nat
               /\ CountOf(g, u) \in Nat
  <2>1. PICK held, laid \in Nat :
           /\ CopiesSeen(u, Seats) =
                pool[u] + (held + CountOf(h, u)) + (laid + Cardinality(MeldTiles(m, u)))
           /\ \A x \in Seq(Kind) :
                HeldCopies([handIn EXCEPT ![q] = x], u) = held + CountOf(x, u)
           /\ \A x \in Seq(Meld) :
                LaidCopies([pengGang EXCEPT ![q] = x], Seats \ {q}, u) = laid
           /\ pool[u] \in Nat
           /\ CountOf(h, u) \in Nat
           /\ Cardinality(MeldTiles(m, u)) \in Nat
    BY SeenSplit DEF h, m
  <2>2. /\ HeldCopies(GangHands(q), u) = held + CountOf(g, u)
        /\ LaidCopies(MeldsWithGang(q), Seats \ {q}, u) = laid
    BY <1>3, <1>6, <2>1
  <2>3. CountOf(g, u) \in Nat
    BY <1>6, CountType
  <2>4. pool[u] + (held + CountOf(h, u)) + (laid + Cardinality(MeldTiles(m, u))) <= SingleCount
    BY <1>4, <2>1
  <2> QED BY <2>1, <2>2, <2>3, <2>4
<1>9. \A u \in Kind : pool[u] + HeldCopies(GangHands(q), u) +
                        LaidCopies(MeldsWithGang(q), Seats \ {q}, u) <= SingleCount
  <2> SUFFICES ASSUME NEW u \in Kind
               PROVE  pool[u] + HeldCopies(GangHands(q), u) +
                        LaidCopies(MeldsWithGang(q), Seats \ {q}, u) <= SingleCount
    OBVIOUS
  <2>1. PICK held, laid, others \in Nat :
           /\ pool[u] + (held + CountOf(h, u)) + (laid + others) <= SingleCount
           /\ HeldCopies(GangHands(q), u) = held + CountOf(g, u)
           /\ LaidCopies(MeldsWithGang(q), Seats \ {q}, u) = laid
           /\ pool[u] \in Nat
           /\ CountOf(h, u) \in Nat
           /\ CountOf(g, u) \in Nat
    BY <1>8
  <2>2. CountOf(g, u) <= CountOf(h, u)
    BY <1>7
  <2> QED BY <2>1, <2>2, ConstantsAssumption
<1>10. pool[w] = 0 /\ CountOf(g, w) = SingleCount
  <2>1. PICK held, laid, others \in Nat :
           /\ pool[w] + (held + CountOf(h, w)) + (laid + others) <= SingleCount
           /\ pool[w] \in Nat
           /\ CountOf(h, w) \in Nat
    BY <1>8
  <2>2. w # t
    BY <1>2, <1>5
  <2>3. CountOf(g, w) = CountOf(h, w)
    BY <1>7, <2>2
  <2> QED BY <1>5, <2>1, <2>3, ConstantsAssumption
<1>11. GangHands(q)[q] = g
  BY <1>3 DEF TypeOK
<1> QED BY <1>9, <1>10, <1>11

\* What is left after a wrong gang: no discard, nobody waited for, and the tiles
\* counted without the melds of that player.
LEMMA WrongGangDraw ==
    ASSUME TypeOK, NEW q \in Seats, Waiting(q), OwnDraw(q), TilesConserved, wrongGang = {},
           AT_GANG \in waitList[q].actions, ~OwnsGang(q), NEW answers,
           \A p \in Seats : askedDrop[p] = {},
           RequestMahjong(q, GangHands(q), MeldsWithGang(q), askedDrop, answers, TRUE),
           pengGang' = MeldsWithGang(q), wrongGang' = {q}
    PROVE  /\ DropSorted' /\ WaitSorted' /\ TilesConserved'
           /\ playState' \in {"MPS_WAIT_FOR_ACTION", "MPS_ENDING"}
           /\ \A p \in Seats : ~Waiting(p)'
<1>1. PICK w \in Kind : pool[w] = 0 /\ CountOf(GangHands(q)[q], w) = SingleCount
  BY WrongGangEffect
<1>2. \A u \in Kind : pool[u] + HeldCopies(GangHands(q), u) +
                        LaidCopies(MeldsWithGang(q), Seats \ {q}, u) <= SingleCount
  BY WrongGangEffect
<1>3. GangHands(q) \in [Seats -> Seq(Kind)]
  <2>1. /\ handIn[q] \in Seq(Kind) /\ pengGang[q] \in Seq(Meld) /\ waitList[q].mah \in Kind
        /\ (waitList[q].dropped = q) \in BOOLEAN
    BY WaitingType DEF TypeOK
  <2>2. GangHand(handIn[q], pengGang[q], waitList[q].mah, waitList[q].dropped = q) \in Seq(Kind)
    BY <2>1, GangType
  <2> QED BY <2>2 DEF GangHands, TypeOK
<1>4. Drained(GangHands(q)) \/
      \E t \in Kind : Drawn(q, GangHands(q), MeldsWithGang(q), TRUE, t)
  <2>1. TRUE \in BOOLEAN /\ askedDrop \in [Seats -> SUBSET Nat]
    BY DEF TypeOK
  <2> QED BY <1>3, <2>1, DrawEffect
<1>5. /\ playState' \in {"MPS_WAIT_FOR_ACTION", "MPS_ENDING"}
      /\ \A p \in Seats : waitList'[p] = NoWait
      /\ \A u \in Kind : pool'[u] + HeldCopies(handIn', u) = pool[u] + HeldCopies(GangHands(q), u)
  <2>1. CASE Drained(GangHands(q))
    BY <2>1 DEF Drained
  <2>2. ASSUME NEW t \in Kind, Drawn(q, GangHands(q), MeldsWithGang(q), TRUE, t)
        PROVE  /\ playState' \in {"MPS_WAIT_FOR_ACTION", "MPS_ENDING"}
               /\ \A p \in Seats : waitList'[p] = NoWait
               /\ pool' = [pool EXCEPT ![t] = @ - 1]
               /\ handIn' = [GangHands(q) EXCEPT ![q] = Append(GangHands(q)[q], t)]
    <3> DEFINE h == Append(GangHands(q)[q], t)
               acts == SelfActions(h, MeldsWithGang(q)[q], t)
    <3>1. /\ pool[t] > 0
          /\ pool' = [pool EXCEPT ![t] = @ - 1]
          /\ handIn' = [GangHands(q) EXCEPT ![q] = h]
          /\ \A p \in Seats \ {q} : waitList'[p] = NoWait
          /\ acts = {} \/ (playState' = "MPS_WAIT_FOR_ACTION" /\ waitList'[q] = NoWait)
      BY <2>2 DEF Drawn
    <3>2. CountOf(h, w) = SingleCount
      <4>1. w # t
        BY <1>1, <3>1
      <4>2. GangHands(q)[q] \in Seq(Kind)
        BY <1>3
      <4> QED BY <1>1, <4>1, <4>2, CountAppend
    <3>3. acts # {}
      BY <3>2 DEF SelfActions, CanSelfGang
    <3> HIDE DEF acts
    <3> QED BY <3>1, <3>3
  <2>3. ASSUME NEW t \in Kind, Drawn(q, GangHands(q), MeldsWithGang(q), TRUE, t)
        PROVE  \A u \in Kind : pool'[u] + HeldCopies(handIn', u) = pool[u] + HeldCopies(GangHands(q), u)
    <3>1. /\ pool' = [pool EXCEPT ![t] = @ - 1]
          /\ handIn' = [GangHands(q) EXCEPT ![q] = Append(GangHands(q)[q], t)]
      BY <2>2, <2>3
    <3> QED BY <1>3, <3>1, DrawSeen
  <2> QED BY <1>4, <2>1, <2>2, <2>3
<1>6. TilesConserved'
  <2>1. Seats \ wrongGang' = Seats \ {q}
    OBVIOUS
  <2> QED BY <1>2, <1>5, <2>1 DEF TilesConserved, CopiesSeen
<1> QED BY <1>5, <1>6 DEF DropSorted, WaitSorted, Waiting

----------------------------------------------------------------------------
(* A peng *)

HandsAfterPeng(q) == [handIn EXCEPT ![q] = PengHand(@, waitList[q].mah)]
MeldsWithPeng(q) == [pengGang EXCEPT ![q] = PengMelds(@, waitList[q].mah)]

\* The peng of a discard: two copies leave the hand, three are shown, the third
\* being the discard, which was not seen before.
LEMMA PengEffect ==
    ASSUME TypeOK, SingleCount = 4, NEW q \in Seats, Waiting(q), Claims(q),
           TilesConserved, wrongGang = {}, AT_PENG \in waitList[q].actions
    PROVE  /\ HandsAfterPeng(q) \in [Seats -> Seq(Kind)]
           /\ Sorted(HandsAfterPeng(q))
           /\ \A t \in Kind : pool[t] + HeldCopies(HandsAfterPeng(q), t) +
                                LaidCopies(MeldsWithPeng(q), Seats, t) <= SingleCount
           /\ Len(HandsAfterPeng(q)[q]) + 3 * Len(MeldsWithPeng(q)[q]) =
                Len(handIn[q]) + 3 * Len(pengGang[q]) + 1
<1> DEFINE h == handIn[q]
           m == pengGang[q]
           t == waitList[q].mah
           g == PengHand(h, t)
           n == PengMelds(m, t)
<1>1. t \in Kind /\ h \in Seq(Kind) /\ m \in Seq(Meld)
  BY WaitingType DEF TypeOK
<1>2. /\ CopiesSeen(t, Seats) < 4
      /\ AT_PENG \in ClaimActions(h, t)
      /\ \A p \in Seats : IsReordered(handIn[p])
  BY DEF Claims
<1>3. /\ HandsAfterPeng(q) = [handIn EXCEPT ![q] = g]
      /\ MeldsWithPeng(q) = [pengGang EXCEPT ![q] = n]
  BY DEF HandsAfterPeng, MeldsWithPeng
<1> HIDE DEF h, m, t
<1>4. CountOf(h, t) >= 2
  BY <1>2 DEF ClaimActions, CanPeng, AT_HU, AT_GANG, AT_PENG, AT_PASS
<1>5. \A u \in Kind : CopiesSeen(u, Seats) <= 4
  <2>1. Seats \ wrongGang = Seats
    OBVIOUS
  <2> QED BY <2>1 DEF TilesConserved
<1>6. g \in Seq(Kind) /\ n \in Seq(Meld) /\ Len(n) = Len(m) + 1
  BY <1>1, PengType
<1>7. /\ Len(g) = Len(h) - 2
      /\ IsReordered(g)
      /\ \A u \in Kind : CountOf(g, u) = IF u = t THEN CountOf(h, u) - 2 ELSE CountOf(h, u)
  <2>1. IsReordered(h)
    BY <1>2 DEF h
  <2> QED BY <1>1, <1>4, <2>1, PengTakes
<1>8. n = Append(m, [mah |-> t, type |-> AT_PENG])
  BY DEF PengMelds
<1>9. ASSUME NEW u \in Kind
      PROVE  /\ u # t => Cardinality(MeldTiles(n, u)) = Cardinality(MeldTiles(m, u))
             /\ u = t => Cardinality(MeldTiles(n, u)) = Cardinality(MeldTiles(m, u)) + 3
  <2>1. /\ u # t => Cardinality(MeldTiles(Append(m, [mah |-> t, type |-> AT_PENG]), u)) =
                     Cardinality(MeldTiles(m, u))
        /\ u = t => Cardinality(MeldTiles(Append(m, [mah |-> t, type |-> AT_PENG]), u)) =
                     Cardinality(MeldTiles(m, u)) + 3
    BY <1>1, PengShown
  <2> HIDE DEF n
  <2> QED BY <1>8, <2>1
<1> HIDE DEF g, n
<1>10. HandsAfterPeng(q) \in [Seats -> Seq(Kind)] /\ Sorted(HandsAfterPeng(q))
  BY <1>2, <1>3, <1>6, <1>7 DEF Sorted, TypeOK
<1>11. ASSUME NEW u \in Kind
       PROVE  pool[u] + HeldCopies(HandsAfterPeng(q), u) +
                LaidCopies(MeldsWithPeng(q), Seats, u) <= 4
  <2>1. PICK held, laid \in Nat :
           /\ CopiesSeen(u, Seats) =
                pool[u] + (held + CountOf(h, u)) + (laid + Cardinality(MeldTiles(m, u)))
           /\ \A x \in Seq(Kind) :
                HeldCopies([handIn EXCEPT ![q] = x], u) = held + CountOf(x, u)
           /\ \A x \in Seq(Meld) :
                LaidCopies([pengGang EXCEPT ![q] = x], Seats, u) =
                     laid + Cardinality(MeldTiles(x, u))
           /\ pool[u] \in Nat
           /\ CountOf(h, u) \in Nat
           /\ Cardinality(MeldTiles(m, u)) \in Nat
    BY SeenSplit DEF h, m
  <2>2. /\ HeldCopies(HandsAfterPeng(q), u) = held + CountOf(g, u)
        /\ LaidCopies(MeldsWithPeng(q), Seats, u) = laid + Cardinality(MeldTiles(n, u))
    BY <1>3, <1>6, <2>1
  <2>3. CopiesSeen(u, Seats) <= 4 /\ (u = t => CopiesSeen(u, Seats) < 4)
    BY <1>2, <1>5
  <2>4. CASE u = t
    BY <1>7, <1>9, <2>1, <2>2, <2>3, <2>4, SMTT(30)
  <2>5. CASE u # t
    BY <1>7, <1>9, <2>1, <2>2, <2>3, <2>5
  <2> QED BY <2>4, <2>5
<1>12. Len(g) + 3 * Len(n) = Len(h) + 3 * Len(m) + 1
  <2>1. Len(m) \in Nat /\ Len(h) \in Nat
    BY <1>1, LenProperties
  <2> QED BY <1>6, <1>7, <2>1
<1>13. HandsAfterPeng(q)[q] = g /\ MeldsWithPeng(q)[q] = n
  BY <1>3 DEF TypeOK
<1> QED BY <1>10, <1>11, <1>12, <1>13 DEF h, m

----------------------------------------------------------------------------
(* Every action *)

\* All hands start sorted, and the copies dealt have left the pool.
LEMMA ReadyKeeps ==
    ASSUME TypeOK, AskingInv, HandsInv, NEW p \in Seats, NEW r \in BOOLEAN, PlayerReady(p, r)
    PROVE  HandsInv'
<1>1. /\ playState = "MPS_WAITING" \/ (playState = "MPS_ENDING" /\ p \in chooseList)
      /\ UNCHANGED <<pengGang, wrongGang, bankerPos, chooseList, waitList>>
  BY DEF PlayerReady
<1>2. /\ bankerPos \in FirstBankers \cup {-1}
      /\ \A q \in chooseList : Cleared(q)
      /\ playState = "MPS_WAITING" => /\ pool = [t \in Kind |-> 0]
                                      /\ \A q \in Seats : Cleared(q)
      /\ playState # "MPS_ENDING" => chooseList = {}
      /\ playState = "MPS_ENDING" => /\ chooseList # Seats
                                     /\ \A q \in Seats : ready[q] => q \in chooseList
  BY DEF HandsInv, Starts
<1>3. \A q \in Seats : ~Waiting(q) /\ ~Waiting(q)'
  BY <1>1 DEF AskingInv, WaitersAreAsked, Waiting
<1>4. CASE /\ ready' = [ready EXCEPT ![p] = r]
           /\ UNCHANGED <<pool, handIn, getStartDone, playState>>
  <2>1. Starts'
    BY <1>1, <1>2, <1>4 DEF Starts, Cleared, TypeOK
  <2>2. DropSorted' /\ WaitSorted'
    BY <1>1, <1>3, <1>4 DEF DropSorted, WaitSorted
  <2>3. TilesConserved'
    BY <1>1, <1>4 DEF HandsInv, TilesConserved, CopiesSeen
  <2> QED BY <2>1, <2>2, <2>3 DEF HandsInv
<1>5. CASE (\A q \in Seats : IF q = p THEN r ELSE ready[q]) /\ StartGame
  <2>1. playState = "MPS_WAITING"
    <3>1. playState = "MPS_ENDING" => \A q \in Seats : q \in chooseList
      BY <1>1, <1>2, <1>5
    <3> QED BY <1>1, <1>2, <3>1 DEF TypeOK
  <2>2. /\ \A q \in Seats : /\ handIn[q] = <<>> /\ ~getStartDone[q]
                            /\ pengGang[q] = <<>> /\ q \notin wrongGang
        /\ chooseList = {}
    BY <1>2, <2>1 DEF Cleared
  <2>3. wrongGang = {}
    BY <2>2 DEF TypeOK
  <2>4. PICK done, hands :
           /\ hands \in [Seats -> Seq(Kind)] /\ handIn' = hands
           /\ getStartDone' = done /\ StartHand(done, hands)
           /\ \A q \in Seats : ~ready'[q]
           /\ \A q \in Seats : done[q] => IsReordered(hands[q])
           /\ \A t \in Kind : pool'[t] + HeldCopies(hands, t) = SingleCount
    BY <1>2, <1>5, <2>1, <2>2, StartEffect
  <2>5. \/ playState' = "MPS_NORMAL_GAMING" /\ \A q \in Seats : done[q]
        \/ playState' = "MPS_GET_START"
    BY <2>4 DEF StartHand, AllPlayerGetStartDone
  <2>6. Starts'
    BY <1>1, <1>2, <2>2, <2>3, <2>4, <2>5 DEF Starts, Cleared
  <2>7. DropSorted'
    BY <1>1, <2>3, <2>4, <2>5, SortedIsFront DEF DropSorted
  <2>8. TilesConserved'
    <3> SUFFICES ASSUME NEW t \in Kind
                 PROVE  CopiesSeen(t, Seats \ wrongGang)' <= SingleCount
      BY DEF TilesConserved
    <3>1. Seats \ wrongGang' = Seats
      BY <1>1, <2>3
    <3>2. LaidCopies(pengGang, Seats, t) = 0
      BY <2>2, NothingLaid
    <3>3. CopiesSeen(t, Seats \ wrongGang)' =
            (pool'[t] + HeldCopies(hands, t)) + LaidCopies(pengGang, Seats, t)
      BY <1>1, <2>4, <3>1 DEF CopiesSeen
    <3>4. pool'[t] + HeldCopies(hands, t) = SingleCount /\ SingleCount \in Nat
      BY <2>4, ConstantsAssumption
    <3> QED BY <3>2, <3>3, <3>4
  <2> QED BY <1>3, <2>6, <2>7, <2>8 DEF HandsInv, WaitSorted
<1> QED BY <1>4, <1>5 DEF PlayerReady

\* Whoever reports its start hand has it sorted.
LEMMA StartDoneKeeps ==
    ASSUME TypeOK, AskingInv, HandsInv, NEW p \in Seats, PlayerGetStartDone(p)
    PROVE  HandsInv'
<1> DEFINE done == [getStartDone EXCEPT ![p] = TRUE]
           hands == [handIn EXCEPT ![p] = Reordered(@)]
<1>1. /\ playState = "MPS_GET_START"
      /\ getStartDone' = done /\ handIn' = hands /\ StartHand(done, hands)
      /\ UNCHANGED <<pool, pengGang, wrongGang, ready, bankerPos, chooseList, waitList>>
  BY DEF PlayerGetStartDone
<1>2. /\ bankerPos \in FirstBankers \cup {-1}
      /\ chooseList = {} /\ wrongGang = {}
      /\ \A q \in Seats : ~ready[q]
      /\ \A q \in Seats : pengGang[q] = <<>> /\ (getStartDone[q] => IsReordered(handIn[q]))
  BY <1>1 DEF HandsInv, Starts
<1>3. /\ handIn[p] \in Seq(Kind) /\ Reordered(handIn[p]) \in Seq(Kind)
      /\ IsReordered(Reordered(handIn[p]))
      /\ \A t \in Kind : CountOf(Reordered(handIn[p]), t) = CountOf(handIn[p], t)
  BY ReorderedType, CountReordered DEF TypeOK
<1>4. /\ hands \in [Seats -> Seq(Kind)]
      /\ \A q \in Seats : done[q] => IsReordered(hands[q])
  BY <1>2, <1>3 DEF TypeOK
<1>5. \A q \in Seats : ~Waiting(q) /\ ~Waiting(q)'
  BY <1>1 DEF AskingInv, WaitersAreAsked, Waiting
<1>6. \A t \in Kind : HeldCopies(hands, t) = HeldCopies(handIn, t)
  <2> SUFFICES ASSUME NEW t \in Kind
               PROVE  HeldCopies(hands, t) = HeldCopies(handIn, t)
    OBVIOUS
  <2>1. handIn \in [Seats -> Seq(Kind)]
    BY DEF TypeOK
  <2>2. PICK rest \in Nat :
           /\ HeldCopies(handIn, t) = rest + CountOf(handIn[p], t)
           /\ \A h \in Seq(Kind) : HeldCopies([handIn EXCEPT ![p] = h], t) = rest + CountOf(h, t)
    BY <2>1, HeldSplit
  <2> QED BY <1>3, <2>2
<1> HIDE DEF done, hands
<1>7. \/ playState' = "MPS_NORMAL_GAMING" /\ \A q \in Seats : done[q]
      \/ playState' = "MPS_GET_START"
  BY <1>1 DEF StartHand, AllPlayerGetStartDone
<1>8. Starts'
  BY <1>1, <1>2, <1>4, <1>7 DEF Starts
<1>9. DropSorted'
  BY <1>1, <1>2, <1>4, <1>7, SortedIsFront DEF DropSorted
<1>10. TilesConserved'
  BY <1>1, <1>6 DEF HandsInv, TilesConserved, CopiesSeen
<1> QED BY <1>5, <1>8, <1>9, <1>10 DEF HandsInv, WaitSorted

\* Leaving the table after a hand: hands and melds are put away, the last one to
\* leave empties the pool.
LEMMA ContinueKeeps ==
    ASSUME TypeOK, AskingInv, HandsInv, NEW p \in Seats, PlayerContinueGame(p)
    PROVE  HandsInv'
<1> DEFINE all == chooseList \cup {p} = Seats
<1>1. /\ playState = "MPS_ENDING" /\ p \notin chooseList
      /\ handIn' = [handIn EXCEPT ![p] = <<>>]
      /\ pengGang' = [pengGang EXCEPT ![p] = <<>>]
      /\ ready' = [ready EXCEPT ![p] = FALSE]
      /\ getStartDone' = [getStartDone EXCEPT ![p] = FALSE]
      /\ wrongGang' = wrongGang \ {p}
      /\ playState' = IF all THEN "MPS_WAITING" ELSE playState
      /\ chooseList' = IF all THEN {} ELSE chooseList \cup {p}
      /\ pool' = IF all THEN [t \in Kind |-> 0] ELSE pool
      /\ waitList' = IF all THEN NobodyWaits ELSE waitList
      /\ bankerPos' = IF all THEN -1 ELSE bankerPos
  BY DEF PlayerContinueGame
<1>2. /\ bankerPos \in FirstBankers \cup {-1}
      /\ \A q \in chooseList : Cleared(q)
      /\ \A q \in Seats : ready[q] => q \in chooseList
  BY <1>1 DEF HandsInv, Starts
<1>3. \A q \in Seats : ~Waiting(q)'
  <2>1. \A q \in Seats : waitList[q] = NoWait
    BY <1>1 DEF AskingInv, WaitersAreAsked, Waiting
  <2> HIDE DEF all
  <2> QED BY <1>1, <2>1 DEF Waiting, NobodyWaits
<1>4. \A q \in Seats : q = p \/ q \in chooseList => Cleared(q)'
  <2>1. Cleared(p)'
    BY <1>1 DEF Cleared, TypeOK
  <2>2. \A q \in Seats \ {p} : Cleared(q) => Cleared(q)'
    BY <1>1 DEF Cleared, TypeOK
  <2> QED BY <1>1, <1>2, <2>1, <2>2
<1>5. Starts'
  <2>1. CASE all
    <3>1. \A q \in Seats : Cleared(q)'
      BY <1>4, <2>1
    <3> QED BY <1>1, <2>1, <3>1 DEF Starts
  <2>2. CASE ~all
    <3>1. /\ playState' = "MPS_ENDING" /\ bankerPos' = bankerPos
          /\ chooseList' = chooseList \cup {p}
      BY <1>1, <2>2
    <3>2. \A q \in chooseList' : Cleared(q)'
      BY <1>4, <3>1 DEF TypeOK
    <3>3. \A q \in Seats : ready'[q] => q \in chooseList'
      BY <1>1, <1>2, <3>1 DEF TypeOK
    <3> QED BY <1>2, <2>2, <3>1, <3>2, <3>3 DEF Starts
  <2> QED BY <2>1, <2>2
<1>6. DropSorted' /\ WaitSorted'
  BY <1>1, <1>3 DEF DropSorted, WaitSorted
<1>7. TilesConserved'
  <2> SUFFICES ASSUME NEW t \in Kind
               PROVE  CopiesSeen(t, Seats \ wrongGang)' <= SingleCount
    BY DEF TilesConserved
  <2> DEFINE P == Seats \ wrongGang
             F == [q \in Seats |-> MeldTiles(pengGang[q], t)]
             G == [q \in Seats |-> MeldTiles(pengGang'[q], t)]
  <2>1. pool'[t] \in Nat /\ pool[t] \in Nat /\ pool'[t] <= pool[t]
    <3> HIDE DEF all
    <3> QED BY <1>1 DEF TypeOK
  <2>2. /\ HeldCopies(handIn', t) \in Nat /\ HeldCopies(handIn, t) \in Nat
        /\ HeldCopies(handIn', t) <= HeldCopies(handIn, t)
    <3>1. handIn \in [Seats -> Seq(Kind)] /\ handIn[p] \in Seq(Kind) /\ <<>> \in Seq(Kind)
      BY EmptySeq DEF TypeOK
    <3>2. PICK rest \in Nat :
             /\ HeldCopies(handIn, t) = rest + CountOf(handIn[p], t)
             /\ \A h \in Seq(Kind) : HeldCopies([handIn EXCEPT ![p] = h], t) = rest + CountOf(h, t)
      BY <3>1, HeldSplit
    <3>3. CountOf(handIn[p], t) \in Nat /\ CountOf(<<>>, t) = 0
      <4>1. CountOf(<<>>, t) \in Nat /\ CountOf(<<>>, t) <= Len(<<>>) /\ Len(<<>>) = 0
        BY <3>1, CountType, EmptySeq
      <4> QED BY <3>1, <4>1, CountType
    <3>4. HeldCopies(handIn', t) = rest + 0
      BY <1>1, <3>1, <3>2, <3>3
    <3> QED BY <3>2, <3>3, <3>4
  <2>3. /\ LaidCopies(pengGang', Seats \ wrongGang', t) \in Nat
        /\ LaidCopies(pengGang, P, t) \in Nat
        /\ LaidCopies(pengGang', Seats \ wrongGang', t) <= LaidCopies(pengGang, P, t)
    <3>1. pengGang \in [Seats -> Seq(Meld)] /\ <<>> \in Seq(Meld)
      BY EmptySeq DEF TypeOK
    <3>2. MeldTiles(<<>>, t) = {}
      <4>1. MeldTiles(<<>>, t) \subseteq (1 .. Len(<<>>)) \X (1 .. 4) /\ Len(<<>>) = 0
        BY <3>1, MeldTilesType, EmptySeq
      <4> QED BY <4>1
    <3>3. \A q \in Seats : IsFiniteSet(F[q])
      BY <3>1, MeldTilesType
    <3>4. \A q \in Seats : G[q] = IF q = p THEN {} ELSE F[q]
      BY <1>1, <3>1, <3>2
    <3>5. /\ LaidCopies(pengGang', Seats \ wrongGang', t) = Cardinality(PlacesOf(G, Seats \ wrongGang'))
          /\ LaidCopies(pengGang, P, t) = Cardinality(PlacesOf(F, P))
      BY DEF LaidCopies
    <3> HIDE DEF F, G
    <3>6. PlacesOf(G, Seats \ wrongGang') = PlacesOf(G, P \ {p})
      BY <1>1, <3>4 DEF PlacesOf
    <3>7. IsFiniteSet(P) /\ P \subseteq Seats
      BY SeatsFinite, FS_Subset
    <3> HIDE DEF P
    <3>8. /\ \A q \in P : IsFiniteSet(F[q])
          /\ P \ {p} \in SUBSET P
          /\ \A q \in P \ {p} : G[q] \subseteq F[q] /\ IsFiniteSet(G[q])
      BY <3>3, <3>4, <3>7
    <3>9. Cardinality(PlacesOf(G, P \ {p})) <= Cardinality(PlacesOf(F, P))
      BY <3>7, <3>8, PlacesSubset
    <3>10. Cardinality(PlacesOf(F, P)) \in Nat
      BY <3>7, <3>8, PlacesFinite
    <3>11. Cardinality(PlacesOf(G, P \ {p})) \in Nat
      <4>1. IsFiniteSet(P \ {p})
        BY <3>7, FS_Subset
      <4> QED BY <3>8, <4>1, PlacesFinite
    <3> QED BY <3>5, <3>6, <3>9, <3>10, <3>11
  <2>4. pool[t] + HeldCopies(handIn, t) + LaidCopies(pengGang, P, t) <= SingleCount
    BY DEF HandsInv, TilesConserved, CopiesSeen
  <2>5. CopiesSeen(t, Seats \ wrongGang)' =
          pool'[t] + HeldCopies(handIn', t) + LaidCopies(pengGang', Seats \ wrongGang', t)
    BY DEF CopiesSeen
  <2> HIDE DEF P
  <2> QED BY <2>1, <2>2, <2>3, <2>4, <2>5, ConstantsAssumption
<1> QED BY <1>5, <1>6, <1>7 DEF HandsInv

\* One player's hu ends the hand and moves no tile.
LEMMA HuKeeps ==
    ASSUME TypeOK, AskingInv, HandsInv, NEW p \in Seats, ConfirmHu(p)
    PROVE  HandsInv'
<1>1. /\ AT_HU \in waitList[p].actions
      /\ playState' = "MPS_ENDING" /\ waitList' = NobodyWaits
      /\ UNCHANGED <<tiles, ready, bankerPos, chooseList>>
  BY DEF ConfirmHu, EndGame
<1>2. Waiting(p)
  BY <1>1 DEF Waiting, NoWait
<1>3. playState \in InHand
  BY <1>2 DEF AskingInv, WaitersAreAsked, InHand
<1>4. Starts'
  BY <1>1, <1>3, InHandStarts DEF HandsInv
<1>5. DropSorted' /\ WaitSorted'
  BY <1>1 DEF DropSorted, WaitSorted, Waiting, NobodyWaits
<1>6. TilesConserved'
  BY <1>1 DEF HandsInv, TilesConserved, CopiesSeen, tiles
<1> QED BY <1>4, <1>5, <1>6 DEF HandsInv

\* A confirmation that waits for others changes no hand.
LEMMA WaitKeeps ==
    ASSUME TypeOK, AskingInv, HandsInv, NEW p \in Seats, NEW a \in ActionType,
           ConfirmAndWait(p, a)
    PROVE  HandsInv'
<1>1. /\ a \in waitList[p].actions
      /\ waitList' = [waitList EXCEPT ![p].confirmed = a]
      /\ UNCHANGED <<tiles, seating, playState, askedDrop>>
  BY DEF ConfirmAndWait
<1>2. Waiting(p)
  BY <1>1 DEF Waiting, NoWait
<1>3. /\ waitList[p] \in WaitActionInfo
      /\ waitList \in [Seats -> WaitActionInfo \cup {NoWait}]
  BY <1>2, WaitingType DEF TypeOK, Waiting
<1>4. \A q \in Seats : /\ waitList'[q].dropped = waitList[q].dropped
                       /\ waitList'[q].mah = waitList[q].mah
                       /\ waitList'[q].actions = waitList[q].actions
                       /\ waitList'[q].confirmed = IF q = p THEN a ELSE waitList[q].confirmed
                       /\ q # p => waitList'[q] = waitList[q]
  BY <1>1, <1>3 DEF WaitActionInfo
<1>5. \A q \in Seats : Waiting(q)' => Waiting(q)
  BY <1>2, <1>4 DEF Waiting
<1>6. \A t \in Kind : CopiesSeen(t, Seats)' = CopiesSeen(t, Seats)
  BY <1>1 DEF CopiesSeen, tiles
<1>7. ASSUME NEW q \in Seats, Waiting(q)'
      PROVE  /\ wrongGang' = {}
             /\ waitList'[q].confirmed \in waitList'[q].actions \cup {AT_MAX}
             /\ (OwnDraw(q) \/ Claims(q))'
  <2>1. /\ Waiting(q) /\ wrongGang = {}
        /\ waitList[q].confirmed \in waitList[q].actions \cup {AT_MAX}
        /\ OwnDraw(q) \/ Claims(q)
    BY <1>5, <1>7 DEF HandsInv, WaitSorted
  <2>2. handIn' = handIn /\ pengGang' = pengGang /\ wrongGang' = wrongGang
    BY <1>1 DEF tiles
  <2>3. waitList'[q].confirmed \in waitList'[q].actions \cup {AT_MAX}
    BY <1>1, <1>4, <2>1
  <2>6. \A s \in Seats : /\ waitList'[s].dropped = waitList[s].dropped
                         /\ waitList'[s].mah = waitList[s].mah
                         /\ Waiting(s)' => Waiting(s)
    BY <1>4, <1>5
  <2>4. CASE OwnDraw(q)
    <3>1. /\ waitList'[q].dropped = q
          /\ waitList'[q].actions = SelfActions(handIn'[q], pengGang'[q], waitList'[q].mah)
          /\ handIn'[q] # <<>> /\ handIn'[q][Len(handIn'[q])] = waitList'[q].mah
          /\ FrontReordered(handIn'[q])
      BY <1>4, <2>2, <2>4 DEF OwnDraw
    <3>2. \A s \in Seats \ {q} : ~Waiting(s)' /\ IsReordered(handIn'[s])
      BY <2>2, <2>4, <2>6 DEF OwnDraw
    <3>3. OwnDraw(q)'
      BY <3>1, <3>2 DEF OwnDraw
    <3> QED BY <2>1, <2>2, <2>3, <3>3
  <2>5. CASE Claims(q)
    <3>0. PICK d \in Seats, t \in Kind : d = waitList[q].dropped /\ t = waitList[q].mah
      BY <2>1, WaitingType
    <3>1. /\ d # q /\ ~Waiting(d)
          /\ waitList[q].actions = ClaimActions(handIn[q], t)
          /\ CopiesSeen(t, Seats) < SingleCount
          /\ \A s \in Seats : /\ IsReordered(handIn[s])
                              /\ Waiting(s) => waitList[s].dropped = d /\ waitList[s].mah = t
      BY <2>5, <3>0 DEF Claims
    <3>2. /\ waitList'[q].dropped = d /\ waitList'[q].mah = t
          /\ waitList'[q].actions = ClaimActions(handIn'[q], t)
      BY <1>4, <2>2, <3>0, <3>1
    <3>3. \A s \in Seats :
             /\ IsReordered(handIn'[s])
             /\ Waiting(s)' => waitList'[s].dropped = d /\ waitList'[s].mah = t
      BY <2>2, <2>6, <3>1
    <3>4. waitList'[d] = NoWait
      BY <1>2, <1>4, <3>1 DEF Waiting
    <3>5. CopiesSeen(t, Seats)' < SingleCount
      BY <1>6, <3>1
    <3>6. Claims(q)'
      BY <3>1, <3>2, <3>3, <3>4, <3>5 DEF Claims, CopiesSeen, Waiting
    <3> QED BY <2>1, <2>2, <2>3, <3>6
  <2> QED BY <2>1, <2>2, <2>3, <2>4, <2>5
<1>8. WaitSorted'
  BY <1>7 DEF WaitSorted
<1>9. Starts' /\ DropSorted'
  BY <1>1 DEF HandsInv, Starts, DropSorted, Cleared, tiles, seating
<1>10. TilesConserved'
  BY <1>1 DEF HandsInv, TilesConserved, CopiesSeen, tiles
<1> QED BY <1>8, <1>9, <1>10 DEF HandsInv

\* A discard: the tile leaves a hand that is sorted but for its last tile.
LEMMA DropKeeps ==
    ASSUME TypeOK, AskingInv, HandsInv, NEW p \in Seats, NEW i, RequestDrop(p, i)
    PROVE  HandsInv'
<1> DEFINE h == handIn[p]
           t == h[i]
           g == Reordered(RemoveAt(h, i))
           hands == [handIn EXCEPT ![p] = g]
           drops == [askedDrop EXCEPT ![p] = {}]
           acts == [q \in Seats |-> IF q = p THEN {} ELSE ClaimActions(handIn[q], t)]
           claimers == {q \in Seats : acts[q] # {}}
           Info(q) == [dropped |-> p, mah |-> t, actions |-> acts[q], confirmed |-> AT_MAX]
<1>1. /\ i \in askedDrop[p] \cap DOMAIN h
      /\ playState = "MPS_NORMAL_GAMING"
      /\ UNCHANGED <<pengGang, wrongGang, ready, bankerPos, chooseList>>
      /\ \/ /\ claimers # {}
            /\ playState' = "MPS_WAIT_FOR_ACTION"
            /\ waitList' = [q \in Seats |-> IF q \in claimers /\ ~Waiting(q)
                                            THEN Info(q) ELSE waitList[q]]
            /\ handIn' = hands /\ pool' = pool
         \/ RequestMahjong(NextSeat(p), hands, pengGang, drops, askedAction, FALSE)
  BY DEF RequestDrop
<1>2. h \in Seq(Kind) /\ i \in 1 .. Len(h) /\ t \in Kind
  BY <1>1, LenProperties DEF TypeOK
<1>3. /\ wrongGang = {}
      /\ \A q \in Seats \ {p} : askedDrop[q] = {} /\ IsReordered(handIn[q])
      /\ \A q \in Seats : waitList[q] = NoWait
  BY <1>1 DEF HandsInv, DropSorted, AskingInv, DropsAlone, WaitersAreAsked, Waiting
<1> HIDE DEF h, t
<1>4. /\ g \in Seq(Kind) /\ IsReordered(g)
      /\ \A u \in Kind : CountOf(g, u) = IF u = t THEN CountOf(h, u) - 1 ELSE CountOf(h, u)
  <2>1. RemoveAt(h, i) \in Seq(Kind)
    BY <1>2, RemoveAtType
  <2>2. \A u \in Kind : CountOf(RemoveAt(h, i), u) =
                          IF u = t THEN CountOf(h, u) - 1 ELSE CountOf(h, u)
    BY <1>2, CountRemoveAt DEF t
  <2>3. /\ Reordered(RemoveAt(h, i)) \in Seq(Kind) /\ IsReordered(Reordered(RemoveAt(h, i)))
        /\ \A u \in Kind : CountOf(Reordered(RemoveAt(h, i)), u) = CountOf(RemoveAt(h, i), u)
    BY <2>1, ReorderedType, CountReordered
  <2> QED BY <2>2, <2>3
<1> HIDE DEF g
<1>5. hands \in [Seats -> Seq(Kind)] /\ hands[p] = g /\ \A q \in Seats \ {p} : hands[q] = handIn[q]
  BY <1>4 DEF TypeOK
<1>6. Sorted(hands)
  BY <1>3, <1>4, <1>5 DEF Sorted
<1>7. ASSUME NEW u \in Kind
      PROVE  /\ pool[u] + HeldCopies(hands, u) + LaidCopies(pengGang, Seats, u) <= SingleCount
             /\ u = t => pool[u] + HeldCopies(hands, u) + LaidCopies(pengGang, Seats, u) < SingleCount
  <2>1. PICK held, laid \in Nat :
           /\ CopiesSeen(u, Seats) =
                pool[u] + (held + CountOf(h, u)) + (laid + Cardinality(MeldTiles(pengGang[p], u)))
           /\ \A x \in Seq(Kind) :
                HeldCopies([handIn EXCEPT ![p] = x], u) = held + CountOf(x, u)
           /\ LaidCopies(pengGang, Seats, u) = laid + Cardinality(MeldTiles(pengGang[p], u))
           /\ pool[u] \in Nat
           /\ CountOf(h, u) \in Nat
           /\ Cardinality(MeldTiles(pengGang[p], u)) \in Nat
    BY SeenSplit DEF h
  <2>2. HeldCopies(hands, u) = held + CountOf(g, u) /\ CountOf(g, u) \in Nat
    BY <1>4, <2>1, CountType
  <2>3. CopiesSeen(u, Seats) <= SingleCount
    <3>1. Seats \ wrongGang = Seats
      BY <1>3
    <3> QED BY <3>1 DEF HandsInv, TilesConserved
  <2>4. CASE u = t
    <3>1. CountOf(g, u) = CountOf(h, u) - 1
      BY <1>4, <2>4
    <3> QED BY <2>1, <2>2, <2>3, <3>1, ConstantsAssumption, SMTT(30)
  <2>5. CASE u # t
    <3>1. CountOf(g, u) = CountOf(h, u)
      BY <1>4, <2>5
    <3> QED BY <2>1, <2>2, <2>3, <2>5, <3>1, ConstantsAssumption
  <2> QED BY <2>4, <2>5
<1>8. CASE RequestMahjong(NextSeat(p), hands, pengGang, drops, askedAction, FALSE)
  <2>1. NextSeat(p) \in Seats
    BY ConstantsAssumption DEF NextSeat, Seats
  <2>2. drops \in [Seats -> SUBSET Nat] /\ \A q \in Seats : drops[q] = {}
    BY <1>3 DEF TypeOK
  <2>3. pengGang \in [Seats -> Seq(Meld)] /\ FALSE \in BOOLEAN
    BY DEF TypeOK
  <2>4. \A q \in Seats : ~Waiting(q)
    BY <1>3 DEF Waiting
  <2> HIDE DEF hands, drops
  <2>5. pengGang' = pengGang /\ wrongGang' = {}
    BY <1>1, <1>3
  <2>6. \A u \in Kind : pool[u] + HeldCopies(hands, u) + LaidCopies(pengGang, Seats, u) <= SingleCount
    BY <1>7
  <2>7. /\ DropSorted' /\ WaitSorted' /\ TilesConserved'
        /\ playState' \in InHand \cup {"MPS_ENDING"}
    BY <1>5, <1>6, <1>8, <2>1, <2>2, <2>3, <2>4, <2>5, <2>6, DrawKeeps
  <2>8. Starts'
    BY <1>1, <2>7, InHandStarts DEF HandsInv, InHand
  <2> QED BY <2>7, <2>8 DEF HandsInv
<1>9. CASE /\ claimers # {}
           /\ playState' = "MPS_WAIT_FOR_ACTION"
           /\ waitList' = [q \in Seats |-> IF q \in claimers /\ ~Waiting(q)
                                           THEN Info(q) ELSE waitList[q]]
           /\ handIn' = hands /\ pool' = pool
  <2>1. Starts'
    BY <1>1, <1>9, InHandStarts DEF HandsInv, InHand
  <2>2. \A u \in Kind : CopiesSeen(u, Seats)' =
                          pool[u] + HeldCopies(hands, u) + LaidCopies(pengGang, Seats, u)
    BY <1>1, <1>9 DEF CopiesSeen
  <2>3. TilesConserved'
    <3>1. Seats \ wrongGang' = Seats
      BY <1>1, <1>3
    <3> QED BY <1>1, <1>7, <1>9, <3>1 DEF TilesConserved, CopiesSeen
  <2>4. ASSUME NEW q \in Seats, waitList'[q] # NoWait
        PROVE  /\ q # p
               /\ waitList'[q].dropped = p /\ waitList'[q].mah = t
               /\ waitList'[q].actions = ClaimActions(handIn[q], t)
               /\ waitList'[q].confirmed = AT_MAX
    <3>1. q \in claimers /\ waitList'[q] = Info(q)
      <4> HIDE DEF claimers, Info
      <4> QED BY <1>3, <1>9, <2>4
    <3>2. q # p /\ acts[q] = ClaimActions(handIn[q], t)
      BY <3>1
    <3> QED BY <3>1, <3>2
  <2>5. waitList'[p] = NoWait
    BY <2>4
  <2>10. PICK v \in Kind : v = t
    BY <1>2
  <2>6. CopiesSeen(v, Seats)' < SingleCount
    BY <1>7, <2>2, <2>10
  <2>7. ASSUME NEW q \in Seats, Waiting(q)'
        PROVE  /\ wrongGang' = {}
               /\ waitList'[q].confirmed \in waitList'[q].actions \cup {AT_MAX}
               /\ Claims(q)'
    <3>1. /\ q # p
          /\ waitList'[q].dropped = p /\ waitList'[q].mah = v
          /\ waitList'[q].actions = ClaimActions(handIn'[q], v)
          /\ waitList'[q].confirmed = AT_MAX
      <4> HIDE DEF hands
      <4> QED BY <1>5, <1>9, <2>4, <2>7, <2>10 DEF Waiting
    <3>2. \A s \in Seats :
             /\ IsReordered(handIn'[s])
             /\ Waiting(s)' => waitList'[s].dropped = p /\ waitList'[s].mah = v
      <4> HIDE DEF hands
      <4> QED BY <1>6, <1>9, <2>4, <2>10 DEF Sorted, Waiting
    <3>3. Claims(q)'
      BY <3>1, <3>2, <2>5, <2>6 DEF Claims, CopiesSeen, Waiting
    <3> QED BY <1>1, <1>3, <3>1, <3>3
  <2>8. WaitSorted'
    BY <2>7 DEF WaitSorted
  <2>9. DropSorted'
    BY <1>9 DEF DropSorted
  <2> QED BY <2>1, <2>3, <2>8, <2>9 DEF HandsInv
<1> QED BY <1>1, <1>8, <1>9

\* The player whose choice wins, and what it still may carry out.
Chosen(q, answers) ==
    /\ Waiting(q) /\ (OwnDraw(q) \/ Claims(q)) /\ wrongGang = {}
    /\ \/ AT_GANG \in waitList[q].actions /\ ExecuteGang(q, waitList[q], answers)
       \/ AT_PENG \in waitList[q].actions /\ ExecutePeng(q, waitList[q], answers)
       \/ AT_PASS \in waitList[q].actions /\ ExecutePass(q, waitList[q], answers)

\* The last confirmation.  Whatever is carried out was offered to that player, so
\* the hand it is carried out on is the one the offer was computed from.
LEMMA LastChoice ==
    ASSUME TypeOK, AskingInv, HandsInv, NEW p \in Seats, NEW a \in ActionType, ConfirmLast(p, a)
    PROVE  \E q \in Seats : \E answers : Chosen(q, answers)
<1> DEFINE confirmed == [q \in Seats |-> IF q = p THEN a ELSE waitList[q].confirmed]
           best == Min({confirmed[q] : q \in {r \in Seats : Waiting(r)}})
           answers == [askedAction EXCEPT ![p] = {}]
<1>1. /\ a \in waitList[p].actions
      /\ \A q \in Seats \ {p} : Waiting(q) => waitList[q].confirmed # AT_MAX
  BY DEF ConfirmLast
<1> HIDE DEF best, answers
<1>2. PICK q \in Seats :
         /\ Waiting(q)
         /\ confirmed[q] = best
         /\ \/ best = AT_GANG /\ ExecuteGang(q, waitList[q], answers)
            \/ best = AT_PENG /\ ExecutePeng(q, waitList[q], answers)
            \/ best = AT_PASS /\ ExecutePass(q, waitList[q], answers)
  BY DEF ConfirmLast, best, answers
<1>3. /\ wrongGang = {}
      /\ waitList[q].confirmed \in waitList[q].actions \cup {AT_MAX}
      /\ OwnDraw(q) \/ Claims(q)
  BY <1>2 DEF HandsInv, WaitSorted
<1>4. best \in waitList[q].actions
  BY <1>1, <1>2, <1>3
<1> HIDE DEF confirmed
<1> QED BY <1>2, <1>3, <1>4 DEF Chosen

\* While a player is waited for, no discard is due.
LEMMA WaitingBetween ==
    ASSUME AskingInv, NEW q \in Seats, Waiting(q)
    PROVE  playState = "MPS_WAIT_FOR_ACTION" /\ \A r \in Seats : askedDrop[r] = {}
BY DEF AskingInv, WaitersAreAsked, DropsAlone

\* Carrying out the last choice keeps the invariant.
LEMMA LastKeeps ==
    ASSUME TypeOK, AskingInv, HandsInv, SingleCount = 4,
           NEW p \in Seats, NEW a \in ActionType, ConfirmLast(p, a)
    PROVE  HandsInv'
<1>1. UNCHANGED <<ready, bankerPos, chooseList>>
  BY DEF ConfirmLast
<1>0. PICK q \in Seats : \E answers : Chosen(q, answers)
  BY LastChoice
<1>2. PICK answers :
         /\ Waiting(q) /\ (OwnDraw(q) \/ Claims(q)) /\ wrongGang = {}
         /\ \/ AT_GANG \in waitList[q].actions /\ ExecuteGang(q, waitList[q], answers)
            \/ AT_PENG \in waitList[q].actions /\ ExecutePeng(q, waitList[q], answers)
            \/ AT_PASS \in waitList[q].actions /\ ExecutePass(q, waitList[q], answers)
  BY <1>0 DEF Chosen
<1>3. wrongGang = {} /\ (OwnDraw(q) \/ Claims(q))
  BY <1>2
<1>5. playState \in InHand /\ \A r \in Seats : askedDrop[r] = {}
  BY <1>2, WaitingBetween DEF InHand
<1>6. /\ TilesConserved
      /\ askedDrop \in [Seats -> SUBSET Nat]
      /\ TRUE \in BOOLEAN
  BY DEF HandsInv, TypeOK
<1>7. /\ waitList[q].dropped \in Seats /\ waitList[q].mah \in Kind
      /\ handIn[q] \in Seq(Kind) /\ pengGang[q] \in Seq(Meld)
  BY <1>2, WaitingType DEF TypeOK
<1>8. SUFFICES /\ DropSorted' /\ WaitSorted' /\ TilesConserved'
               /\ playState' \in InHand \cup {"MPS_ENDING"}
  BY <1>1, <1>5, InHandStarts DEF HandsInv
<1>9. CASE AT_GANG \in waitList[q].actions /\ ExecuteGang(q, waitList[q], answers)
  <2>1. /\ pengGang' = MeldsWithGang(q)
        /\ wrongGang' = IF OwnsGang(q) THEN wrongGang ELSE wrongGang \cup {q}
        /\ RequestMahjong(q, GangHands(q), MeldsWithGang(q), askedDrop, answers, TRUE)
    BY <1>9 DEF ExecuteGang, MeldsWithGang, GangHands, OwnsGang
  <2>2. AT_GANG \in waitList[q].actions
    BY <1>9
  <2>3. GangHands(q) \in [Seats -> Seq(Kind)] /\ MeldsWithGang(q) \in [Seats -> Seq(Meld)]
    <3>1. (waitList[q].dropped = q) \in BOOLEAN
      OBVIOUS
    <3>2. /\ GangHand(handIn[q], pengGang[q], waitList[q].mah, waitList[q].dropped = q) \in Seq(Kind)
          /\ GangMelds(pengGang[q], waitList[q].mah) \in Seq(Meld)
      BY <1>7, <3>1, GangType
    <3> QED BY <3>2 DEF GangHands, MeldsWithGang, TypeOK
  <2>4. CASE OwnsGang(q)
    <3>1. /\ Sorted(GangHands(q))
          /\ \A t \in Kind : pool[t] + HeldCopies(GangHands(q), t) +
                               LaidCopies(MeldsWithGang(q), Seats, t) <= SingleCount
      BY <1>2, <1>3, <1>6, <2>2, <2>4, OwnGangEffect, ClaimedGangEffect
    <3>2. wrongGang' = {}
      BY <1>3, <2>1, <2>4
    <3> QED BY <1>5, <1>6, <2>1, <2>3, <3>1, <3>2, DrawKeeps
  <2>5. CASE ~OwnsGang(q)
    <3>1. OwnDraw(q)
      BY <1>3, <2>5 DEF Claims, OwnsGang
    <3>2. wrongGang' = {q}
      BY <1>3, <2>1, <2>5
    <3>3. /\ DropSorted' /\ WaitSorted' /\ TilesConserved'
          /\ playState' \in {"MPS_WAIT_FOR_ACTION", "MPS_ENDING"}
      BY <1>2, <1>3, <1>5, <1>6, <2>1, <2>2, <2>5, <3>1, <3>2, WrongGangDraw
    <3> QED BY <3>3 DEF InHand
  <2> QED BY <2>4, <2>5
<1>10. CASE AT_PENG \in waitList[q].actions /\ ExecutePeng(q, waitList[q], answers)
  <2>1. /\ playState' = "MPS_NORMAL_GAMING"
        /\ handIn' = HandsAfterPeng(q) /\ pengGang' = MeldsWithPeng(q)
        /\ waitList' = NobodyWaits
        /\ UNCHANGED <<pool, wrongGang>>
    BY <1>10 DEF ExecutePeng, HandsAfterPeng, MeldsWithPeng
  <2>2. AT_PENG \in waitList[q].actions
    BY <1>10
  <2>3. Claims(q)
    BY <1>3, <2>2 DEF OwnDraw, SelfActions, AT_HU, AT_GANG, AT_PENG, AT_PASS
  <2>4. /\ HandsAfterPeng(q) \in [Seats -> Seq(Kind)]
        /\ Sorted(HandsAfterPeng(q))
        /\ \A t \in Kind : pool[t] + HeldCopies(HandsAfterPeng(q), t) +
                             LaidCopies(MeldsWithPeng(q), Seats, t) <= SingleCount
    BY <1>2, <1>3, <1>6, <2>2, <2>3, PengEffect
  <2>5. \A r \in Seats : IsReordered(handIn'[r]) /\ FrontReordered(handIn'[r])
    BY <2>1, <2>4, SortedIsFront DEF Sorted
  <2>6. DropSorted' /\ WaitSorted'
    BY <1>3, <2>1, <2>5 DEF DropSorted, WaitSorted, Waiting, NobodyWaits
  <2>7. TilesConserved'
    <3>1. Seats \ wrongGang' = Seats
      BY <1>3, <2>1
    <3> QED BY <2>1, <2>4, <3>1 DEF TilesConserved, CopiesSeen
  <2> QED BY <2>1, <2>6, <2>7 DEF InHand
<1>11. CASE AT_PASS \in waitList[q].actions /\ ExecutePass(q, waitList[q], answers)
  <2>1. pengGang' = pengGang /\ wrongGang' = wrongGang
    BY <1>11 DEF ExecutePass
  <2>2. CASE /\ waitList[q].dropped = q
             /\ playState' = "MPS_NORMAL_GAMING"
             /\ askedDrop' = AskDrop(askedDrop, q, handIn[q])
             /\ waitList' = NobodyWaits
             /\ UNCHANGED <<pool, handIn>>
    <3>1. OwnDraw(q)
      BY <1>3, <2>2 DEF Claims
    <3>2. /\ handIn[q] # <<>> /\ FrontReordered(handIn[q])
          /\ \A r \in Seats \ {q} : IsReordered(handIn[r])
      BY <3>1 DEF OwnDraw
    <3>3. askedDrop'[q] # {} /\ \A r \in Seats \ {q} : askedDrop'[r] = {}
      <4>1. AskDrop(askedDrop, q, handIn[q])[q] # {}
        BY <1>5, <1>6, <1>7, <3>2, AskDropType, SMTT(30)
      <4>2. \A r \in Seats \ {q} : AskDrop(askedDrop, q, handIn[q])[r] = askedDrop[r]
        BY <1>6, <1>7, AskDropType
      <4> QED BY <1>5, <2>2, <4>1, <4>2
    <3>4. DropSorted' /\ WaitSorted'
      BY <1>3, <2>1, <2>2, <3>2, <3>3 DEF DropSorted, WaitSorted, Waiting, NobodyWaits
    <3>5. TilesConserved'
      BY <1>6, <2>1, <2>2 DEF TilesConserved, CopiesSeen
    <3> QED BY <2>2, <3>4, <3>5 DEF InHand
  <2>3. CASE /\ waitList[q].dropped # q
             /\ RequestMahjong(NextSeat(waitList[q].dropped), handIn, pengGang, askedDrop,
                               answers, TRUE)
    <3>1. Claims(q)
      BY <1>3, <2>3 DEF OwnDraw
    <3>2. Sorted(handIn)
      BY <3>1 DEF Claims, Sorted
    <3>3. NextSeat(waitList[q].dropped) \in Seats
      BY <1>7, ConstantsAssumption DEF NextSeat, Seats
    <3>4. \A t \in Kind : pool[t] + HeldCopies(handIn, t) + LaidCopies(pengGang, Seats, t) <= SingleCount
      <4>1. Seats \ wrongGang = Seats
        BY <1>3
      <4> QED BY <1>6, <4>1 DEF TilesConserved, CopiesSeen
    <3>5. handIn \in [Seats -> Seq(Kind)] /\ pengGang \in [Seats -> Seq(Meld)] /\ wrongGang' = {}
      BY <1>3, <2>1 DEF TypeOK
    <3> QED BY <1>5, <1>6, <2>1, <2>3, <3>2, <3>3, <3>4, <3>5, DrawKeeps
  <2> QED BY <1>11, <2>2, <2>3 DEF ExecutePass
<1> QED BY <1>2, <1>9, <1>10, <1>11

\* The invariant is inductive, one action after the other.
LEMMA HandsStep ==
    ASSUME TypeOK, AskingInv, HandsInv, SingleCount = 4, [Next]_vars
    PROVE  HandsInv'
<1>1. CASE UNCHANGED vars
  BY <1>1 DEF vars, tiles, seating, asking, HandsInv, Starts, Cleared, DropSorted, WaitSorted,
              OwnDraw, Claims, Waiting, TilesConserved, CopiesSeen
<1>2. ASSUME NEW p \in Seats, NEW a \in ActionType, ConfirmIgnored(p, a)
      PROVE  HandsInv'
  <2>1. UNCHANGED <<pool, handIn, pengGang, wrongGang, ready, getStartDone, bankerPos,
                    chooseList, playState, waitList, askedDrop>>
    BY <1>2 DEF ConfirmIgnored, tiles, seating
  <2>2. Starts' /\ DropSorted'
    BY <2>1 DEF HandsInv, Starts, Cleared, DropSorted
  <2>3. WaitSorted'
    BY <2>1 DEF HandsInv, WaitSorted, OwnDraw, Claims, Waiting, CopiesSeen
  <2>4. TilesConserved'
    BY <2>1 DEF HandsInv, TilesConserved, CopiesSeen
  <2> QED BY <2>2, <2>3, <2>4 DEF HandsInv
<1>3. ASSUME Next
      PROVE  HandsInv'
  BY <1>2, <1>3, ReadyKeeps, StartDoneKeeps, DropKeeps, WaitKeeps, LastKeeps, HuKeeps,
     ContinueKeeps DEF Next
<1> QED BY <1>1, <1>3

\* It holds before the first hand.
LEMMA HandsInit ==
    ASSUME Init
    PROVE  HandsInv
<1>1. Starts
  BY DEF Init, Starts, Cleared
<1>2. DropSorted /\ WaitSorted
  BY DEF Init, DropSorted, WaitSorted, Waiting, NobodyWaits
<1>3. TilesConserved
  <2> SUFFICES ASSUME NEW t \in Kind
               PROVE  CopiesSeen(t, Seats \ wrongGang) <= SingleCount
    BY DEF TilesConserved
  <2>1. handIn \in [Seats -> Seq(Kind)] /\ \A p \in Seats : Len(handIn[p]) = 0
    BY EmptySeq DEF Init
  <2>2. HeldCopies(handIn, t) = 0
    BY <2>1, NothingHeld
  <2>3. LaidCopies(pengGang, Seats, t) = 0
    BY NothingLaid DEF Init
  <2>4. Seats \ wrongGang = Seats /\ pool[t] = 0
    BY DEF Init
  <2>5. CopiesSeen(t, Seats \ wrongGang) = 0 + 0 + 0
    BY <2>2, <2>3, <2>4 DEF CopiesSeen
  <2> QED BY <2>5, ConstantsAssumption
<1> QED BY <1>1, <1>2, <1>3 DEF HandsInv

\* The invariant of all of it: with four copies of every tile (GameDefine.h) the
\* hands, melds and pool keep their shape.
HandsKept == SingleCount = 4 => HandsInv

LEMMA HandsCorrect == Spec => []HandsKept
<1>1. Init => HandsKept
  BY HandsInit DEF HandsKept
<1>2. TypeOK /\ AskingInv /\ HandsKept /\ [Next]_vars => HandsKept'
  BY HandsStep DEF HandsKept
<1> QED BY <1>1, <1>2, TypeCorrect, AskingCorrect, PTL DEF Spec

\* No tile is in two places, for any number of players, kinds of tiles, deals and
\* winning rules, when there are four copies of a tile.
THEOREM TilesAreConserved == Spec => [](SingleCount = 4 => TilesConserved)
<1>1. TypeOK /\ AskingInv /\ HandsKept => (SingleCount = 4 => TilesConserved)
  BY DEF HandsKept, HandsInv
<1> QED BY <1>1, TypeCorrect, AskingCorrect, HandsCorrect, PTL

\* Hands are sorted, but for the tile just drawn, whenever a helper looks for
\* adjacent copies in them.
THEOREM HandsAreReordered == Spec => [](SingleCount = 4 => HandsReordered)
<1>1. TypeOK /\ AskingInv /\ HandsKept => (SingleCount = 4 => HandsReordered)
  <2> SUFFICES ASSUME TypeOK, AskingInv, HandsInv, InPlay, NEW p \in Seats
               PROVE  IF HoldsTurn(p) THEN IsReordered(Front(handIn[p]))
                      ELSE IsReordered(handIn[p])
    BY DEF HandsKept, HandsReordered
  <2>1. handIn[p] \in Seq(Kind)
    BY DEF TypeOK
  <2>2. IF HoldsTurn(p) THEN FrontReordered(handIn[p]) ELSE IsReordered(handIn[p])
    <3>1. CASE playState = "MPS_NORMAL_GAMING"
      <4>1. waitList[p] = NoWait
        BY <3>1 DEF AskingInv, WaitersAreAsked, Waiting
      <4>2. waitList[p].dropped # p
        BY <4>1, ConstantsAssumption DEF NoWait, Seats
      <4> QED BY <3>1, <4>2 DEF HandsInv, DropSorted, HoldsTurn
    <3>2. ASSUME NEW q \in Seats, Waiting(q)
          PROVE  IF HoldsTurn(p) THEN FrontReordered(handIn[p]) ELSE IsReordered(handIn[p])
      <4>1. playState = "MPS_WAIT_FOR_ACTION" /\ askedDrop[p] = {}
        BY <3>2 DEF AskingInv, WaitersAreAsked, DropsAlone
      <4>2. OwnDraw(q) \/ Claims(q)
        BY <3>2 DEF HandsInv, WaitSorted
      <4>3. IsReordered(handIn[p]) => FrontReordered(handIn[p])
        BY <2>1, SortedIsFront
      <4>4. CASE OwnDraw(q)
        <5>1. CASE p = q
          BY <4>4, <5>1 DEF OwnDraw, HoldsTurn
        <5>2. CASE p # q
          BY <4>3, <4>4, <5>2 DEF OwnDraw
        <5> QED BY <5>1, <5>2
      <4>5. CASE Claims(q)
        BY <4>3, <4>5 DEF Claims
      <4> QED BY <4>2, <4>4, <4>5
    <3> QED BY <3>1, <3>2 DEF InPlay
  <2>3. FrontReordered(handIn[p]) => IsReordered(Front(handIn[p]))
    <3>1. Front(handIn[p]) = SubSeq(handIn[p], 1, Len(handIn[p]) - 1)
      BY DEF Front
    <3>2. Len(handIn[p]) \in Nat /\ handIn[p] \in Seq(Kind)
      BY <2>1, LenProperties
    <3>3. /\ DOMAIN SubSeq(handIn[p], 1, Len(handIn[p]) - 1) = 1 .. Len(handIn[p]) - 1
          /\ \A i \in 1 .. Len(handIn[p]) - 1 :
               SubSeq(handIn[p], 1, Len(handIn[p]) - 1)[i] = handIn[p][i]
      BY <3>2
    <3> QED BY <3>1, <3>3 DEF IsReordered, FrontReordered
  <2> QED BY <2>2, <2>3
<1> QED BY <1>1, TypeCorrect, AskingCorrect, HandsCorrect, PTL

\* One player at most is offered the peng or the gang of a discard: two players
\* would hold two copies each, the discard being the fifth.
THEOREM OnlyOneClaims == Spec => [](SingleCount = 4 => OneClaimer)
<1>1. TypeOK /\ AskingInv /\ HandsKept => (SingleCount = 4 => OneClaimer)
  <2> SUFFICES ASSUME TypeOK, AskingInv, HandsInv, SingleCount = 4,
                      NEW p \in Seats, NEW q \in Seats, p # q,
                      waitList[p].actions \cap {AT_GANG, AT_PENG} # {},
                      waitList[q].actions \cap {AT_GANG, AT_PENG} # {}
               PROVE  FALSE
    BY DEF HandsKept, OneClaimer
  <2>1. Waiting(p) /\ Waiting(q)
    BY DEF Waiting, NoWait
  <2>2. Claims(p) /\ Claims(q)
    BY <2>1 DEF HandsInv, WaitSorted, OwnDraw
  <2>3. PICK t \in Kind : t = waitList[p].mah
    BY <2>1, WaitingType
  <2>4. waitList[q].mah = t
    BY <2>1, <2>2, <2>3 DEF Claims
  <2>5. \A r \in {p, q} : CountOf(handIn[r], t) >= 2
    <3> SUFFICES ASSUME NEW r \in {p, q}
                 PROVE  CountOf(handIn[r], t) >= 2
      OBVIOUS
    <3>1. ClaimActions(handIn[r], t) \cap {AT_GANG, AT_PENG} # {}
      BY <2>2, <2>3, <2>4 DEF Claims
    <3>2. CanGang(handIn[r], t) \/ CanPeng(handIn[r], t)
      BY <3>1 DEF ClaimActions, AT_HU, AT_GANG, AT_PENG, AT_PASS
    <3> QED BY <3>2 DEF CanGang, CanPeng
  <2>6. CopiesSeen(t, Seats) < 4
    BY <2>2, <2>3 DEF Claims
  <2>7. PICK held, laid \in Nat :
           /\ CopiesSeen(t, Seats) = pool[t] + (held + CountOf(handIn[p], t)) +
                                       (laid + Cardinality(MeldTiles(pengGang[p], t)))
           /\ \A r \in Seats \ {p} : CountOf(handIn[r], t) <= held
           /\ pool[t] \in Nat
           /\ Cardinality(MeldTiles(pengGang[p], t)) \in Nat
    BY SeenSplit
  <2>8. CountOf(handIn[p], t) >= 2 /\ CountOf(handIn[q], t) >= 2 /\ CountOf(handIn[q], t) <= held
    BY <2>5, <2>7
  <2>9. CountOf(handIn[p], t) \in Nat /\ CountOf(handIn[q], t) \in Nat
    BY CountType DEF TypeOK
  <2> QED BY <2>6, <2>7, <2>8, <2>9
<1> QED BY <1>1, TypeCorrect, AskingCorrect, HandsCorrect, PTL

----------------------------------------------------------------------------
(* The sizes of the hands *)

\* The constants of GameDefine.h that sizes depend on, and the banker of the
\* first full room, who has seat 0.
FullRoom ==
    /\ SingleCount = 4
    /\ \E melds \in Nat : HandCount = 3 * melds + 2
    /\ FirstBankers = {0}

\* A hand with its melds, every meld counted as three tiles.
SizeOf(p) == Len(handIn[p]) + 3 * Len(pengGang[p])

Turn(p) == \A r \in Seats : SizeOf(r) = IF r = p THEN HandCount ELSE HandCount - 1
NobodysTurn == \A r \in Seats : SizeOf(r) = HandCount - 1

\* The strengthening: whose turn it is while the start hands are shown, while a
\* discard is due, and while players decide.
StartSizes == playState = "MPS_GET_START" /\ bankerPos # -1 => Turn(bankerPos)

DropDue ==
    playState = "MPS_NORMAL_GAMING" =>
        \/ crashed /\ \A p \in Seats : askedDrop[p] = {}
        \/ \E p \in Seats : /\ askedDrop[p] # {} /\ askedDrop[p] \subseteq DOMAIN handIn[p]
                            /\ Turn(p)

WaitSizes ==
    \A q \in Seats : Waiting(q) => IF waitList[q].dropped = q THEN Turn(q) ELSE NobodysTurn

SizesInv == StartSizes /\ DropDue /\ WaitSizes

\* A draw gives the turn to the player that draws.
LEMMA DrawSizes ==
    ASSUME TypeOK, NEW q \in Seats, NEW hands \in [Seats -> Seq(Kind)],
           NEW melds \in [Seats -> Seq(Meld)],
           NEW drops \in [Seats -> SUBSET Nat], NEW answers, NEW confirming \in BOOLEAN,
           \A p \in Seats : drops[p] = {},
           confirming \/ \A p \in Seats : ~Waiting(p),
           RequestMahjong(q, hands, melds, drops, answers, confirming),
           pengGang' = melds,
           \A r \in Seats : Len(hands[r]) + 3 * Len(melds[r]) = HandCount - 1
    PROVE  SizesInv'
<1>1. CASE Drained(hands)
  BY <1>1 DEF SizesInv, StartSizes, DropDue, WaitSizes, Waiting, Drained
<1>2. ASSUME NEW t \in Kind, Drawn(q, hands, melds, confirming, t)
      PROVE  SizesInv'
  <2> DEFINE h == Append(hands[q], t)
             acts == SelfActions(h, melds[q], t)
             info == [dropped |-> q, mah |-> t, actions |-> acts, confirmed |-> AT_MAX]
  <2>1. /\ handIn' = [hands EXCEPT ![q] = h]
        /\ \A p \in Seats \ {q} : waitList'[p] = NoWait
        /\ \/ /\ playState' = "MPS_NORMAL_GAMING"
              /\ waitList'[q] = NoWait
              /\ askedDrop'[q] # {} /\ askedDrop'[q] \subseteq DOMAIN h
           \/ /\ playState' = "MPS_WAIT_FOR_ACTION"
              /\ waitList'[q] = NoWait
           \/ /\ playState' = "MPS_WAIT_FOR_ACTION"
              /\ waitList'[q] = info
    BY <1>2 DEF Drawn
  <2>2. h \in Seq(Kind) /\ Len(h) = Len(hands[q]) + 1
    BY AppendProperties
  <2>3. info.dropped = q
    OBVIOUS
  <2> HIDE DEF h, info, acts
  <2>4. handIn'[q] = h /\ \A r \in Seats \ {q} : handIn'[r] = hands[r]
    BY <2>1
  <2>5. Turn(q)'
    <3>1. ASSUME NEW r \in Seats
          PROVE  Len(handIn'[r]) + 3 * Len(pengGang'[r]) =
                   IF r = q THEN HandCount ELSE HandCount - 1
      <4>1. /\ Len(hands[r]) \in Nat /\ Len(melds[r]) \in Nat
            /\ Len(hands[r]) + 3 * Len(melds[r]) = HandCount - 1
        BY LenProperties
      <4>2. CASE r = q
        <5>1. Len(handIn'[r]) = Len(hands[r]) + 1 /\ pengGang'[r] = melds[r]
          BY <2>2, <2>4, <4>2
        <5> QED BY <4>1, <4>2, <5>1, ConstantsAssumption
      <4>3. CASE r # q
        <5>1. Len(handIn'[r]) = Len(hands[r]) /\ pengGang'[r] = melds[r]
          BY <2>4, <4>3
        <5> QED BY <4>1, <4>3, <5>1
      <4> QED BY <4>2, <4>3
    <3> QED BY <3>1 DEF Turn, SizeOf
  <2>6. DropDue'
    BY <2>1, <2>4, <2>5 DEF DropDue
  <2>7. WaitSizes'
    BY <2>1, <2>3, <2>5 DEF WaitSizes, Waiting
  <2>8. StartSizes'
    BY <2>1 DEF StartSizes
  <2> QED BY <2>6, <2>7, <2>8 DEF SizesInv
<1>3. Drained(hands) \/ \E t \in Kind : Drawn(q, hands, melds, confirming, t)
  BY DrawEffect
<1> QED BY <1>1, <1>2, <1>3

\* Once all start hands are shown it is the banker's turn; without a banker the
\* server crashes.
LEMMA StartHandSizes ==
    ASSUME TypeOK, NEW done, NEW hands \in [Seats -> Seq(Kind)],
           \A p \in Seats : askedDrop[p] = {} /\ ~Waiting(p)',
           StartHand(done, hands), handIn' = hands, bankerPos' = bankerPos,
           \A p \in Seats : pengGang'[p] = <<>>,
           bankerPos # -1 => \A p \in Seats :
               Len(hands[p]) = IF p = bankerPos THEN HandCount ELSE HandCount - 1
    PROVE  SizesInv'
<1>1. \A p \in Seats : SizeOf(p)' = Len(hands[p])
  <2> SUFFICES ASSUME NEW p \in Seats
               PROVE  Len(handIn'[p]) + 3 * Len(pengGang'[p]) = Len(hands[p])
    BY DEF SizeOf
  <2>1. Len(hands[p]) \in Nat /\ Len(<<>>) = 0
    BY LenProperties, EmptySeq
  <2>2. Len(handIn'[p]) = Len(hands[p]) /\ Len(pengGang'[p]) = 0
    BY <2>1
  <2> QED BY <2>1, <2>2
<1>2. bankerPos # -1 => Turn(bankerPos)'
  BY <1>1 DEF Turn
<1>3. WaitSizes'
  BY DEF WaitSizes
<1>4. CASE playState' = "MPS_GET_START"
  BY <1>2, <1>3, <1>4 DEF SizesInv, StartSizes, DropDue
<1>5. CASE AllPlayerGetStartDone(hands)
  <2>1. /\ playState' = "MPS_NORMAL_GAMING" /\ crashed' = (bankerPos = -1)
        /\ askedDrop' = IF bankerPos = -1 THEN askedDrop
                        ELSE AskDrop(askedDrop, bankerPos, hands[bankerPos])
    BY <1>5 DEF AllPlayerGetStartDone
  <2>2. CASE bankerPos = -1
    <3>1. crashed' /\ \A p \in Seats : askedDrop'[p] = {}
      BY <2>1, <2>2
    <3> QED BY <1>3, <2>1, <3>1 DEF SizesInv, StartSizes, DropDue
  <2>3. CASE bankerPos # -1
    <3>1. bankerPos \in Seats /\ Len(hands[bankerPos]) = HandCount
      BY <2>3 DEF TypeOK
    <3>2. hands[bankerPos] # <<>> /\ askedDrop \in [Seats -> SUBSET Nat]
      BY <3>1, EmptySeq, ConstantsAssumption DEF TypeOK
    <3>3. /\ AskDrop(askedDrop, bankerPos, hands[bankerPos])[bankerPos] # {}
          /\ AskDrop(askedDrop, bankerPos, hands[bankerPos])[bankerPos]
               \subseteq DOMAIN hands[bankerPos]
      BY <3>1, <3>2, AskDropType
    <3>4. askedDrop'[bankerPos] # {} /\ askedDrop'[bankerPos] \subseteq DOMAIN handIn'[bankerPos]
      BY <2>1, <2>3, <3>3
    <3>5. DropDue'
      BY <1>2, <2>3, <3>1, <3>4 DEF DropDue
    <3> QED BY <1>3, <2>1, <3>5 DEF SizesInv, StartSizes
  <2> QED BY <2>2, <2>3
<1> QED BY <1>4, <1>5 DEF StartHand

\* Getting ready deals the banker one tile more, from seat 0.
LEMMA ReadySizes ==
    ASSUME TypeOK, AskingInv, HandsInv, FullRoom,
           NEW p \in Seats, NEW r \in BOOLEAN, PlayerReady(p, r)
    PROVE  SizesInv'
<1>1. /\ playState = "MPS_WAITING" \/ (playState = "MPS_ENDING" /\ p \in chooseList)
      /\ UNCHANGED <<pengGang, wrongGang, bankerPos, chooseList, waitList>>
  BY DEF PlayerReady
<1>2. /\ bankerPos \in FirstBankers \cup {-1}
      /\ playState = "MPS_WAITING" => /\ pool = [t \in Kind |-> 0]
                                      /\ \A q \in Seats : Cleared(q)
      /\ playState = "MPS_ENDING" => /\ chooseList # Seats
                                     /\ \A q \in Seats : ready[q] => q \in chooseList
  BY DEF HandsInv, Starts
<1>3. \A q \in Seats : ~Waiting(q)' /\ askedDrop[q] = {}
  BY <1>1 DEF AskingInv, WaitersAreAsked, DropsAlone, Waiting
<1>4. CASE playState' = playState
  BY <1>1, <1>3, <1>4 DEF SizesInv, StartSizes, DropDue, WaitSizes
<1>5. CASE (\A q \in Seats : IF q = p THEN r ELSE ready[q]) /\ StartGame
  <2>1. playState = "MPS_WAITING"
    <3>1. playState = "MPS_ENDING" => \A q \in Seats : q \in chooseList
      BY <1>1, <1>2, <1>5
    <3> QED BY <1>1, <1>2, <3>1 DEF TypeOK
  <2>2. \A q \in Seats : handIn[q] = <<>> /\ ~getStartDone[q] /\ pengGang[q] = <<>>
    BY <1>2, <2>1 DEF Cleared
  <2>3. PICK done, hands :
           /\ hands \in [Seats -> Seq(Kind)] /\ handIn' = hands /\ StartHand(done, hands)
           /\ bankerPos # -1 => \A q \in Seats :
                Len(hands[q]) = IF DealIndex(q) = bankerPos THEN HandCount ELSE HandCount - 1
    BY <1>2, <1>5, <2>1, <2>2, StartEffect
  <2>4. bankerPos # -1 => \A q \in Seats :
           Len(hands[q]) = IF q = bankerPos THEN HandCount ELSE HandCount - 1
    <3> SUFFICES ASSUME bankerPos # -1
                 PROVE  \A q \in Seats : DealIndex(q) = q
      BY <2>3
    <3>1. bankerPos = 0 /\ bankerPos \in Seats
      BY <1>2 DEF FullRoom, TypeOK
    <3> QED BY <3>1, DealIndexMoves
  <2> QED BY <1>1, <1>3, <2>2, <2>3, <2>4, StartHandSizes
<1> QED BY <1>4, <1>5 DEF PlayerReady

\* When the last start hand is shown the banker is asked to discard or to decide.
LEMMA StartDoneSizes ==
    ASSUME TypeOK, AskingInv, HandsInv, SizesInv, NEW p \in Seats, PlayerGetStartDone(p)
    PROVE  SizesInv'
<1> DEFINE done == [getStartDone EXCEPT ![p] = TRUE]
           hands == [handIn EXCEPT ![p] = Reordered(@)]
<1>1. /\ playState = "MPS_GET_START"
      /\ handIn' = hands /\ StartHand(done, hands)
      /\ UNCHANGED <<pengGang, bankerPos, waitList>>
  BY DEF PlayerGetStartDone
<1>2. \A q \in Seats : pengGang[q] = <<>>
  BY <1>1 DEF HandsInv, Starts
<1>3. \A q \in Seats : ~Waiting(q)' /\ askedDrop[q] = {}
  BY <1>1 DEF AskingInv, WaitersAreAsked, DropsAlone, Waiting
<1>4. hands \in [Seats -> Seq(Kind)] /\ \A q \in Seats : Len(hands[q]) = Len(handIn[q])
  <2>1. \A q \in Seats : Reordered(handIn[q]) \in Seq(Kind) /\ Len(Reordered(handIn[q])) = Len(handIn[q])
    BY ReorderedType DEF TypeOK
  <2> QED BY <2>1 DEF TypeOK
<1>5. bankerPos # -1 => \A q \in Seats :
         Len(hands[q]) = IF q = bankerPos THEN HandCount ELSE HandCount - 1
  <2> SUFFICES ASSUME bankerPos # -1, NEW q \in Seats
               PROVE  Len(handIn[q]) = IF q = bankerPos THEN HandCount ELSE HandCount - 1
    BY <1>4
  <2>1. Len(handIn[q]) + 3 * Len(pengGang[q]) = IF q = bankerPos THEN HandCount ELSE HandCount - 1
    BY <1>1 DEF SizesInv, StartSizes, Turn, SizeOf
  <2>2. Len(pengGang[q]) = 0 /\ Len(handIn[q]) \in Nat
    BY <1>2, EmptySeq, LenProperties DEF TypeOK
  <2> QED BY <2>1, <2>2
<1> HIDE DEF done, hands
<1> QED BY <1>1, <1>2, <1>3, <1>4, <1>5, StartHandSizes

\* A discard ends the turn of the player that had it.
LEMMA DropSizes ==
    ASSUME TypeOK, AskingInv, SizesInv, NEW p \in Seats, NEW i, RequestDrop(p, i)
    PROVE  SizesInv'
<1> DEFINE h == handIn[p]
           g == Reordered(RemoveAt(h, i))
           hands == [handIn EXCEPT ![p] = g]
           drops == [askedDrop EXCEPT ![p] = {}]
           t == h[i]
           acts == [q \in Seats |-> IF q = p THEN {} ELSE ClaimActions(handIn[q], t)]
           claimers == {q \in Seats : acts[q] # {}}
           Info(q) == [dropped |-> p, mah |-> t, actions |-> acts[q], confirmed |-> AT_MAX]
           Listed == [q \in Seats |-> IF q \in claimers /\ ~Waiting(q) THEN Info(q)
                                      ELSE waitList[q]]
<1>0. /\ i \in askedDrop[p] \cap DOMAIN h
      /\ playState = "MPS_NORMAL_GAMING"
      /\ pengGang' = pengGang
      /\ \/ /\ playState' = "MPS_WAIT_FOR_ACTION"
            /\ waitList' = Listed
            /\ handIn' = hands
         \/ RequestMahjong(NextSeat(p), hands, pengGang, drops, askedAction, FALSE)
  BY DEF RequestDrop
<1>10. /\ \A q \in Seats : Listed[q] = waitList[q] \/ Listed[q].dropped = p
      /\ Listed[p] = waitList[p]
  <2>1. \A q \in Seats : Info(q).dropped = p
    OBVIOUS
  <2>2. p \notin claimers
    OBVIOUS
  <2> HIDE DEF Info, claimers
  <2> QED BY <2>1, <2>2
<1> HIDE DEF Listed, hands, drops
<1>1. /\ i \in askedDrop[p] \cap DOMAIN h
      /\ playState = "MPS_NORMAL_GAMING"
      /\ pengGang' = pengGang
      /\ \/ /\ playState' = "MPS_WAIT_FOR_ACTION"
            /\ \A q \in Seats : waitList'[q] = waitList[q] \/ waitList'[q].dropped = p
            /\ waitList'[p] = waitList[p]
            /\ handIn' = hands
         \/ RequestMahjong(NextSeat(p), hands, pengGang, drops, askedAction, FALSE)
  BY <1>0, <1>10
<1>2. h \in Seq(Kind) /\ i \in 1 .. Len(h)
  BY <1>1, LenProperties DEF TypeOK
<1>3. /\ \A q \in Seats \ {p} : askedDrop[q] = {}
      /\ \A q \in Seats : waitList[q] = NoWait
  BY <1>1 DEF AskingInv, DropsAlone, WaitersAreAsked, Waiting
<1>4. Turn(p)
  BY <1>1, <1>3 DEF SizesInv, DropDue
<1> HIDE DEF h
<1>5. g \in Seq(Kind) /\ Len(g) = Len(h) - 1
  <2>1. RemoveAt(h, i) \in Seq(Kind) /\ Len(RemoveAt(h, i)) = Len(h) - 1
    BY <1>2, RemoveAtType
  <2> QED BY <2>1, ReorderedType
<1> HIDE DEF g
<1> USE DEF hands
<1>6. hands \in [Seats -> Seq(Kind)] /\ hands[p] = g /\ \A q \in Seats \ {p} : hands[q] = handIn[q]
  BY <1>5 DEF TypeOK
<1> HIDE DEF hands
<1>7. ASSUME NEW r \in Seats
      PROVE  Len(hands[r]) + 3 * Len(pengGang[r]) = HandCount - 1
  <2>1. Len(handIn[r]) + 3 * Len(pengGang[r]) = IF r = p THEN HandCount ELSE HandCount - 1
    BY <1>4 DEF Turn, SizeOf
  <2>2. Len(handIn[r]) \in Nat /\ Len(pengGang[r]) \in Nat
    BY LenProperties DEF TypeOK
  <2>3. CASE r = p
    <3>1. Len(hands[r]) = Len(handIn[r]) - 1
      BY <1>5, <1>6, <2>3 DEF h
    <3>2. Len(handIn[r]) + 3 * Len(pengGang[r]) = HandCount
      BY <2>1, <2>3
    <3>3. HandCount \in Nat
      BY ConstantsAssumption
    <3>4. PICK x, y, z \in Int : x = Len(handIn[r]) /\ y = Len(pengGang[r]) /\ z = Len(hands[r])
      BY <2>2, <3>1
    <3>5. z = x - 1 /\ x + 3 * y = HandCount
      BY <3>1, <3>2, <3>4
    <3>6. z + 3 * y = HandCount - 1
      BY <3>3, <3>5
    <3> QED BY <3>4, <3>6
  <2>4. CASE r # p
    <3>1. Len(hands[r]) = Len(handIn[r])
      BY <1>6, <2>4
    <3> QED BY <2>1, <2>2, <2>4, <3>1, ConstantsAssumption
  <2> QED BY <2>3, <2>4
<1>8. CASE RequestMahjong(NextSeat(p), hands, pengGang, drops, askedAction, FALSE)
  <2>1. NextSeat(p) \in Seats
    BY ConstantsAssumption DEF NextSeat, Seats
  <2>2. drops \in [Seats -> SUBSET Nat] /\ \A q \in Seats : drops[q] = {}
    BY <1>3 DEF TypeOK, drops
  <2>3. pengGang \in [Seats -> Seq(Meld)] /\ FALSE \in BOOLEAN
    BY DEF TypeOK
  <2>4. \A q \in Seats : ~Waiting(q)
    BY <1>3 DEF Waiting
  <2> QED BY <1>1, <1>6, <1>7, <1>8, <2>1, <2>2, <2>3, <2>4, DrawSizes
<1>9. CASE /\ playState' = "MPS_WAIT_FOR_ACTION"
           /\ \A q \in Seats : waitList'[q] = waitList[q] \/ waitList'[q].dropped = p
           /\ waitList'[p] = waitList[p]
           /\ handIn' = hands
  <2>1. NobodysTurn'
    BY <1>1, <1>7, <1>9 DEF NobodysTurn, SizeOf
  <2>2. WaitSizes'
    BY <1>3, <1>9, <2>1 DEF WaitSizes, Waiting
  <2> QED BY <1>9, <2>2 DEF SizesInv, StartSizes, DropDue
<1> QED BY <1>1, <1>8, <1>9

\* Laying down a gang of one's own draw takes the tile of the turn; a peng of a
\* discard adds it, and a discard is due; after a claimed gang nobody has the turn
\* until the next tile is drawn.
LEMMA LastSizes ==
    ASSUME TypeOK, AskingInv, HandsInv, SizesInv, FullRoom,
           NEW p \in Seats, NEW a \in ActionType, ConfirmLast(p, a)
    PROVE  SizesInv'
<1>0. PICK q \in Seats : \E answers : Chosen(q, answers)
  BY LastChoice
<1>1. PICK answers :
         /\ Waiting(q) /\ (OwnDraw(q) \/ Claims(q)) /\ wrongGang = {}
         /\ \/ AT_GANG \in waitList[q].actions /\ ExecuteGang(q, waitList[q], answers)
            \/ AT_PENG \in waitList[q].actions /\ ExecutePeng(q, waitList[q], answers)
            \/ AT_PASS \in waitList[q].actions /\ ExecutePass(q, waitList[q], answers)
  BY <1>0 DEF Chosen
<1>2. /\ wrongGang = {} /\ (OwnDraw(q) \/ Claims(q))
      /\ SingleCount = 4 /\ TilesConserved
  BY <1>1 DEF FullRoom, HandsInv
<1>3. \A r \in Seats : askedDrop[r] = {}
  BY <1>1, WaitingBetween
<1>4. /\ OwnDraw(q) => Turn(q)
      /\ Claims(q) => NobodysTurn
  BY <1>1 DEF SizesInv, WaitSizes, OwnDraw, Claims
<1>5. /\ handIn \in [Seats -> Seq(Kind)] /\ pengGang \in [Seats -> Seq(Meld)]
      /\ askedDrop \in [Seats -> SUBSET Nat] /\ TRUE \in BOOLEAN
      /\ waitList[q].dropped \in Seats /\ waitList[q].mah \in Kind
  BY <1>1, WaitingType DEF TypeOK
<1>6. ASSUME AT_GANG \in waitList[q].actions, ExecuteGang(q, waitList[q], answers)
      PROVE  SizesInv'
  <2>1. /\ pengGang' = MeldsWithGang(q)
        /\ wrongGang' = IF OwnsGang(q) THEN wrongGang ELSE wrongGang \cup {q}
        /\ RequestMahjong(q, GangHands(q), MeldsWithGang(q), askedDrop, answers, TRUE)
    BY <1>6 DEF ExecuteGang, MeldsWithGang, GangHands, OwnsGang
  <2>2. CASE ~OwnsGang(q)
    <3>1. OwnDraw(q)
      BY <1>2, <2>2 DEF Claims, OwnsGang
    <3>2. wrongGang' = {q}
      BY <1>2, <2>1, <2>2
    <3>3. /\ playState' \in {"MPS_WAIT_FOR_ACTION", "MPS_ENDING"}
          /\ \A r \in Seats : ~Waiting(r)'
      BY <1>1, <1>2, <1>3, <1>6, <2>1, <2>2, <3>1, <3>2, WrongGangDraw
    <3> QED BY <3>3 DEF SizesInv, StartSizes, DropDue, WaitSizes
  <2>3. CASE OwnsGang(q)
    <3>1. GangHands(q) \in [Seats -> Seq(Kind)] /\ MeldsWithGang(q) \in [Seats -> Seq(Meld)]
      <4>1. (waitList[q].dropped = q) \in BOOLEAN
        OBVIOUS
      <4>2. handIn[q] \in Seq(Kind) /\ pengGang[q] \in Seq(Meld)
        BY <1>5
      <4>3. /\ GangHand(handIn[q], pengGang[q], waitList[q].mah, waitList[q].dropped = q) \in Seq(Kind)
            /\ GangMelds(pengGang[q], waitList[q].mah) \in Seq(Meld)
        BY <1>5, <4>1, <4>2, GangType
      <4> QED BY <1>5, <4>3 DEF GangHands, MeldsWithGang
    <3>2. \A r \in Seats \ {q} :
             GangHands(q)[r] = handIn[r] /\ MeldsWithGang(q)[r] = pengGang[r] /\ SizeOf(r) = HandCount - 1
      BY <1>2, <1>4, <1>5 DEF GangHands, MeldsWithGang, Turn, NobodysTurn
    <3>3. Len(GangHands(q)[q]) + 3 * Len(MeldsWithGang(q)[q]) = HandCount - 1
      <4>1. CASE OwnDraw(q)
        <5>1. Len(GangHands(q)[q]) + 3 * Len(MeldsWithGang(q)[q]) = SizeOf(q) - 1
          <6>1. Len(GangHands(q)[q]) + 3 * Len(MeldsWithGang(q)[q]) =
                  Len(handIn[q]) + 3 * Len(pengGang[q]) - 1
            <7>1. Waiting(q) /\ wrongGang = {} /\ SingleCount = 4 /\ TilesConserved
              BY <1>1, <1>2
            <7> QED BY <2>3, <4>1, <7>1, OwnGangEffect
          <6>2. Len(handIn[q]) \in Nat /\ Len(pengGang[q]) \in Nat
            BY <1>5, LenProperties
          <6>3. PICK x, y \in Int : x = Len(handIn[q]) /\ y = Len(pengGang[q])
            BY <6>2
          <6>4. x + (3 * y - 1) = (x + 3 * y) - 1
            OBVIOUS
          <6> QED BY <6>1, <6>3, <6>4 DEF SizeOf
        <5>2. SizeOf(q) = HandCount
          BY <1>4, <4>1 DEF Turn
        <5> QED BY <5>1, <5>2
      <4>2. CASE Claims(q)
        <5>1. Len(GangHands(q)[q]) + 3 * Len(MeldsWithGang(q)[q]) = SizeOf(q)
          BY <1>1, <1>2, <1>6, <4>2, ClaimedGangEffect DEF SizeOf
        <5>2. SizeOf(q) = HandCount - 1
          BY <1>4, <4>2 DEF NobodysTurn
        <5> QED BY <5>1, <5>2
      <4> QED BY <1>2, <4>1, <4>2
    <3>4. \A r \in Seats : Len(GangHands(q)[r]) + 3 * Len(MeldsWithGang(q)[r]) = HandCount - 1
      BY <3>2, <3>3 DEF SizeOf
    <3> QED BY <1>3, <1>5, <2>1, <3>1, <3>4, DrawSizes
  <2> QED BY <2>2, <2>3
<1>7. ASSUME AT_PENG \in waitList[q].actions, ExecutePeng(q, waitList[q], answers)
      PROVE  SizesInv'
  <2>1. /\ playState' = "MPS_NORMAL_GAMING"
        /\ handIn' = HandsAfterPeng(q) /\ pengGang' = MeldsWithPeng(q)
        /\ waitList' = NobodyWaits
        /\ askedDrop' = AskDrop(askedDrop, q, HandsAfterPeng(q)[q])
    <3>1. HandsAfterPeng(q)[q] = PengHand(handIn[q], waitList[q].mah)
      BY <1>5 DEF HandsAfterPeng
    <3> QED BY <1>7, <3>1 DEF ExecutePeng, HandsAfterPeng, MeldsWithPeng
  <2>2. Claims(q)
    BY <1>2, <1>7 DEF OwnDraw, SelfActions, AT_HU, AT_GANG, AT_PENG, AT_PASS
  <2>3. /\ HandsAfterPeng(q) \in [Seats -> Seq(Kind)]
        /\ Len(HandsAfterPeng(q)[q]) + 3 * Len(MeldsWithPeng(q)[q]) = SizeOf(q) + 1
    BY <1>1, <1>2, <1>7, <2>2, PengEffect DEF SizeOf
  <2>4. \A r \in Seats : SizeOf(r) = HandCount - 1
    BY <1>4, <2>2 DEF NobodysTurn
  <2>5. Len(HandsAfterPeng(q)[q]) + 3 * Len(MeldsWithPeng(q)[q]) = HandCount
    BY <2>3, <2>4, ConstantsAssumption
  <2>6. \A r \in Seats \ {q} : HandsAfterPeng(q)[r] = handIn[r] /\ MeldsWithPeng(q)[r] = pengGang[r]
    BY <1>5 DEF HandsAfterPeng, MeldsWithPeng
  <2>7. Turn(q)'
    BY <2>1, <2>4, <2>5, <2>6 DEF Turn, SizeOf
  <2>8. HandsAfterPeng(q)[q] # <<>>
    <3> SUFFICES ASSUME HandsAfterPeng(q)[q] = <<>>
                 PROVE  FALSE
      OBVIOUS
    <3>1. Len(HandsAfterPeng(q)[q]) = 0
      BY EmptySeq
    <3>2. MeldsWithPeng(q)[q] \in Seq(Meld)
      <4>1. handIn[q] \in Seq(Kind) /\ pengGang[q] \in Seq(Meld)
        BY <1>5
      <4>2. PengMelds(pengGang[q], waitList[q].mah) \in Seq(Meld)
        BY <1>5, <4>1, PengType
      <4> QED BY <1>5, <4>2 DEF MeldsWithPeng
    <3>3. PICK k \in Nat : k = Len(MeldsWithPeng(q)[q])
      BY <3>2, LenProperties
    <3>4. HandCount = 3 * k
      BY <2>5, <3>1, <3>3
    <3>5. PICK m \in Nat : HandCount = 3 * m + 2
      BY DEF FullRoom
    <3> QED BY <3>3, <3>4, <3>5
  <2>9. askedDrop'[q] # {} /\ askedDrop'[q] \subseteq DOMAIN handIn'[q]
    <3>1. HandsAfterPeng(q)[q] \in Seq(Kind) /\ askedDrop[q] = {}
      BY <1>3, <2>3
    <3>2. /\ AskDrop(askedDrop, q, HandsAfterPeng(q)[q])[q] # {}
          /\ AskDrop(askedDrop, q, HandsAfterPeng(q)[q])[q] \subseteq DOMAIN HandsAfterPeng(q)[q]
      BY <1>5, <2>8, <3>1, AskDropType
    <3> QED BY <2>1, <3>2
  <2> QED BY <2>1, <2>7, <2>9 DEF SizesInv, StartSizes, DropDue, WaitSizes, Waiting, NobodyWaits
<1>8. ASSUME AT_PASS \in waitList[q].actions, ExecutePass(q, waitList[q], answers)
      PROVE  SizesInv'
  <2>1. pengGang' = pengGang
    BY <1>8 DEF ExecutePass
  <2>2. CASE /\ waitList[q].dropped = q
             /\ playState' = "MPS_NORMAL_GAMING"
             /\ askedDrop' = AskDrop(askedDrop, q, handIn[q])
             /\ waitList' = NobodyWaits
             /\ handIn' = handIn
    <3>1. OwnDraw(q)
      BY <1>2, <2>2 DEF Claims
    <3>2. handIn[q] # <<>> /\ handIn[q] \in Seq(Kind) /\ askedDrop[q] = {}
      BY <1>3, <1>5, <3>1 DEF OwnDraw
    <3>3. /\ AskDrop(askedDrop, q, handIn[q])[q] # {}
          /\ AskDrop(askedDrop, q, handIn[q])[q] \subseteq DOMAIN handIn[q]
      BY <1>5, <3>2, AskDropType
    <3>4. Turn(q)'
      BY <1>4, <2>1, <2>2, <3>1 DEF Turn, SizeOf
    <3>5. askedDrop'[q] # {} /\ askedDrop'[q] \subseteq DOMAIN handIn'[q]
      BY <2>2, <3>3
    <3> QED BY <2>2, <3>4, <3>5 DEF SizesInv, StartSizes, DropDue, WaitSizes, Waiting, NobodyWaits
  <2>3. CASE /\ waitList[q].dropped # q
             /\ RequestMahjong(NextSeat(waitList[q].dropped), handIn, pengGang, askedDrop,
                               answers, TRUE)
    <3>1. Claims(q)
      BY <1>2, <2>3 DEF OwnDraw
    <3>2. NextSeat(waitList[q].dropped) \in Seats
      <4>1. waitList[q].dropped \in Seats
        BY <1>5
      <4> QED BY <4>1, ConstantsAssumption DEF NextSeat, Seats
    <3>3. \A r \in Seats : Len(handIn[r]) + 3 * Len(pengGang[r]) = HandCount - 1
      BY <1>4, <3>1 DEF NobodysTurn, SizeOf
    <3> QED BY <1>3, <1>5, <2>1, <2>3, <3>2, <3>3, DrawSizes
  <2> QED BY <1>8, <2>2, <2>3 DEF ExecutePass
<1> QED BY <1>1, <1>6, <1>7, <1>8

\* The sizes are inductive on top of the other invariants.
LEMMA SizesStep ==
    ASSUME TypeOK, AskingInv, HandsInv, SizesInv, FullRoom, [Next]_vars
    PROVE  SizesInv'
<1>1. CASE UNCHANGED vars
  BY <1>1 DEF vars, tiles, seating, asking, SizesInv, StartSizes, DropDue, WaitSizes, Turn,
              NobodysTurn, SizeOf, Waiting
<1>2. ASSUME NEW p \in Seats, NEW a \in ActionType, ConfirmIgnored(p, a)
      PROVE  SizesInv'
  <2>1. UNCHANGED <<handIn, pengGang, bankerPos, playState, waitList, askedDrop, crashed>>
    BY <1>2 DEF ConfirmIgnored, tiles, seating
  <2> QED BY <2>1 DEF SizesInv, StartSizes, DropDue, WaitSizes, Turn, NobodysTurn, SizeOf, Waiting
<1>3. ASSUME NEW p \in Seats, NEW a \in ActionType, ConfirmAndWait(p, a)
      PROVE  SizesInv'
  <2>1. /\ a \in waitList[p].actions
        /\ waitList' = [waitList EXCEPT ![p].confirmed = a]
        /\ UNCHANGED <<handIn, pengGang, bankerPos, playState>>
    BY <1>3 DEF ConfirmAndWait, tiles, seating
  <2>2. Waiting(p)
    BY <2>1 DEF Waiting, NoWait
  <2>3. playState = "MPS_WAIT_FOR_ACTION"
    BY <2>2, WaitingBetween
  <2>4. waitList \in [Seats -> WaitActionInfo \cup {NoWait}] /\ waitList[p] \in WaitActionInfo
    BY <2>2 DEF TypeOK, Waiting
  <2>5. \A q \in Seats : waitList'[q].dropped = waitList[q].dropped /\ (Waiting(q)' => Waiting(q))
    <3>1. waitList'[p].dropped = waitList[p].dropped
      BY <2>1, <2>4 DEF WaitActionInfo
    <3>2. \A q \in Seats \ {p} : waitList'[q] = waitList[q]
      BY <2>1, <2>4
    <3> QED BY <2>2, <3>1, <3>2 DEF Waiting
  <2> QED BY <2>1, <2>3, <2>5 DEF SizesInv, StartSizes, DropDue, WaitSizes, Turn, NobodysTurn, SizeOf
<1>4. ASSUME NEW p \in Seats, ConfirmHu(p)
      PROVE  SizesInv'
  BY <1>4 DEF ConfirmHu, EndGame, SizesInv, StartSizes, DropDue, WaitSizes, Waiting, NobodyWaits
<1>5. ASSUME NEW p \in Seats, PlayerContinueGame(p)
      PROVE  SizesInv'
  <2>1. /\ playState = "MPS_ENDING"
        /\ playState' \in {"MPS_ENDING", "MPS_WAITING"}
        /\ waitList' = waitList \/ waitList' = NobodyWaits
    BY <1>5 DEF PlayerContinueGame
  <2>2. \A q \in Seats : waitList[q] = NoWait
    BY <2>1 DEF AskingInv, WaitersAreAsked, Waiting
  <2> QED BY <2>1, <2>2 DEF SizesInv, StartSizes, DropDue, WaitSizes, Waiting, NobodyWaits
<1>6. ASSUME Next
      PROVE  SizesInv'
  BY <1>2, <1>3, <1>4, <1>5, <1>6, ReadySizes, StartDoneSizes, DropSizes, LastSizes DEF Next
<1> QED BY <1>1, <1>6

SizesKept == FullRoom => SizesInv

LEMMA SizesCorrect == Spec => []SizesKept
<1>1. Init => SizesKept
  BY DEF SizesKept, Init, SizesInv, StartSizes, DropDue, WaitSizes, Waiting, NobodyWaits
<1>2. FullRoom => SingleCount = 4
  BY DEF FullRoom
<1>3. TypeOK /\ AskingInv /\ HandsKept /\ SizesKept /\ [Next]_vars => SizesKept'
  BY <1>2, SizesStep DEF HandsKept, SizesKept, FullRoom
<1> QED BY <1>1, <1>3, TypeCorrect, AskingCorrect, HandsCorrect, PTL DEF Spec

\* The player whose move it is holds one tile more than the others.
THEOREM HandsHaveTheirSize == Spec => [](FullRoom => HandSize)
<1>1. TypeOK /\ AskingInv /\ HandsKept /\ SizesKept => (FullRoom => HandSize)
  <2> SUFFICES ASSUME TypeOK, AskingInv, SizesInv, InPlay, ~crashed, NEW p \in Seats
               PROVE  SizeOf(p) = IF HoldsTurn(p) THEN HandCount ELSE HandCount - 1
    BY DEF SizesKept, HandSize, SizeOf
  <2>1. CASE playState = "MPS_NORMAL_GAMING"
    <3>1. waitList[p].dropped # p
      <4>1. waitList[p] = NoWait
        BY <2>1 DEF AskingInv, WaitersAreAsked, Waiting
      <4> QED BY <4>1, ConstantsAssumption DEF NoWait, Seats
    <3>2. PICK q \in Seats : askedDrop[q] # {} /\ Turn(q)
      BY <2>1 DEF SizesInv, DropDue
    <3>3. HoldsTurn(p) <=> p = q
      BY <3>1, <3>2 DEF HoldsTurn, AskingInv, DropsAlone
    <3> QED BY <3>2, <3>3 DEF Turn
  <2>2. ASSUME NEW q \in Seats, Waiting(q)
        PROVE  SizeOf(p) = IF HoldsTurn(p) THEN HandCount ELSE HandCount - 1
    <3>1. askedDrop[p] = {}
      BY <2>2, WaitingBetween
    <3>2. CASE waitList[p].dropped = p
      <4>1. Waiting(p)
        BY <3>2, ConstantsAssumption DEF Waiting, NoWait, Seats
      <4> QED BY <3>2, <4>1 DEF SizesInv, WaitSizes, Turn, HoldsTurn
    <3>3. CASE waitList[p].dropped # p
      <4>1. Turn(q) \/ NobodysTurn
        BY <2>2 DEF SizesInv, WaitSizes
      <4>2. p = q => NobodysTurn
        BY <2>2, <3>3 DEF SizesInv, WaitSizes
      <4> QED BY <3>1, <3>3, <4>1, <4>2 DEF Turn, NobodysTurn, HoldsTurn
    <3> QED BY <3>2, <3>3
  <2> QED BY <2>1, <2>2 DEF InPlay
<1> QED BY <1>1, TypeCorrect, AskingCorrect, HandsCorrect, SizesCorrect, PTL

\* A discard is asked of one player only, in the state for it, for a tile that
\* player holds; and in that state it is asked of somebody.
THEOREM DropsAreInTurn == Spec => [](FullRoom => DropTurn)
<1>1. AskingInv /\ SizesKept => (FullRoom => DropTurn)
  <2> SUFFICES ASSUME AskingInv, SizesInv
               PROVE  DropTurn
    BY DEF SizesKept
  <2>1. \A p \in Seats : askedDrop[p] # {} =>
           /\ playState = "MPS_NORMAL_GAMING"
           /\ \A q \in Seats \ {p} : askedDrop[q] = {}
    BY DEF AskingInv, DropsAlone
  <2>2. \A p \in Seats : askedDrop[p] # {} => askedDrop[p] \subseteq DOMAIN handIn[p]
    BY <2>1 DEF SizesInv, DropDue
  <2>3. playState = "MPS_NORMAL_GAMING" /\ ~crashed => \E p \in Seats : askedDrop[p] # {}
    BY DEF SizesInv, DropDue
  <2> QED BY <2>1, <2>2, <2>3 DEF DropTurn
<1> QED BY <1>1, AskingCorrect, SizesCorrect, PTL
=============================================================================
