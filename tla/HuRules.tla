------------------------------ MODULE HuRules ------------------------------
(***************************************************************************)
(* The pure rules of ServerUtility: which hands win, and what a winning    *)
(* hand is called.  Tiles are numbered in the order of the enum MAHJONG;   *)
(* the three suits have SuitSize tiles each, the winds follow.             *)
(***************************************************************************)
EXTENDS Integers, FiniteSets, Sequences, SequencesExt

CONSTANT SuitSize   \* tiles per suit, 9 in the enum

Suits == 3
MH_FENG == 0

\* A suit of winds has number 0, the suits of numbered tiles are 1, 2 and 3.
getHuaSe(m) == IF m > Suits * SuitSize THEN MH_FENG ELSE 1 + (m - 1) \div SuitSize

\* The tiles m, m+1 and m+2 of one suit, all in the group.
\* (Variant: the suits are not compared.)
isRunOfAnySuit(group, m) == {m, m + 1, m + 2} \subseteq BagToSet(group)
isShunzi(group, m) ==
    /\ {m, m + 1, m + 2} \subseteq BagToSet(group)
    /\ \A n \in m .. m + 2 : getHuaSe(n) = getHuaSe(m) /\ getHuaSe(n) # MH_FENG

\* What may remain of the group when a triplet or a run is taken out of it.
oneMeldLess(group) ==
    {group (-) [x \in {m} |-> 3] : m \in {n \in BagToSet(group) : group[n] >= 3}}
    \cup {group (-) SetToBag(m .. m + 2) : m \in {n \in BagToSet(group) : isShunzi(group, n)}}

\* Take melds out in every possible way, as long as more than two tiles remain;
\* two equal tiles must be left.  (The test for a missing suit reads a list that
\* getHuaseList only fills a copy of, so it rejects no hand.)
canHuGroup(group, count) ==
    LET left[n \in 0 .. count \div 3] ==
            IF n = 0 THEN {group} ELSE UNION {oneMeldLess(g) : g \in left[n - 1]}
    IN  \E m \in BagToSet(group) : [x \in {m} |-> 2] \in left[count \div 3]

canHu(handInMah) == canHuGroup(ToBag(handInMah), Len(handInMah))

\* The winning tile is put before the first tile that is not smaller; a tile
\* greater than all of the hand is left out.
withDrop(hand, drop) ==
    LET later == {i \in DOMAIN hand : hand[i] >= drop}
    IN  IF later = {} THEN hand ELSE InsertAt(hand, Min(later), drop)

\* One suit throughout the hand and the melds.  (Variant: the melds are forgotten.)
isQingYiSeHand(hand, melds) == \A i \in DOMAIN hand : getHuaSe(hand[i]) = getHuaSe(hand[1])
isQingYiSe(hand, melds) ==
    /\ \A i \in DOMAIN hand : getHuaSe(hand[i]) = getHuaSe(hand[1])
    /\ \A i \in DOMAIN melds : getHuaSe(melds[i]) = getHuaSe(hand[1])

\* Melds that are gangs and melds that are pengs swap their lists on the way to
\* isQingYiSe, which treats both alike.
generateHuType(hand, drop, melds, handInIncludeDrop) ==
    IF isQingYiSe(IF handInIncludeDrop THEN hand ELSE withDrop(hand, drop), melds)
    THEN {"HT_QINGYISE"} ELSE {"HT_NORMAL"}
=============================================================================
