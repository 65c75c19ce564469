----------------------------- MODULE MCHuRules -----------------------------
(***************************************************************************)
(* The winning rules of HuRules on every hand of a bounded size: a player  *)
(* collects tiles in ascending order, with at most one meld laid down, and *)
(* in every hand the rules are compared with what they stand for.          *)
(***************************************************************************)
EXTENDS HuRules

CONSTANTS
    Tiles,      \* the kinds of tiles collected
    MeldTiles,  \* the kinds a meld may be of
    MaxTiles    \* the size up to which hands are collected

ASSUME RulesAssumption ==
    /\ SuitSize \in Nat \ {0}
    /\ Tiles \subseteq Nat \ {0}
    /\ MaxTiles \in Nat

VARIABLES hand, melds

Init ==
    /\ hand = <<>>
    /\ melds \in {<<>>} \cup {<<t>> : t \in MeldTiles}

Collect(t) ==
    /\ Len(hand) < MaxTiles
    /\ hand # <<>> => t >= Last(hand)
    /\ Cardinality({i \in DOMAIN hand : hand[i] = t}) < 4
    /\ hand' = Append(hand, t)
    /\ UNCHANGED melds

Next == \E t \in Tiles : Collect(t)

Spec == Init /\ [][Next]_<<hand, melds>>

----------------------------------------------------------------------------
Copies(h, t) == Cardinality({i \in DOMAIN h : h[i] = t})

\* Where a run of one suit may start.
RunHeads == {t \in Tiles : {t + 1, t + 2} \subseteq Tiles
                           /\ t <= Suits * SuitSize
                           /\ (t - 1) \div SuitSize = (t + 1) \div SuitSize}

\* The runs that a tile of kind t lies in.
RunsFrom(runs, s) == IF s \in RunHeads THEN runs[s] ELSE 0
Taken(runs, t) == RunsFrom(runs, t) + RunsFrom(runs, t - 1) + RunsFrom(runs, t - 2)

\* A pair and otherwise runs and triplets, without any search order: some number
\* of runs from every head leaves of every kind nothing or a triplet, and a pair.
PairAndMelds(h) ==
    \E pair \in Tiles, runs \in [RunHeads -> 0 .. MaxTiles \div 3] :
        \A t \in Tiles :
            Copies(h, t) - Taken(runs, t) - (IF t = pair THEN 2 ELSE 0) \in {0, 3}

\* canHu (ServerUtility.cpp:141) backtracks over a list it edits in place and
\* restores; it accepts exactly the hands that split into a pair and melds.
HuIsPairAndMelds == canHu(hand) <=> PairAndMelds(hand)

\* The suit of the whole winning hand, melds included, decides on qing yi se, and
\* it does not matter that generateHuType (ServerUtility.cpp:358) leaves out a
\* winning tile that is greater than every tile of the hand.
QingYiSeIsOneSuit ==
    \A i \in DOMAIN hand :
        LET suits == {getHuaSe(hand[j]) : j \in DOMAIN hand} \cup {getHuaSe(melds[j]) : j \in DOMAIN melds}
            others == SubSeq(hand, 1, i - 1) \o SubSeq(hand, i + 1, Len(hand))
        IN  canHu(hand) =>
              /\ generateHuType(others, hand[i], melds, FALSE) = {"HT_QINGYISE"} <=> Cardinality(suits) = 1
              /\ generateHuType(hand, hand[i], melds, TRUE) = {"HT_QINGYISE"} <=> Cardinality(suits) = 1
=============================================================================
