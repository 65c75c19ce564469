--------------------------- MODULE MCMahjongRoom ---------------------------
(* Instances of MahjongRoom for TLC: a few kinds of tiles of one suit, hands *)
(* of two to five tiles, and the winning rule of HuRules.                    *)
EXTENDS MahjongRoom, HuRules

\* A start hand in descending order, which stands for all its permutations: it
\* is sorted before the first look at it.
Descending(n) == {h \in [1 .. n -> Kind] : \A i \in 1 .. n - 1 : h[i] >= h[i + 1]}
AllDeals == [Seats -> Descending(HandCount) \cup Descending(HandCount - 1)]

\* With three players: the banker's start hand is fixed, the others' are free.
ThreePlayerDeals ==
    {d \in AllDeals : d[0] = <<4, 3, 2, 2, 1>> /\ d[1] \in Descending(4)}

=============================================================================
