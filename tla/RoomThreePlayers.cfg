SPECIFICATION Spec
CONSTANTS
    MaxPlayer = 3
    Robots = {2}
    TileKinds = 4
    SingleCount = 4
    HuaCount = 1
    HandCount = 5
    SuitSize = 9
    CanHu <- canHu
    FirstBankers = {0}
    Deals <- ThreePlayerDeals
INVARIANTS
    TypeOK
    DropTurn
    WaitersAreAsked
    OneClaimer
    OneBanker
    HandSize
    HandsReordered
    TilesConserved
CHECK_DEADLOCK FALSE
