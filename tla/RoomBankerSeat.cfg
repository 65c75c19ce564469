SPECIFICATION Spec
CONSTANTS
    MaxPlayer = 2
    Robots = {}
    TileKinds = 3
    SingleCount = 4
    HuaCount = 1
    HandCount = 5
    SuitSize = 9
    CanHu <- canHu
    FirstBankers = {0}
    Deals <- AllDeals
INVARIANT
    BankerPosIsBanker
CHECK_DEADLOCK FALSE
