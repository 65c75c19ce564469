SPECIFICATION FairSpec
CONSTANTS
    MaxPlayer = 2
    Robots = {0, 1}
    TileKinds = 3
    SingleCount = 4
    HuaCount = 1
    HandCount = 5
    SuitSize = 9
    CanHu <- canHu
    FirstBankers = {0}
    Deals <- AllDeals
PROPERTY
    HandEnds
CHECK_DEADLOCK FALSE
