SPECIFICATION Spec
CONSTANTS
    SuitSize = 6
    Tiles = {1, 2, 3, 4, 5, 6, 7, 19}
    MeldTiles = {1, 7, 19}
    MaxTiles = 8
INVARIANTS
    HuIsPairAndMelds
    QingYiSeIsOneSuit
CHECK_DEADLOCK FALSE
