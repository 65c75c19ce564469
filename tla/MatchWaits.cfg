SPECIFICATION FairMatchSpec
CONSTANTS
    Players = {p1, p2}
    Robots = {101, 102}
    Objects = {o1, o2}
    MaxPlayer = 2
    MaxRooms = 1
    MaxWait = 2
    Nobody = Nobody
    Freed = Freed
PROPERTY
    EveryWaitEnds
CHECK_DEADLOCK FALSE
