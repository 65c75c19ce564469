SPECIFICATION MatchSpec
CONSTANTS
    Players = {p1, p2}
    Robots = {101, 102, 103}
    Objects = {o1, o2}
    MaxPlayer = 2
    MaxRooms = 2
    MaxWait = 2
    Nobody = Nobody
    Freed = Freed
INVARIANT
    PoolAgrees
PROPERTY
    MatchKeepsSeats
SYMMETRY Symmetry
CHECK_DEADLOCK FALSE
