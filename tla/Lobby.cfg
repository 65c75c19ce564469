SPECIFICATION Spec
CONSTANTS
    Players = {p1, p2, p3}
    Robots = {101}
    Objects = {o1, o2, o3}
    MaxPlayer = 3
    MaxRooms = 1
    Nobody = Nobody
    Freed = Freed
SYMMETRY Symmetry
INVARIANTS
    TypeOK
    SeatsAgree
    BankerSits
PROPERTY
    ClientsKeepRoom
CHECK_DEADLOCK FALSE
