SPECIFICATION FairSpec
CONSTANTS
    Rooms = {r1}
    NetServer = net
    Null = null
    Robots = {b1}
    Delays <- MCDelays
    Frames <- MCFrames
    Second <- MCSecond
    MaxAssign = 4
    MaxCommand = 3
    MaxNest = 1
INVARIANTS
    TypeOK
    CommandHeldOnce
    RobotCanAnswer
PROPERTIES
    CallsAreKept
    RunInOrder
    EveryCallEnds
CHECK_DEADLOCK FALSE
