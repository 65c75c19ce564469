SPECIFICATION FairSpec
CONSTANTS
    MaxIn = 2
    MaxOut = 3
    HeaderSize = 1
    BodySizes = {0, 1, 2}
    TempSize = 2
    SendSize = 2
    TimeOut = 1
    Elapsed <- MCElapsed
INVARIANTS
    TypeOK
    NobodyInDestroyed
PROPERTIES
    ExecutedOnce
    ExecutedAsSent
    StreamInOrder
    PacketsEnd
    ClosedClientLeaves
CHECK_DEADLOCK FALSE
