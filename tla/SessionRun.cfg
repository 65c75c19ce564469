SPECIFICATION FairSpec
CONSTANTS
    Accounts <- MCAccounts
    Names <- MCNames
    MaxGuid = 2
    RobotCount = 1
    BatchSize = 1
    MaxTries = 2
    MaxClients = 2
    MaxKills = 1
INVARIANTS
    TypeOK
    RowsBelong
    ClientHasCharacter
    NoNullCharacter
PROPERTIES
    LeavingEnds
    MainLoopGoesOn
CHECK_DEADLOCK FALSE
