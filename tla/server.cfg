SPECIFICATION FairSpec
CONSTANTS
    MaxConns = 6
    MaxFds = 3
INVARIANTS
    TypeOK
    RegisteredUntilDone
PROPERTIES
    NoConnectionDropped
    EachIsAccepted
CHECK_DEADLOCK FALSE
