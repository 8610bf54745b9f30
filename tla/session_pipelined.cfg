SPECIFICATION Spec
CONSTANTS
    SndBuf = 2
    MaxMsgs = 3
    NumParams = 1
    Sizes <- SplitSizes
    Allowed <- AllKinds
    ParseOutcomes = {"ok", "sql", "fatal", "exn"}
    ExecOutcomes = {"ok", "sql", "exn"}
    Pipelining = TRUE
INVARIANTS
    TypeOK
    OneActivity
    ChainOwnsSession
    FramingAgrees
CHECK_DEADLOCK FALSE
PROPERTY ImplementsLife
