SPECIFICATION FairSpec
CONSTANTS
    SndBuf = 2
    MaxMsgs = 4
    NumParams = 1
    Sizes <- SplitSizes
    Allowed <- AllKinds
    ParseOutcomes = {"ok", "sql", "fatal"}
    ExecOutcomes = {"ok", "exn"}
    Pipelining = FALSE
INVARIANT NoMutualWait
PROPERTIES
    ProcessingEnds
    TerminateReleases
    ImplementsProtocol
CHECK_DEADLOCK FALSE
