SPECIFICATION FairSpec
CONSTANTS
    SndBuf = 1
    NumParams = 0
    Sizes <- OneChunk
    ParseOutcomes = {"ok", "sql"}
    ExecOutcomes = {"ok"}
    Pipelining = FALSE
    AllowedA = {"Startup", "Query", "Terminate"}
    MaxMsgsA = 2
    AllowedB = {"Startup", "Terminate"}
    MaxMsgsB = 2
INVARIANT TypeOK
PROPERTIES
    ServesBeside
    EachIsStarted
    ImplementsServer
CHECK_DEADLOCK FALSE
