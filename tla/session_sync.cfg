SPECIFICATION Spec
CONSTANTS
    SndBuf = 2
    MaxMsgs = 4
    NumParams = 1
    Sizes <- SplitSizes
    Allowed <- AllKinds
    ParseOutcomes = {"ok", "sql", "fatal", "exn"}
    ExecOutcomes = {"ok", "sql", "exn"}
    Pipelining = FALSE
INVARIANTS
    NoStaleUse
    RepliesInOrder
CHECK_DEADLOCK FALSE
