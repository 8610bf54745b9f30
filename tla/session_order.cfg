SPECIFICATION Spec
CONSTANTS
    SndBuf = 2
    MaxMsgs = 3
    NumParams = 1
    Sizes <- SmallSizes
    Allowed = {"Startup", "Query"}
    ParseOutcomes = {"ok", "sql"}
    ExecOutcomes = {"ok"}
    Pipelining = TRUE
INVARIANT RepliesInOrder
CHECK_DEADLOCK FALSE
