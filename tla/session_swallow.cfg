SPECIFICATION Spec
CONSTANTS
    SndBuf = 2
    MaxMsgs = 2
    NumParams = 1
    Sizes <- SmallSizes
    Allowed = {"Startup", "Query"}
    ParseOutcomes = {"ok"}
    ExecOutcomes = {"ok", "sql"}
    Pipelining = FALSE
INVARIANT NoMutualWait
CHECK_DEADLOCK FALSE
