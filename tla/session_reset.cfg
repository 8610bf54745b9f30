SPECIFICATION FairSpec
CONSTANTS
    SndBuf = 2
    MaxMsgs = 2
    NumParams = 1
    Sizes <- SmallSizes
    Allowed = {"Startup", "Query"}
    ParseOutcomes = {"ok"}
    ExecOutcomes = {"ok"}
    Pipelining = FALSE
PROPERTY BytesReleased
CHECK_DEADLOCK FALSE
