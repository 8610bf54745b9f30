SPECIFICATION Spec
CONSTANTS
    Lines <- TwoLines
    ChunksOf <- ShortAndLong
    PipeRoom = 1
INVARIANT LinesKept
CHECK_DEADLOCK FALSE
