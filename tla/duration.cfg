SPECIFICATION Spec
CONSTANTS
    Hours = {0, 1, 25}
    Minutes = {0, 1, 59}
    Seconds = {0, 1, 30, 59}
    Millis = {0, 1, 999}
INVARIANT RestSubtracted
CHECK_DEADLOCK FALSE
