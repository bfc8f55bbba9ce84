SPECIFICATION SmallSpec
CONSTANTS
    Callers = {c1, c2}
    Synchronous = FALSE
    Timed = TRUE
    Capacity = 64
    MaxRequests = 2
INVARIANT ReturnMatchesOutput
CHECK_DEADLOCK FALSE
