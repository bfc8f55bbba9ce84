SPECIFICATION RequestsSpec
CONSTANTS
    Callers = {c1, c2}
    Synchronous = FALSE
    Timed = TRUE
    Capacity = 64
    MaxRequests = 3
INVARIANTS
    EntriesMatchCalls
    ReturnMatchesUnmoved
    TableExact
    EventsExact
    WebClientsExact
    AnswersMatchRequests
PROPERTIES
    RefinesPendingSet
    ImplementsEventLog
SYMMETRY Symmetry
CHECK_DEADLOCK FALSE
