CONSTANTS
    Callers = {"c1"}
    MaxRequests = 3
    MaxNotices = 1
    NoPayload = NoPayload
SPECIFICATION TransportsSpec
CHECK_DEADLOCK FALSE
INVARIANTS
    LinksConsistent
    ResponsesOwned
    ExchangesExact
    SessionsRecovered
