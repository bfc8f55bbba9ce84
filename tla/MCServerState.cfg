SPECIFICATION StateSpec
CONSTANTS
    c1 = c1
    c2 = c2
    k1 = k1
    k2 = k2
    k3 = k3
    t1 = t1
    t2 = t2
    NULL = NULL
    Clients = {c1, c2}
    Hash <- MCHash
    WindowSeconds = 2
    MaxRequests = 2
    CapacityHint = 0
    MinCapacity = 2
    MaxTime = 5
    MaxGrants = 6
INVARIANTS
    TypesOK
    EntriesFindable
    RateBound
    DenialJustified
    CacheExact
    RulesBound
    SharedExact
    TemplatesExact
PROPERTY ImplementsOwningMap
CHECK_DEADLOCK FALSE
