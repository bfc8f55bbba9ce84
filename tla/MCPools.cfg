SPECIFICATION PoolsSpec
CONSTANTS
    Threads = {t1, t2, t3}
    Users = {u1, u2}
    Addresses = {1, 2, 3}
    min_connections = 1
    max_connections = 2
    Fails = TRUE
INVARIANTS
    OwnedOnce
    OneUserPerAgingSocket
    GatewayExact
    LentOnce
SYMMETRY Symmetry
CHECK_DEADLOCK FALSE
