SPECIFICATION ServerSpec
CONSTANTS
    Threads = {t1, t2, t3}
    MaxMessages = 4
    w1 = w1
    w2 = w2
SYMMETRY Symmetry
INVARIANTS
    NeverUndercounts
    NoCallbackAfterFree
    WaitOnlyOnLeak
    ClientsExact
    StopLeavesNothing
    SocketsExact
CHECK_DEADLOCK FALSE
