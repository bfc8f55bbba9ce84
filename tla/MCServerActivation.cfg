SPECIFICATION TcpSpec
CONSTANTS
    w1 = w1
    w2 = w2
    Threads = {t1}
    MaxMessages = 1
INVARIANT ChangedOnlyByStop
CHECK_DEADLOCK FALSE
