SPECIFICATION LiveSpec
CONSTANTS
    MaxClients = 1
    Workers = {w1}
    IdleTimeout = TRUE
    MaxConnections = 2
    MaxMessages = 1
    t1 = t1
    t2 = t2
    s1 = s1
    u1 = u1
    u2 = u2
    c1 = c1
    c2 = c2
PROPERTIES
    StopsReturn
    TasksRun
    GetReturns
    AnsweredCallsReturn
    ExpiredFreed
CHECK_DEADLOCK FALSE
