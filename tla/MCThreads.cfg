SPECIFICATION ThreadsSpec
CONSTANTS
    Owner = owner
    Pushers = {s1, s2, owner}
    Thieves = {t1, t2}
    Capacity = 2
    MaxTasks = 4
    MaxThreads = 2
    MinThreads = 1
    OptimalThreads = 2
    Submitters = {s1, s2}
    MaxWorkers = 3
    CanFail = TRUE
    t1 = t1
    t2 = t2
INVARIANTS
    PoolServes
    DequeExact
    BlocksExact
    ObjectsExact
CHECK_DEADLOCK FALSE
