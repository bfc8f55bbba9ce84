SPECIFICATION SharedSpec
CONSTANTS
    Owner = owner
    Pushers = {t2}
    Thieves = {t1}
    Capacity = 2
    MaxTasks = 4
    MaxThreads = 2
    MinThreads = 1
    OptimalThreads = 2
    Submitters = {s1}
    MaxWorkers = 3
    CanFail = TRUE
    t1 = t1
    t2 = t2
INVARIANT NothingLost
CHECK_DEADLOCK FALSE
