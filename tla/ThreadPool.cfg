SPECIFICATION FairSpec
CONSTANTS
    p1 = p1  p2 = p2  w1 = w1  w2 = w2  w3 = w3  k1 = k1  k2 = k2
    Producers = {p1, p2}
    Workers = {w1, w2, w3}
    Closers = {k1, k2}
    MaxQueue = 2
    MaxTasks = 4
INVARIANTS TypeOK NoLostWakeup StopSeen DrainedOnReturn
PROPERTIES ExecutorSteps ImplementsExecutor
CHECK_DEADLOCK FALSE
