SPECIFICATION FairSpec
CONSTANTS
    k1 = k1  k2 = k2
    Channels = {1}
    Callers = {k1, k2}
    ReadSize = 2
    MaxRequests = 3
    MaxMessages = 2
    MayLose = TRUE
INVARIANTS TypeOK NoLostCommand TableTrailsServer NoGhostSubscription InOrder
PROPERTIES CommandsTaken StopCompletes
CHECK_DEADLOCK FALSE
