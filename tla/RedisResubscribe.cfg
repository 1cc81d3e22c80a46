SPECIFICATION Spec
CONSTANTS
    k1 = k1  k2 = k2
    Channels = {1}
    Callers = {k1, k2}
    ReadSize = 2
    MaxRequests = 3
    MaxMessages = 1
    MayLose = FALSE
INVARIANT SubscribedAsWanted
CHECK_DEADLOCK FALSE
