SPECIFICATION FairSpec
CONSTANTS
    k1 = k1  k2 = k2
    Channels = {1}
    Callers = {k1}
    ReadSize = 2
    MaxRequests = 1
    MaxMessages = 2
    MayLose = FALSE
PROPERTY MessagesDelivered
CHECK_DEADLOCK FALSE
