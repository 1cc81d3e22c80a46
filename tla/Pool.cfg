SPECIFICATION FairSpec
CONSTANTS
    a1 = a1  a2 = a2  k1 = k1  k2 = k2  k3 = k3  k4 = k4
    NoConn = NoConn
    Clients = {a1, a2}
    Conns = {k1, k2, k3, k4}
    InitSize = 2
    MaxSize = 3
INVARIANTS TypeOK OnePlace Counted ProducerAwake NoGridlock AllClosed
PROPERTY DestructorReturns
CHECK_DEADLOCK FALSE
