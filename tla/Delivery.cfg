SPECIFICATION DeliveryFairSpec
CONSTANTS
    n1 = n1  n2 = n2  u1 = u1  c1 = c1  w1 = w1  m1 = m1  m2 = m2
    NoUser = NoUser
    NoConn = NoConn
    Nodes = {n1, n2}
    Users = {u1}
    Conns = {c1}
    Threads = {w1}
    IoThreads = {}
    ConnNode <- OneConnNode
    ThreadNode <- OneThreadNode
    Accounts <- OneAccount
    MaxQueue = 1
    Faults = {"crash", "stop", "db"}
    Msgs = {m1}
    To <- ToOne
INVARIANTS ExactlyOnce
PROPERTIES  LoginAnswered
