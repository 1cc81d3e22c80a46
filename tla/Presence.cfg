SPECIFICATION MCSpec
CONSTANTS
    n1 = n1  n2 = n2  u1 = u1  u2 = u2  c1 = c1  c2 = c2
    w1 = w1  w2 = w2  io1 = io1
    NoUser = NoUser
    NoConn = NoConn
    Nodes = {n1, n2}
    Users = {u1, u2}
    Conns = {c1, c2}
    Threads = {w1, w2, io1}
    IoThreads = {io1}
    ConnNode <- SoloConnNode
    ThreadNode <- SoloThreadNode
    Accounts <- SecondAccount
    MaxQueue = 2
    Faults = {"abandon", "db", "stop", "crash"}
SYMMETRY Workers
INVARIANTS TypeOK  OrderlyAgreement
 
