SPECIFICATION MCSpec
CONSTANTS
    u1 = u1  u2 = u2  g1 = g1  w1 = w1  w2 = w2
    Users = {u1, u2}
    Groups = {g1}
    Threads = {w1, w2}
    Faults = {"db", "lost", "crash"}
SYMMETRY Workers
INVARIANTS TypeOK AcceptedMeansRelated FriendshipMutual PendingIsKnown OwnedOnce
PROPERTY StatusKeepsCourse
