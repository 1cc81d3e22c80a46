SPECIFICATION ServerFairSpec
CONSTANTS
    c1 = c1  w1 = w1  w2 = w2
    Main = Main
    Nobody = Nobody
    Conns = {c1}
    Workers = {w1, w2}
    Writers = {c1, w1, w2, Main}
    Capacity = 1
    MaxQueue = 2
    MaxFrames = 2
CHECK_DEADLOCK FALSE
INVARIANTS ServerTypeOK GapsReported LogComplete StreamKept BegunInOrder
PROPERTIES FramesCutOff StopEnds
