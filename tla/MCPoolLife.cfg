SPECIFICATION FairSpec
CONSTANTS
    Capacity = 2
    Handlers = {h1}
    P = p
    Workers = {w1, w2, w3}
    Nil = nil
PROPERTIES
    SingleUse
    StopClosesPool
