SPECIFICATION Spec
CONSTANTS
    Capacity = 2
    Handlers = {h1, h2}
    P = p
    Workers = {w1, w2, w3, w4}
    Nil = nil
SYMMETRY Symmetry
INVARIANTS
    TypeOK
    ExclusiveWorkers
    ReplenishNeverBlocks
    WarmWorkersIntact
    NoOrphan
    NoIdleAfterClose
