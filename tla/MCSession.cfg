SPECIFICATION FairSpec
CONSTANTS
    MaxOut = 2
    MaxIn = 1
    SockCap = 2
INVARIANTS
    TypeOK
    OutputIsPrefix
    StatusIsResult
    InputInOrder
PROPERTIES
    ImplementsWire
    SessionEnds
