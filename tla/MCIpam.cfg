SPECIFICATION Spec
CONSTANTS
    Clients = {c1, c2, c3}
    LastHost = 3
SYMMETRY Symmetry
INVARIANTS
    TypeOK
    UniqueLeases
    GivenIsLeased
    StateFileWhole
PROPERTIES
    ImplementsLeases
