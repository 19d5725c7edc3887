SPECIFICATION Spec
CONSTANTS
    Containers = {c1, c2, c3}
    LastHost = 3
    Ports = {p1, p2}
SYMMETRY Symmetry
INVARIANTS
    TypeOK
    UpIsWired
    RulesBeforeRelease
    NoVethLeft
