SPECIFICATION Spec
CONSTANTS
    Containers = {c1, c2}
    LastHost = 3
    Ports = {p1, p2}
SYMMETRY Symmetry
INVARIANTS
    RulesOwned
