SPECIFICATION Spec
CONSTANTS
    Daemons = {d1, d2}
    Inodes = {i1, i2, i3}
    Containers = {c1}
    None = none
INVARIANTS
    OneDaemon
