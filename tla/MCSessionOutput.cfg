SPECIFICATION Spec
CONSTANTS
    MaxOut = 2
    MaxIn = 1
    SockCap = 3
INVARIANT OutputComplete
