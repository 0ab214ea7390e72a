\* An application that only connects once.
CONSTANTS
    Callers = {k1}
    Methods = {"Connect"}
    Loops = {l1, l2}
    Conns = {c1, c2}
    Endpoints = {e0, e1}
    Pools = {}
    Ciphers = {x0}
    InitCipher = x0
    MaxAttempts = 0
    Capacity = 1
    NoConn = NoConn
    NoLoop = NoLoop
    ZeroEndpoint = e0
SPECIFICATION SpecConnectOnce
SYMMETRY Symmetry
INVARIANT NeverStranded
CHECK_DEADLOCK FALSE
