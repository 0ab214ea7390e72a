\* Two callers against two loops and two connections.
CONSTANTS
    Callers = {k1, k2}
    Methods = {"Connect", "Disconnect", "Close", "TriggerReconnect",
               "SetCipher", "WaitForConnection"}
    Loops = {l1, l2}
    Conns = {c1, c2}
    Endpoints = {e1}
    Pools = {}
    Ciphers = {x0}
    InitCipher = x0
    MaxAttempts = 0
    Capacity = 1
    NoConn = NoConn
    NoLoop = NoLoop
    ZeroEndpoint = e1
SPECIFICATION Spec
SYMMETRY Symmetry
INVARIANTS OneDial UniqueOwner ReaderAttached
CHECK_DEADLOCK FALSE
