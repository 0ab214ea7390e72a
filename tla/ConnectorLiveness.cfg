\* One caller; one loop, which gives up after a failed attempt.
CONSTANTS
    Callers = {k1}
    Methods = {"Connect", "Disconnect", "Close", "UpdateEndpoints"}
    Loops = {l1}
    Conns = {c1, c2}
    Endpoints = {e1}
    Pools = {{e1}}
    Ciphers = {x0}
    InitCipher = x0
    MaxAttempts = 1
    Capacity = 1
    NoConn = NoConn
    NoLoop = NoLoop
    ZeroEndpoint = e1
SPECIFICATION FairSpec
PROPERTIES CloseDrains LoopsEnd SlotSpec
CHECK_DEADLOCK FALSE
