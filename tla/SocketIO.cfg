\* Two concurrent Close calls, one heartbeat followed at a time, two attempts.
CONSTANTS
    Closers = {k1, k2}
    Beats = {h1}
    Conns = {c1, c2}
    Reconnection = TRUE
    MaxAttempts = 2
    NoConn = NoConn
    NoBeat = NoBeat
SPECIFICATION FairSpec
INVARIANTS OneSocket FsmAgrees CloseEffective
PROPERTY SessionSettles
CHECK_DEADLOCK FALSE
