SPECIFICATION Spec
CONSTANTS
    o1 = o1
    o2 = o2
    Ops = {o1, o2}
    Closers = {k1}
    KeepAlive = ka
    Nobody = nobody
    Lines = 1
    LineCap = 1
    Checkers = {c1, c2}
    Hosts = {h1}
    Interval = 1
    Jobs <- MCJobs
    Kinds <- MCKinds
    MaxTime = 3
    NoEntry = NoEntry
    Socks = {s1}
    Forwards = {f1}
    FirstDelay = 1
    MaxDelay = 3
    BufLen = 2
INVARIANTS
    DataComplete
    SessionsSound
    
    HalfCloseKeepsTheOther
PROPERTY
    SSHCallsEnd
CHECK_DEADLOCK FALSE
