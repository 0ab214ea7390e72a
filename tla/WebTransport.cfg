\* Two streams for one channel and one for the other, two closers.
CONSTANTS
    Bidi = {s1, s2}
    Uni = {u1}
    SessionClosers = {k1, k2}
    Control = control
    Codes = {e1}
    NoCode = e0
    PeerCode = ep
    NoErr = NoErr
    QueueCap = 1
    DatagramCap = 1
SPECIFICATION SessionFairSpec
INVARIANT NoSendOnClosed
  
CHECK_DEADLOCK FALSE
