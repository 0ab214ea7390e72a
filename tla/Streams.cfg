SPECIFICATION Spec
CONSTANTS
    Responses <- MCResponses
    Senders = {p1}
    Receivers = {q1}
    Closer = k
    Nobody = nobody
    NoWriter = nobody
    Writers = {w1, w2}
    Incoming = {i1}
    Readers = {r1, r2}
    Packets = {x, y}
    None = none
INVARIANTS
    SuccessIsStatusZero
    WebTransportSound
PROPERTY
    StreamsEnd
CHECK_DEADLOCK FALSE
