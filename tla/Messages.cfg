SPECIFICATION Spec
CONSTANTS
    Contexts <- MCContexts
    SigKeys <- MCSigKeys
    SignConfigs <- MCSignConfigs
    VerifyConfigs <- MCVerifyConfigs
    MaxSigs = 2
    SigMaxTime = 4
    DPoPKeys <- MCDPoPKeys
    Requests <- MCRequests
    ProofOptions <- MCProofOptions
    Policies <- MCPolicies
    MaxAge = 1
    Skew = 1
    DPoPMaxTime = 5
    Lengths <- MCLengths
    Methods = {"empty", "S256", "plain", "s256"}
    URIs <- MCURIs
    Subscriptions <- MCSubscriptions
    Payloads <- MCPayloads
    TTLs <- MCTTLs
    Paddings = {0, 3}
    MaxPushes = 1
    Aliases = {"a", "b"}
    ConfigLines <- MCConfigLines
    CallerOptions <- MCCallerOptions
    KeyFiles <- MCKeyFiles
    MaxLines = 3
    MaxOptions = 2
    Emitters = {"e1", "e2"}
    Binary = {"e2"}
    Events <- MCEvents
    Sizes <- MCSizes
    MaxBinaryBufferSize = 2
    MaxDrops = 1
    NoEvent = NoEvent
    N = 2
    MaxDatagrams = 4
    ChanCap = 1
    Callers = {"c1", "c2"}
    Tokens <- MCTokens
    Issuer = "i"
    Claim = ""
    Serials = {0, 4}
    TTL = 3
    Backdate = 1
    MaxClock = 6
    Codes <- MCCodes
    Messages <- MCMessageSizes
    Packets <- MCPackets
    MaxAttachments = 11
    Micro = 2
    Milli = 6
    Second = 12
    Minute = 24
    Hour = 48
    Durations <- MCDurations
    SpanContexts <- MCSpanContexts
    TraceParents <- MCTraceParents
    Senders = {"s"}
    Ciphers = {"none", "inplace", "copy"}
    Data = {1, 2, 3}
    MaxLength = 2
    MaxSends = 2
    ChanSize = 1
    Buffers = {b1, b2, b3, b4}
    NoBuf = NoBuf
INVARIANTS
    
    GenuineIsAccepted
    PushDelivered
    UncheckedWhenAsked
    
    CodecsRoundTrip
    
    
    
CHECK_DEADLOCK FALSE
