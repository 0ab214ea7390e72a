-------------------------------- MODULE Wire --------------------------------
(***************************************************************************)
(* What the clients put on the wire and take off it again: WebTransport's  *)
(* error codes and its close capsule (src/webtransport/errors.go,          *)
(* capsule.go), Socket.IO packets and their binary attachments             *)
(* (src/socketio/packet.go), gRPC timeouts (src/grpc/proto.go) and trace   *)
(* contexts (src/otel/w3c.go, carrier.go).  One exchange encodes a value   *)
(* and records what the other end decodes.                                 *)
(***************************************************************************)
EXTENDS Naturals, Integers, Sequences

CONSTANTS
    Codes,          \* 32-bit application error codes
    Messages,       \* close messages: [ascii, wide, width], ascii bytes then wide runes
    Packets,        \* Socket.IO packets: [type, nsp, id, body, args]
    MaxAttachments, \* maxBinaryAttachments
    Micro, Milli, Second, Minute, Hour, \* time units in nanoseconds, each a multiple of the last
    Durations,
    SpanContexts,   \* [trace, span, flags, state]; identifier 0 is invalid
    TraceParents    \* headers of others: [version, len, trace, span, flags]

\* Codes are unsigned, a rune that is not ASCII has two to four bytes, units grow,
\* and the flags are a byte.
ASSUME WireAssumption ==
    /\ Codes \subseteq Nat
    /\ Messages \subseteq [ascii : Nat, wide : Nat, width : 2..4]
    /\ Durations \subseteq Int
    /\ Micro \in Nat /\ Milli \in Nat /\ Second \in Nat /\ Minute \in Nat /\ Hour \in Nat
    /\ 0 < Micro /\ Micro <= Milli /\ Milli <= Second /\ Second <= Minute /\ Minute <= Hour
    /\ SpanContexts \subseteq [trace : Nat, span : Nat, flags : 0..255, state : STRING]
    /\ TraceParents \subseteq [version : STRING, len : Nat, trace : Nat, span : Nat, flags : (0..15) \X (0..15)]

VARIABLES
    value,      \* what is encoded: <<kind, value>>, or <<>>
    decoded     \* what the other end made of it

wireVars == <<value, decoded>>

---------------------------------------------------------------------------
(* WebTransport. *)

\* Offsets from WTApplicationErrorFirst; (First - 0x21) % 0x1f is 1.
WebTransportCodeToHTTPCode(n) == n + n \div 30
HTTPCodeToWebTransportCodeMut(h) == IF (h + 1) % 31 = 0 THEN -1 ELSE h - h \div 30
HTTPCodeToWebTransportCode(h) == IF (h + 1) % 31 = 0 THEN -1 ELSE h - h \div 31

\* Bytes of a QUIC varint (external).
VarintLen(v) == IF v < 64 THEN 1 ELSE IF v < 16384 THEN 2 ELSE 4
CapsuleCloseWebTransportSession == 10307
EncodeCapsuleHeader(type, len) == VarintLen(type) + VarintLen(len)

Bytes(m) == m.ascii + m.wide * m.width
\* Whole runes only, at most 1024 bytes.
TruncateErrorMessage(m) ==
    IF Bytes(m) <= 1024 THEN Bytes(m)
    ELSE IF m.ascii >= 1024 THEN 1024
    ELSE m.ascii + ((1024 - m.ascii) \div m.width) * m.width
EncodeCloseSessionCapsule(m) ==
    LET payload == 4 + TruncateErrorMessage(m)
    IN  EncodeCapsuleHeader(CapsuleCloseWebTransportSession, payload) + payload
\* Decode takes at most 1024 bytes of valid UTF-8.
DecodeCloseSessionPayload(m, len) ==
    IF len > 1024 \/ (len > m.ascii /\ (len - m.ascii) % m.width # 0) THEN -1 ELSE len

---------------------------------------------------------------------------
(* Socket.IO.  A packet's text is a sequence of symbols: its type, digits,  *)
(* '-', '/', ',', letters, and the bracket that opens the JSON data.        *)

Digits == <<"0", "1", "2", "3", "4", "5", "6", "7", "8", "9">>
IsDigit(c) == \E d \in 1..10 : Digits[d] = c
Value(c) == CHOOSE d \in 0..9 : Digits[d + 1] = c
\* strconv.Itoa and Atoi, up to two digits.
Itoa(n) == IF n < 10 THEN <<Digits[n + 1]>> ELSE <<Digits[(n \div 10) + 1], Digits[(n % 10) + 1]>>
Atoi(t) == IF Len(t) = 1 THEN Value(t[1]) ELSE 10 * Value(t[1]) + Value(t[2])

IsBinary(type) == type \in {"5", "6"}

\* Binary arguments leave a placeholder with their place among the buffers.
BuffersBefore(args, i) == Len(SelectSeq(SubSeq(args, 1, i - 1), LAMBDA a : a[1] = "bin"))
BinaryArgs(args) == SelectSeq(args, LAMBDA a : a[1] = "bin")
DeconstructBinaryMut(args) ==
    [i \in DOMAIN args |-> IF args[i][1] = "bin" THEN <<"_placeholder", i - 1>> ELSE args[i]]
DeconstructBinary(args) ==
    [i \in DOMAIN args |-> IF args[i][1] = "bin" THEN <<"_placeholder", BuffersBefore(args, i)>> ELSE args[i]]
ReconstructBinary(args, buffers) ==
    [i \in DOMAIN args |->
        IF args[i][1] = "_placeholder" /\ args[i][2] < Len(buffers)
          THEN buffers[args[i][2] + 1] ELSE args[i]]

EncodeSIOPacket(p) ==
    <<p.type>> \o (IF IsBinary(p.type) THEN Itoa(Len(BinaryArgs(p.args))) \o <<"-">> ELSE <<>>)
      \o (IF p.nsp \in {<<>>, <<"/">>} THEN <<>> ELSE p.nsp \o <<",">>)
      \o p.id \o p.body

\* The first of the positions that end the token, or the end.
TokenEnd(text, stops) ==
    IF stops = {} THEN Len(text) + 1 ELSE CHOOSE j \in stops : \A k \in stops : j <= k

\* Each parser returns what it read and where the next one starts.
ParseAttachments(text) ==
    LET j == TokenEnd(text, {k \in 2..Len(text) : text[k] = "-"}) IN <<Atoi(SubSeq(text, 2, j - 1)), j + 1>>
ParseNamespaceMut(text, i) ==
    IF i > Len(text) \/ text[i] # "/" THEN <<<<"/">>, i>>
    ELSE LET j == TokenEnd(text, {k \in i..Len(text) : text[k] = ","}) IN <<SubSeq(text, i, j - 1), j>>
ParseNamespace(text, i) ==
    IF i > Len(text) \/ text[i] # "/" THEN <<<<"/">>, i>>
    ELSE LET j == TokenEnd(text, {k \in i..Len(text) : text[k] = ","}) IN <<SubSeq(text, i, j - 1), j + 1>>
ParseAckID(text, i) ==
    LET j == TokenEnd(text, {k \in i..Len(text) : ~IsDigit(text[k])}) IN <<SubSeq(text, i, j - 1), j>>

\* The packet a receiver assembles from the text, the JSON data and the buffers.
DecodeSIOPacket(text, args, buffers) ==
    LET head == IF IsBinary(text[1]) THEN ParseAttachments(text) ELSE <<0, 2>>
        nsp == ParseNamespace(text, head[2])
        id == ParseAckID(text, nsp[2])
    IN  IF head[1] > MaxAttachments THEN <<>>
        ELSE [type |-> text[1], nsp |-> nsp[1], id |-> id[1], body |-> SubSeq(text, id[2], Len(text)),
              args |-> ReconstructBinary(args, SubSeq(buffers, 1, head[1]))]

---------------------------------------------------------------------------
(* Timeouts. *)

\* The largest unit not above the duration, and how many of them; "0m" for none.
FormatGRPCTimeoutMut(d) ==
    IF d <= 0 THEN <<0, Milli>> ELSE IF d < Second THEN <<d \div Milli, Milli>> ELSE <<d \div Second, Second>>
FormatGRPCTimeout(d) ==
    CASE d <= 0 -> <<0, Milli>>
      [] 0 < d /\ d < Micro -> <<d, 1>>
      [] Micro <= d /\ d < Milli -> <<d \div Micro, Micro>>
      [] Milli <= d /\ d < Second -> <<d \div Milli, Milli>>
      [] Second <= d /\ d < Minute -> <<d \div Second, Second>>
      [] Minute <= d /\ d < Hour -> <<d \div Minute, Minute>>
      [] Hour <= d -> <<d \div Hour, Hour>>

---------------------------------------------------------------------------
(* Trace contexts.  The flags byte travels as two hexadecimal digits. *)

NoContext == [trace |-> 0, span |-> 0, flags |-> 0, state |-> ""]
TraceParent(c) ==
    [version |-> "00", len |-> 55, trace |-> c.trace, span |-> c.span,
     flags |-> <<c.flags \div 16, c.flags % 16>>]
ParseTraceParentMut(h) ==
    IF h.len < 55 \/ h.version = "ff" \/ (h.version = "00" /\ h.len # 55) \/ h.trace = 0 \/ h.span = 0
      THEN NoContext
      ELSE [trace |-> h.trace, span |-> h.span, flags |-> h.flags[2], state |-> ""]
ParseTraceParent(h) ==
    IF h.len < 55 \/ h.version = "ff" \/ (h.version = "00" /\ h.len # 55) \/ h.trace = 0 \/ h.span = 0
      THEN NoContext
      ELSE [trace |-> h.trace, span |-> h.span, flags |-> h.flags[1] * 16 + h.flags[2], state |-> ""]

\* The carrier holds at most one traceparent and one tracestate.
Inject(c) ==
    IF c.trace = 0 \/ c.span = 0 THEN [parent |-> <<>>, state |-> ""]
    ELSE [parent |-> <<TraceParent(c)>>, state |-> c.state]
Extract(carrier) ==
    IF carrier.parent = <<>> \/ ParseTraceParent(carrier.parent[1]) = NoContext THEN NoContext
    ELSE [ParseTraceParent(carrier.parent[1]) EXCEPT !.state = carrier.state]

---------------------------------------------------------------------------
Exchange(kind, v, result) == value' = <<kind, v>> /\ decoded' = result

WireInit == value = <<>> /\ decoded = 0

ResetStream == \E n \in Codes :
    Exchange("code", n, HTTPCodeToWebTransportCode(WebTransportCodeToHTTPCode(n)))
CloseWithError == \E m \in Messages :
    Exchange("close", m, DecodeCloseSessionPayload(m, TruncateErrorMessage(m)))
Emit == \E p \in Packets :
    Exchange("packet", p, DecodeSIOPacket(EncodeSIOPacket(p), DeconstructBinary(p.args), BinaryArgs(p.args)))
Invoke == \E d \in Durations :
    Exchange("timeout", d, LET t == FormatGRPCTimeout(d) IN t[1] * t[2])
Propagate == \E c \in SpanContexts : Exchange("trace", c, Extract(Inject(c)))
Continue == \E h \in TraceParents : Exchange("header", h, Extract([parent |-> <<h>>, state |-> ""]))

WireNext == ResetStream \/ CloseWithError \/ Emit \/ Invoke \/ Propagate \/ Continue

---------------------------------------------------------------------------
Is(kind) == value # <<>> /\ value[1] = kind

\* The peer reads the error code that was sent, out of the code points that
\* remain when every 31st is reserved.
CodeKept == Is("code") => decoded = value[2]

\* The peer accepts every close message, cut to whole runes.
CloseAccepted == Is("close") => decoded = TruncateErrorMessage(value[2])

\* A packet is decoded to what was encoded: its namespace, its acknowledgement
\* identifier, and each binary argument in its own place.
PacketKept ==
    Is("packet") => decoded = IF Len(BinaryArgs(value[2].args)) > MaxAttachments THEN <<>>
                              ELSE [value[2] EXCEPT !.nsp = IF @ = <<>> THEN <<"/">> ELSE @]

\* The server's timeout is never longer than the caller's, and more than half of it.
TimeoutHonest ==
    Is("timeout") => /\ decoded <= IF value[2] > 0 THEN value[2] ELSE 0
                     /\ value[2] > 0 => value[2] < 2 * decoded

\* A valid span context survives the traceparent and tracestate headers, an
\* invalid one is not taken for a valid one, and a header of a later version,
\* which may be longer, continues its trace.
ContextKept ==
    /\ Is("trace") => decoded = IF 0 \in {value[2].trace, value[2].span} THEN NoContext ELSE value[2]
    /\ Is("header") => \/ value[2].version = "ff" \/ value[2].len < 55
                       \/ value[2].version = "00" /\ value[2].len > 55
                       \/ 0 \in {value[2].trace, value[2].span}
                       \/ decoded.trace = value[2].trace /\ decoded.span = value[2].span

\* Error codes, close messages and trace contexts are decoded to what was encoded,
\* and a timeout to one that is not longer.
CodecsRoundTrip == CodeKept /\ CloseAccepted /\ TimeoutHonest /\ ContextKept

\* "truncates msg to at most 1024 bytes" (capsule.go:68): the capsule of every
\* message that TruncateErrorMessage lets through fits the 512 bytes of
\* CloseWithError's buffer, which it slices by the capsule's length.
CapsuleFits == Is("close") => EncodeCloseSessionCapsule(value[2]) <= 512
=============================================================================
