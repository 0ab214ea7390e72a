--------------------------- MODULE MessageProofs ---------------------------
(***************************************************************************)
(* What is sent or signed, and read or checked at the other end, proved    *)
(* for every value and not only for those that the checker tries: push     *)
(* messages, codes and timeouts on the wire, and what the three verifiers  *)
(* of auth/ accept.                                                        *)
(***************************************************************************)
EXTENDS WebPush, Wire, Auth, TLAPS

---------------------------------------------------------------------------
(* Push messages. *)

PushSpec == PushInit /\ [][PushNext]_pushVars

LEMMA Concatenated ==
    ASSUME NEW u \in Seq(Nat), NEW z \in Seq(Nat)
    PROVE  /\ u \o z \in Seq(Nat) /\ Len(u \o z) = Len(u) + Len(z)
           /\ \A i \in 1..Len(u) : (u \o z)[i] = u[i]
           /\ \A i \in 1..Len(z) : (u \o z)[Len(u) + i] = z[i]
  OBVIOUS

LEMMA Front ==
    ASSUME NEW s \in Seq(Nat), NEW n \in Nat, n <= Len(s)
    PROVE  /\ SubSeq(s, 1, n) \in Seq(Nat) /\ Len(SubSeq(s, 1, n)) = n
           /\ \A i \in 1..n : SubSeq(s, 1, n)[i] = s[i]
  OBVIOUS

LEMMA SameSeq ==
    ASSUME NEW s \in Seq(Nat), NEW t \in Seq(Nat), Len(s) = Len(t), \A i \in 1..Len(t) : s[i] = t[i]
    PROVE  s = t
  OBVIOUS

LEMMA LastOf ==
    ASSUME NEW S \in SUBSET Nat, NEW m \in S, \A i \in S : i <= m
    PROVE  (CHOOSE i \in S : \A j \in S : j <= i) = m
<1> DEFINE c == CHOOSE i \in S : \A j \in S : j <= i
<1>1. c \in S /\ \A j \in S : j <= c
  BY Zenon
<1> HIDE DEF c
<1>2. c <= m /\ m <= c /\ c \in Nat /\ m \in Nat
  BY Zenon, <1>1
<1>3. c = m
  BY <1>2
<1> QED BY Zenon, <1>3 DEF c

\* A payload's last bytes, the delimiter and zeros: the last byte that is not zero
\* is the delimiter, whatever the payload ends with.
Sealed(t, pad) == t \o <<2>> \o [i \in 1..pad |-> 0]
LEMMA DelimiterIsLast ==
    ASSUME NEW t \in Seq(Nat), NEW pad \in Nat
    PROVE  /\ Len(Sealed(t, pad)) = Len(t) + 1 + pad
           /\ Sealed(t, pad)[Len(t) + 1] = 2 /\ SubSeq(Sealed(t, pad), 1, Len(t)) = t
           /\ NonZero(Sealed(t, pad)) \in SUBSET Nat
           /\ Len(t) + 1 \in NonZero(Sealed(t, pad))
           /\ \A i \in NonZero(Sealed(t, pad)) : i <= Len(t) + 1
<1> DEFINE z == [i \in 1..pad |-> 0]
           u == t \o <<2>>
           s == Sealed(t, pad)
<1>1. z \in Seq(Nat) /\ Len(z) = pad /\ \A i \in 1..pad : z[i] = 0
  OBVIOUS
<1>2. u \in Seq(Nat) /\ Len(u) = Len(t) + 1 /\ u[Len(t) + 1] = 2 /\ \A i \in 1..Len(t) : u[i] = t[i]
  OBVIOUS
<1>3. s = u \o z
  BY Zenon DEF Sealed
<1> HIDE DEF z, u, s
<1>4. s \in Seq(Nat) /\ Len(s) = Len(u) + pad /\ \A i \in 1..Len(u) : s[i] = u[i]
  BY <1>1, <1>2, <1>3, Concatenated, Zenon
<1>5. ASSUME NEW i \in 1..pad PROVE s[Len(u) + i] = 0
  <2>1. i \in 1..Len(z)
    BY Zenon, <1>1
  <2>2. s[Len(u) + i] = z[i]
    BY <1>1, <1>2, <1>3, <2>1, Concatenated, Zenon
  <2> QED BY <1>1, <2>2, Zenon
<1>6. Len(t) \in Nat /\ Len(s) = Len(t) + 1 + pad /\ s[Len(t) + 1] = 2 /\ \A i \in 1..Len(t) : s[i] = t[i]
  BY <1>2, <1>4
<1>7. NonZero(s) \in SUBSET Nat /\ Len(t) + 1 \in NonZero(s)
  BY <1>4, <1>6 DEF NonZero
<1>8. ASSUME NEW i \in NonZero(s), ~(i <= Len(t) + 1) PROVE FALSE
  <2>1. i \in 1..Len(s) /\ s[i] # 0
    BY <1>4 DEF NonZero
  <2>2. i - Len(u) \in 1..pad /\ Len(u) + (i - Len(u)) = i
    BY <1>2, <1>6, <1>8, <2>1
  <2> QED BY Zenon, <1>5, <2>1, <2>2
<1>9. SubSeq(s, 1, Len(t)) = t
  <2>1. Len(t) <= Len(s)
    BY <1>6
  <2>2. /\ SubSeq(s, 1, Len(t)) \in Seq(Nat) /\ Len(SubSeq(s, 1, Len(t))) = Len(t)
        /\ \A i \in 1..Len(t) : SubSeq(s, 1, Len(t))[i] = t[i]
    BY <1>4, <1>6, <2>1, Front, Zenon
  <2> QED BY <2>2, SameSeq, Zenon
<1> QED BY <1>6, <1>7, <1>8, <1>9, Zenon DEF s

\* The user agent opens what was sealed for it.
LEMMA SealedOpens ==
    ASSUME NEW p \in [lead : Nat, tail : Seq(Nat)], NEW sub, NEW pad \in Nat
    PROVE  DecryptRecord(EncryptWithKeys(p, sub, pad), sub) = p
<1> DEFINE record == EncryptWithKeys(p, sub, pad)
           s == Sealed(p.tail, pad)
           n == Len(p.tail)
<1>1. p.tail \in Seq(Nat)
  BY Zenon
<1>2. /\ s[n + 1] = 2 /\ SubSeq(s, 1, n) = p.tail
      /\ NonZero(s) \in SUBSET Nat /\ n + 1 \in NonZero(s) /\ \A i \in NonZero(s) : i <= n + 1
  BY <1>1, DelimiterIsLast, Zenon
<1>3. /\ record.key = sub.key /\ record.auth = sub.auth /\ record.lead = p.lead /\ record.tail = s
  BY Zenon DEF EncryptWithKeys, Sealed
<1>4. (CHOOSE i \in NonZero(s) : \A j \in NonZero(s) : j <= i) = n + 1
  BY <1>2, LastOf, Zenon
<1>5. (n + 1) - 1 = n
  BY <1>1
<1> HIDE DEF record, s, n
<1>6. DecryptRecord(record, sub) = [lead |-> p.lead, tail |-> SubSeq(s, 1, n)]
  BY <1>2, <1>3, <1>4, <1>5, Zenon DEF DecryptRecord
<1> QED BY Zenon, <1>2, <1>6 DEF record

\* What Send posted for a request the service accepted.
InRange(life) == life > 0 /\ life <= 24 * HourMillis
Posted(r) ==
    /\ r.payload \in [lead : Nat, tail : Seq(Nat)]
    /\ r.body # <<>> => r.body[1] = EncryptWithKeys(r.payload, r.to, 0) /\ Size(r.payload) <= MaxPayloadSize
    /\ r.auth # <<>> => InRange(r.auth[1].life)
PushInv == (\A r \in kept : Posted(r)) /\ PushIntact

LEMMA TokenInRange == ASSUME NEW ttl \in Int PROVE InRange(TokenTTL(ttl))
<1>1. HourMillis \in Nat /\ HourMillis > 0
  BY DEF HourMillis
<1> QED BY <1>1 DEF TokenTTL, InRange

LEMMA SendPosts ==
    ASSUME PushInv, NEW sub \in Subscriptions, NEW p \in Payloads, NEW ttl \in TTLs,
           NEW vapid \in TTLs \cup {-1}, NEW status \in {201, 410}, Send(sub, p, ttl, vapid, status)
    PROVE  PushInv'
<1> DEFINE r == PushRequest(sub, p, ttl, vapid)
<1>1. shown' = shown
  BY Zenon DEF Send
<1>2. CASE kept' = kept
  BY Zenon, <1>1, <1>2 DEF PushInv, PushIntact
<1>3. CASE kept' # kept
  <2>1. kept' = kept \cup {r} /\ (Size(p) # 0 => EncryptChecks(p, sub) = "ok")
    BY Zenon, <1>3 DEF Send
  <2>2. r.payload = p /\ r.to = sub
    BY Zenon DEF PushRequest
  <2>3. p \in [lead : Nat, tail : Seq(Nat)]
    BY Zenon, PushAssumption
  <2>4. ASSUME r.body # <<>>
        PROVE  r.body[1] = EncryptWithKeys(p, sub, 0) /\ Size(p) <= MaxPayloadSize
    <3>1. Size(p) # 0 /\ r.body = << EncryptWithKeys(p, sub, 0) >>
      BY Zenon, <2>4 DEF PushRequest
    <3>2. ~(Size(p) > MaxPayloadSize)
      BY Zenon, <2>1, <3>1 DEF EncryptChecks
    <3> QED BY <2>3, <3>1, <3>2 DEF Size, MaxPayloadSize
  <2>5. ASSUME r.auth # <<>> PROVE InRange(r.auth[1].life)
    <3>1. vapid \in Int /\ r.auth = << SignJWT(sub.endpoint, vapid) >>
      BY <2>5, PushAssumption DEF PushRequest
    <3>2. r.auth[1].life = TokenTTL(vapid)
      BY <3>1 DEF SignJWT
    <3> QED BY <3>1, <3>2, TokenInRange
  <2>6. Posted(r)
    BY Zenon, <2>2, <2>3, <2>4, <2>5 DEF Posted
  <2> QED BY Zenon, <1>1, <2>1, <2>6 DEF PushInv, PushIntact
<1> QED BY Zenon, <1>2, <1>3

LEMMA OpenShows ==
    ASSUME PushInv, NEW r \in kept, NEW pad \in Paddings, Open(r, pad)
    PROVE  PushInv'
<1>1. Posted(r) /\ pad \in Nat
  BY Zenon, PushAssumption DEF PushInv
<1>2. PICK x \in Nat : shown' = shown \cup {[request |-> r, got |-> DecryptRecord(EncryptWithKeys(r.payload, r.to, x), r.to)]}
  <2>1. CASE pad = 0
    BY Zenon, <1>1, <2>1 DEF Open, Posted
  <2>2. CASE pad # 0
    BY Zenon, <1>1, <2>2 DEF Open
  <2> QED BY Zenon, <2>1, <2>2
<1>3. DecryptRecord(EncryptWithKeys(r.payload, r.to, x), r.to) = r.payload
  BY Zenon, <1>1, SealedOpens DEF Posted
<1>4. kept' \subseteq kept
  BY Zenon DEF Open
<1> QED BY <1>2, <1>3, <1>4 DEF PushInv, PushIntact

LEMMA PushStep == PushInv /\ [PushNext]_pushVars => PushInv'
<1> SUFFICES ASSUME PushInv, [PushNext]_pushVars PROVE PushInv'
  BY Zenon
<1>1. CASE UNCHANGED pushVars
  BY Zenon, <1>1 DEF PushInv, PushIntact, pushVars
<1>2. CASE PushNext
  BY <1>2, SendPosts, OpenShows DEF PushNext
<1> QED BY Zenon, <1>1, <1>2

\* Client.Send, Encrypt, SignJWT and Decrypt: for every set of payloads, lifetimes
\* and paddings, the user agent gets the payload that was sent, in one record of
\* at most 4096 bytes, with a token that lives between a millisecond and a day.
THEOREM PushesAreDelivered == PushSpec => []PushDelivered
<1>1. PushInit => PushInv
  BY Zenon DEF PushInit, PushInv, PushIntact
<1>2. PushInv => PushDelivered
  <2> SUFFICES ASSUME PushInv, NEW r \in kept
               PROVE  /\ r.body # <<>> => RecordSize(r.body[1]) <= DefaultRecordSize
                      /\ r.auth # <<>> => InRange(r.auth[1].life)
    BY Zenon DEF PushDelivered, PushWithinLimits, PushInv, InRange
  <2>1. Posted(r)
    BY Zenon DEF PushInv
  <2>2. ASSUME r.body # <<>> PROVE RecordSize(r.body[1]) <= DefaultRecordSize
    <3> DEFINE p == r.payload
               s == Sealed(p.tail, 0)
    <3>1. p \in [lead : Nat, tail : Seq(Nat)] /\ r.body[1] = EncryptWithKeys(p, r.to, 0) /\ Size(p) <= MaxPayloadSize
      BY Zenon, <2>1, <2>2 DEF Posted
    <3>2. r.body[1].lead = p.lead /\ r.body[1].tail = s
      BY <3>1 DEF EncryptWithKeys, Sealed
    <3>3. Len(s) = Len(p.tail) + 1 + 0
      BY <3>1, p.tail \in Seq(Nat), 0 \in Nat, DelimiterIsLast, Zenon
    <3> HIDE DEF s
    <3> QED BY <3>1, <3>2, <3>3 DEF RecordSize, Size, MaxPayloadSize, DefaultRecordSize, HeaderLength, Tag
  <2> QED BY Zenon, <2>1, <2>2 DEF Posted
<1> QED BY <1>1, <1>2, PushStep, PTL DEF PushSpec

---------------------------------------------------------------------------
---------------------------------------------------------------------------
(* Error codes.  With n = 30 q + r the code point is 31 q + r: the reserved *)
(* points are those with remainder 30.                                      *)

LEMMA CodePoint ==
    ASSUME NEW n \in Nat
    PROVE  /\ WebTransportCodeToHTTPCode(n) = 31 * (n \div 30) + (n % 30)
           /\ WebTransportCodeToHTTPCode(n) \in Nat
           /\ n % 30 \in 0..29 /\ n \div 30 \in Nat /\ n = 30 * (n \div 30) + (n % 30)
  <1>1. n % 30 \in 0..29
    BY SMT
  <1>2. n \div 30 \in Nat
    BY SMT
  <1>3. n = 30 * (n \div 30) + (n % 30)
    BY SMT
  <1> QED
    BY <1>1, <1>2, <1>3 DEF WebTransportCodeToHTTPCode

\* Every error code comes back from the HTTP/3 code space as it was: the peer's
\* HTTPCodeToWebTransportCode inverts WebTransportCodeToHTTPCode, so no two codes
\* share a point and none is mapped to a reserved one.
THEOREM CodeRoundTrip ==
    \A n \in Nat : HTTPCodeToWebTransportCode(WebTransportCodeToHTTPCode(n)) = n
  <1> SUFFICES ASSUME NEW n \in Nat
               PROVE  HTTPCodeToWebTransportCode(WebTransportCodeToHTTPCode(n)) = n
    BY Zenon
  <1> DEFINE q == n \div 30
             r == n % 30
  <1>1. /\ WebTransportCodeToHTTPCode(n) = 31 * q + r /\ r \in 0..29 /\ q \in Nat /\ n = 30 * q + r
    BY ZenonT(30), CodePoint
  <1> HIDE DEF q, r
  <1>2. (31 * q + r) \div 31 = q /\ (31 * q + r + 1) % 31 = r + 1
    BY <1>1
  <1> QED
    BY <1>1, <1>2 DEF HTTPCodeToWebTransportCode

\* And every point that is not reserved is the point of the code it is decoded
\* to: nothing a peer may send is decoded to another code's point.
THEOREM PointRoundTrip ==
    \A h \in Nat : HTTPCodeToWebTransportCode(h) # -1 =>
        WebTransportCodeToHTTPCode(HTTPCodeToWebTransportCode(h)) = h
  <1> SUFFICES ASSUME NEW h \in Nat, HTTPCodeToWebTransportCode(h) # -1
               PROVE  WebTransportCodeToHTTPCode(HTTPCodeToWebTransportCode(h)) = h
    BY Zenon
  <1> DEFINE q == h \div 31
             r == h % 31
  <1>1. q \in Nat /\ r \in 0..30 /\ h = 31 * q + r
    OBVIOUS
  <1>2. (h + 1) % 31 # 0 /\ HTTPCodeToWebTransportCode(h) = h - q
    BY Zenon DEF HTTPCodeToWebTransportCode
  <1> HIDE DEF q, r
  <1>3. r # 30
    BY <1>1, <1>2
  <1>4. h - q = 30 * q + r /\ (30 * q + r) \div 30 = q
    BY <1>1, <1>3
  <1> QED
    BY <1>1, <1>2, <1>4 DEF WebTransportCodeToHTTPCode

---------------------------------------------------------------------------
(* Close messages. *)

\* TruncateErrorMessage leaves at most 1024 bytes that end with a whole rune,
\* which is what DecodeCloseSessionPayload accepts, for any number of ASCII bytes
\* and any number of wider runes of one width after them.
THEOREM CloseMessageAccepted ==
    ASSUME NEW m \in [ascii : Nat, wide : Nat, width : 2..4]
    PROVE  DecodeCloseSessionPayload(m, TruncateErrorMessage(m)) = TruncateErrorMessage(m)
  <1>1. m.ascii \in Nat /\ m.wide \in Nat /\ m.width \in {2, 3, 4}
    OBVIOUS
  <1>2. CASE m.width = 2
    BY <1>1, <1>2 DEF DecodeCloseSessionPayload, TruncateErrorMessage, Bytes
  <1>3. CASE m.width = 3
    BY <1>1, <1>3 DEF DecodeCloseSessionPayload, TruncateErrorMessage, Bytes
  <1>4. CASE m.width = 4
    BY <1>1, <1>4 DEF DecodeCloseSessionPayload, TruncateErrorMessage, Bytes
  <1> QED
    BY Zenon, <1>1, <1>2, <1>3, <1>4

---------------------------------------------------------------------------
(* Timeouts, whatever the units. *)

LEMMA UnitHonest ==
    ASSUME NEW d \in Nat, NEW u \in Nat, 0 < u, u <= d
    PROVE  (d \div u) * u \in Nat /\ (d \div u) * u <= d /\ d < 2 * ((d \div u) * u)
  <1>1. d \div u \in Int /\ d % u \in 0..(u - 1) /\ d = u * (d \div u) + (d % u)
    BY SMTT(30)
  <1>2. PICK q \in Int, r \in Int : q = d \div u /\ r = d % u
    BY <1>1
  <1>3. d = u * q + r /\ 0 <= r /\ r < u
    BY <1>1, <1>2
  <1>4. q >= 1
    BY SMTT(30), <1>3
  <1>5. u * q >= u
    BY SMTT(30), <1>4
  <1> QED
    BY SMTT(30), <1>2, <1>3, <1>4, <1>5

\* The timeout that the server reads is never longer than the caller's and always
\* more than half of it, for every duration: formatGRPCTimeout rounds down to a
\* unit of which there is at least one.
THEOREM TimeoutRoundsDown ==
    ASSUME NEW d \in Int
    PROVE  LET t == FormatGRPCTimeout(d)
           IN  IF d <= 0 THEN t[1] * t[2] = 0 ELSE t[1] * t[2] <= d /\ d < 2 * (t[1] * t[2])
  <1> USE WireAssumption
  <1>1. CASE d <= 0
    BY <1>1 DEF FormatGRPCTimeout, WireAssumption
  <1>2. CASE d > 0
    <2>1. PICK u \in Nat : 0 < u /\ u <= d /\ FormatGRPCTimeout(d) = <<d \div u, u>>
      <3>1. CASE d < Micro
        <4>1. FormatGRPCTimeout(d) = <<d \div 1, 1>>
          BY <1>2, <3>1 DEF FormatGRPCTimeout, WireAssumption
        <4> QED
          BY <1>2, <4>1
      <3>2. CASE Micro <= d /\ d < Milli
        BY <3>2 DEF FormatGRPCTimeout, WireAssumption
      <3>3. CASE Milli <= d /\ d < Second
        BY <3>3 DEF FormatGRPCTimeout, WireAssumption
      <3>4. CASE Second <= d /\ d < Minute
        BY <3>4 DEF FormatGRPCTimeout, WireAssumption
      <3>5. CASE Minute <= d /\ d < Hour
        BY <3>5 DEF FormatGRPCTimeout, WireAssumption
      <3>6. CASE Hour <= d
        BY <3>6 DEF FormatGRPCTimeout, WireAssumption
      <3> QED
        BY <3>1, <3>2, <3>3, <3>4, <3>5, <3>6 DEF WireAssumption
    <2>2. d \in Nat
      BY <1>2
    <2>3. (d \div u) * u <= d /\ d < 2 * ((d \div u) * u)
      BY Zenon, <2>1, <2>2, UnitHonest
    <2> QED
      BY <1>2, <2>1, <2>3
  <1> QED
    BY <1>1, <1>2

---------------------------------------------------------------------------
(* Trace contexts. *)

Parsed(trace, span, flags) == [trace |-> trace, span |-> span, flags |-> flags, state |-> ""]

LEMMA ParsedIsValid ==
    ASSUME NEW t, NEW s, NEW f, t # 0
    PROVE  Parsed(t, s, f) # NoContext
  <1>1. Parsed(t, s, f).trace = t /\ NoContext.trace = 0
    BY Zenon DEF Parsed, NoContext
  <1> QED
    BY ZenonT(30), <1>1

LEMMA StateAdded ==
    ASSUME NEW t, NEW s, NEW f, NEW x
    PROVE  [Parsed(t, s, f) EXCEPT !.state = x] = [trace |-> t, span |-> s, flags |-> f, state |-> x]
  <1>1. Parsed(t, s, f) \in [trace : {t}, span : {s}, flags : {f}, state : {""}]
    BY Zenon DEF Parsed
  <1>2. [Parsed(t, s, f) EXCEPT !.state = x] \in [trace : {t}, span : {s}, flags : {f}, state : {x}]
    BY ZenonT(30), <1>1
  <1>3. PICK r \in [trace : {t}, span : {s}, flags : {f}, state : {x}] : r = [Parsed(t, s, f) EXCEPT !.state = x]
    BY ZenonT(30), <1>2
  <1>4. r = [trace |-> t, span |-> s, flags |-> f, state |-> x]
    BY Zenon
  <1> QED
    BY ZenonT(30), <1>3, <1>4

LEMMA OneElement ==
    ASSUME NEW x
    PROVE  <<x>> # <<>> /\ <<x>>[1] = x
  BY Zenon

LEMMA TakenIsParsed ==
    ASSUME NEW h, ~(h.len < 55), h.version # "ff", h.version = "00" => h.len = 55, h.trace # 0, h.span # 0
    PROVE  ParseTraceParent(h) = Parsed(h.trace, h.span, h.flags[1] * 16 + h.flags[2])
  BY ZenonT(30) DEF ParseTraceParent, Parsed

\* A context with both identifiers comes back from the carrier as it was, flags
\* and tracestate included; another is not put into it.
LEMMA ContextRoundTrip ==
    ASSUME NEW c \in SpanContexts
    PROVE  Extract(Inject(c)) = IF 0 \in {c.trace, c.span} THEN NoContext ELSE c
  <1>1. /\ c = [trace |-> c.trace, span |-> c.span, flags |-> c.flags, state |-> c.state]
        /\ c.trace \in Nat /\ c.span \in Nat /\ c.flags \in 0..255
    BY Zenon, WireAssumption DEF WireAssumption
  <1>2. CASE 0 \in {c.trace, c.span}
    <2>1. Inject(c).parent = <<>>
      BY Zenon, <1>2 DEF Inject
    <2> QED
      BY Zenon, <1>2, <2>1 DEF Extract
  <1>3. CASE c.trace # 0 /\ c.span # 0
    <2>1. Inject(c).parent = <<TraceParent(c)>> /\ Inject(c).state = c.state
      BY ZenonT(30), <1>3 DEF Inject
    <2>2. ParseTraceParent(TraceParent(c)) = Parsed(c.trace, c.span, c.flags)
      <3>1. PICK tp : tp = TraceParent(c)
        BY Zenon
      <3>2. /\ tp.version = "00" /\ tp.len = 55 /\ tp.trace = c.trace /\ tp.span = c.span
            /\ tp.flags = <<c.flags \div 16, c.flags % 16>>
        BY ZenonT(30), <3>1 DEF TraceParent
      <3>3. tp.flags[1] * 16 + tp.flags[2] = c.flags
        <4>1. PICK f \in 0..255 : f = c.flags
          BY Zenon, <1>1
        <4>2. (f \div 16) * 16 + (f % 16) = f
          BY <4>1
        <4>3. tp.flags[1] = f \div 16 /\ tp.flags[2] = f % 16
          BY <3>2, <4>1
        <4> QED
          BY ZenonT(30), <4>1, <4>2, <4>3
      <3>4. ~(55 < 55)
        OBVIOUS
      <3> QED
        BY ZenonT(30), <1>3, <3>1, <3>2, <3>3, <3>4, TakenIsParsed
    <2>3. Extract(Inject(c)) = [Parsed(c.trace, c.span, c.flags) EXCEPT !.state = c.state]
      <3>1. PICK carrier : carrier = Inject(c)
        BY Zenon
      <3>2. carrier.parent # <<>> /\ carrier.parent[1] = TraceParent(c) /\ carrier.state = c.state
        BY ZenonT(30), <2>1, <3>1, OneElement
      <3>3. Parsed(c.trace, c.span, c.flags) # NoContext
        BY Zenon, <1>3, ParsedIsValid
      <3> QED
        BY ZenonT(30), <2>2, <3>1, <3>2, <3>3 DEF Extract
    <2>4. [Parsed(c.trace, c.span, c.flags) EXCEPT !.state = c.state] = c
      <3>1. [Parsed(c.trace, c.span, c.flags) EXCEPT !.state = c.state]
              = [trace |-> c.trace, span |-> c.span, flags |-> c.flags, state |-> c.state]
        BY ZenonT(30), StateAdded
      <3> QED
        BY ZenonT(30), <1>1, <3>1
    <2> QED
      BY ZenonT(30), <1>3, <2>3, <2>4
  <1> QED
    BY Zenon, <1>2, <1>3

\* A traceparent that the code takes continues its trace.
LEMMA HeaderContinues ==
    ASSUME NEW h \in TraceParents, h.version # "ff", ~(h.len < 55), ~(h.version = "00" /\ h.len > 55),
           h.trace # 0, h.span # 0
    PROVE  LET c == Extract([parent |-> <<h>>, state |-> ""]) IN c.trace = h.trace /\ c.span = h.span
  <1>1. PICK n \in Nat : n = h.len
    BY ZenonT(30), WireAssumption DEF WireAssumption
  <1>2. ~(n < 55) /\ (h.version = "00" => n = 55)
    BY <1>1
  <1>3. PICK f : f = h.flags[1] * 16 + h.flags[2]
    BY Zenon
  <1>4. ParseTraceParent(h) = Parsed(h.trace, h.span, f)
    BY ZenonT(30), <1>1, <1>2, <1>3, TakenIsParsed
  <1>5. Parsed(h.trace, h.span, f) # NoContext
    BY Zenon, ParsedIsValid
  <1>6. PICK carrier : carrier = [parent |-> <<h>>, state |-> ""]
    BY Zenon
  <1>7. carrier.parent # <<>> /\ carrier.parent[1] = h
    BY ZenonT(30), <1>6, OneElement
  <1>8. Extract(carrier) = [Parsed(h.trace, h.span, f) EXCEPT !.state = carrier.state]
    BY ZenonT(30), <1>4, <1>5, <1>7 DEF Extract
  <1>9. Extract(carrier).trace = h.trace /\ Extract(carrier).span = h.span
    BY ZenonT(30), <1>8 DEF Parsed
  <1> QED
    BY ZenonT(30), <1>6, <1>9

---------------------------------------------------------------------------
WireSpec == WireInit /\ [][WireNext]_wireVars

\* What one exchange leaves: a pair of the value and of what it is decoded to.
WireInv ==
    \/ value = <<>>
    \/ \E n \in Codes : value = <<"code", n>> /\ decoded = HTTPCodeToWebTransportCode(WebTransportCodeToHTTPCode(n))
    \/ \E m \in Messages : value = <<"close", m>> /\ decoded = DecodeCloseSessionPayload(m, TruncateErrorMessage(m))
    \/ \E p \in Packets : value = <<"packet", p>>
    \/ \E d \in Durations : value = <<"timeout", d>> /\ decoded = FormatGRPCTimeout(d)[1] * FormatGRPCTimeout(d)[2]
    \/ \E c \in SpanContexts : value = <<"trace", c>> /\ decoded = Extract(Inject(c))
    \/ \E h \in TraceParents : value = <<"header", h>> /\ decoded = Extract([parent |-> <<h>>, state |-> ""])

LEMMA WireInvImplies == WireInv => CodecsRoundTrip
  <1> SUFFICES ASSUME WireInv PROVE CodecsRoundTrip
    BY Zenon
  <1> USE DEF CodecsRoundTrip, CodeKept, CloseAccepted, TimeoutHonest, ContextKept, Is
  <1>1. CASE value = <<>>
    BY Zenon, <1>1
  <1>2. ASSUME NEW n \in Codes, value = <<"code", n>>, decoded = HTTPCodeToWebTransportCode(WebTransportCodeToHTTPCode(n))
        PROVE  CodecsRoundTrip
    <2>1. HTTPCodeToWebTransportCode(WebTransportCodeToHTTPCode(n)) = n
      BY ZenonT(30), CodeRoundTrip, WireAssumption DEF WireAssumption
    <2> QED
      BY Zenon, <1>2, <2>1
  <1>3. ASSUME NEW m \in Messages, value = <<"close", m>>, decoded = DecodeCloseSessionPayload(m, TruncateErrorMessage(m))
        PROVE  CodecsRoundTrip
    <2>1. DecodeCloseSessionPayload(m, TruncateErrorMessage(m)) = TruncateErrorMessage(m)
      BY ZenonT(30), CloseMessageAccepted, WireAssumption DEF WireAssumption
    <2> QED
      BY Zenon, <1>3, <2>1
  <1>4. ASSUME NEW p \in Packets, value = <<"packet", p>> PROVE CodecsRoundTrip
    BY Zenon, <1>4
  <1>5. ASSUME NEW d \in Durations, value = <<"timeout", d>>, decoded = FormatGRPCTimeout(d)[1] * FormatGRPCTimeout(d)[2]
        PROVE  CodecsRoundTrip
    <2>1. d \in Int
      BY Zenon, WireAssumption DEF WireAssumption
    <2>2. IF d <= 0 THEN decoded = 0 ELSE decoded <= d /\ d < 2 * decoded
      BY Zenon, <1>5, <2>1, TimeoutRoundsDown
    <2> QED
      BY <1>5, <2>1, <2>2
  <1>6. ASSUME NEW c \in SpanContexts, value = <<"trace", c>>, decoded = Extract(Inject(c)) PROVE CodecsRoundTrip
    <2>1. decoded = IF 0 \in {c.trace, c.span} THEN NoContext ELSE c
      BY Zenon, <1>6, ContextRoundTrip
    <2> QED
      BY Zenon, <1>6, <2>1
  <1>7. ASSUME NEW h \in TraceParents, value = <<"header", h>>, decoded = Extract([parent |-> <<h>>, state |-> ""])
        PROVE  CodecsRoundTrip
    <2>1. PICK c : c = Extract([parent |-> <<h>>, state |-> ""])
      BY Zenon
    <2>2. \/ h.version = "ff" \/ h.len < 55 \/ (h.version = "00" /\ h.len > 55)
          \/ 0 \in {h.trace, h.span}
          \/ decoded.trace = h.trace /\ decoded.span = h.span
      BY ZenonT(30), <1>7, <2>1, HeaderContinues
    <2> QED
      BY ZenonT(30), <1>7, <2>2
  <1> QED
    BY ZenonT(30), <1>1, <1>2, <1>3, <1>4, <1>5, <1>6, <1>7 DEF WireInv

\* Whatever is exchanged, error codes, close messages and trace contexts are
\* decoded to what was encoded, and a timeout is neither longer nor less than half.
THEOREM CodecsAreSound == WireSpec => []CodecsRoundTrip
  <1>1. WireInit => WireInv
    BY Zenon DEF WireInit, WireInv
  <1>2. WireInv /\ [WireNext]_wireVars => WireInv'
    <2> SUFFICES ASSUME WireInv, [WireNext]_wireVars PROVE WireInv'
      BY Zenon
    <2>1. CASE WireNext
      BY ZenonT(60), <2>1 DEF WireNext, ResetStream, CloseWithError, Emit, Invoke, Propagate, Continue, Exchange, WireInv
    <2>2. CASE UNCHANGED wireVars
      BY ZenonT(30), <2>2 DEF wireVars, WireInv
    <2> QED
      BY Zenon, <2>1, <2>2
  <1> QED
    BY <1>1, <1>2, WireInvImplies, PTL DEF WireSpec

---------------------------------------------------------------------------
SigSpec == SigInit /\ [][SigNext]_sigVars
DPoPSpec == DPoPInit /\ [][DPoPNext]_dpopVars
PKCESpec == PKCEInit /\ [][PKCENext]_pkceVars

---------------------------------------------------------------------------
(* The code exchange. *)

PKCEInv ==
    /\ pair.asked \in Int /\ (pair.verifier = 0 \/ (pair.verifier \in Int /\ 43 <= pair.verifier /\ pair.verifier <= 128))
    /\ pair.verifier # 0 => pair.challenge = <<"S256", pair.verifier>>
    /\ exchange.granted => exchange.presented # 0
    /\ exchange.presented # 0 => pair.verifier # 0
    /\ VerifierFits /\ GrantIsBound

LEMMA VerifierIsFilled ==
    ASSUME NEW l \in Int
    PROVE  LET v == GenerateVerifier(l) IN
           /\ v = 0 \/ (v \in Int /\ 43 <= v /\ v <= 128)
           /\ l \in 43..128 => v = l
  BY DEF GenerateVerifier, Encoded, CeilDiv, RawLen

LEMMA PKCEStarts == PKCEInit => PKCEInv
  BY DEF PKCEInit, NoExchange, PKCEInv, VerifierFits, GrantIsBound

LEMMA NewKeeps == ASSUME PKCEInv, NEW l \in Lengths, New(l) PROVE PKCEInv'
<1> DEFINE v == GenerateVerifier(l)
<1>1. l \in Int
  BY Zenon, PKCEAssumption
<1>2. pair' = [asked |-> l, verifier |-> v, challenge |-> ComputeChallenge(v, "S256")] /\ exchange' = exchange
      /\ pair.verifier = 0
  BY Zenon DEF New
<1>3. /\ v = 0 \/ (v \in Int /\ 43 <= v /\ v <= 128)
      /\ l \in 43..128 => v = l
  BY Zenon, <1>1, VerifierIsFilled
<1> HIDE DEF v
<1>4. v # 0 => ComputeChallenge(v, "S256") = <<"S256", v>>
  BY <1>3 DEF ComputeChallenge
<1>5. exchange.presented = 0 /\ ~exchange.granted
  BY ZenonT(30), <1>2 DEF PKCEInv
<1> QED BY Zenon, <1>1, <1>2, <1>3, <1>4, <1>5 DEF PKCEInv, VerifierFits, GrantIsBound

LEMMA RedeemKeeps ==
    ASSUME PKCEInv, NEW v \in {pair.verifier, pair.verifier + 1}, NEW m, NEW reg, NEW req, Redeem(v, m, reg, req)
    PROVE  PKCEInv'
<1>1. /\ pair' = pair /\ pair.verifier # 0
      /\ exchange' = [registered |-> reg, redirect |-> req, presented |-> v, method |-> m,
                    granted |-> MatchRedirectURI(reg, req) /\ Validate(v, pair.challenge, m)]
  BY ZenonT(30) DEF Redeem
<1>2. /\ pair.verifier \in Int /\ 43 <= pair.verifier /\ pair.verifier <= 128
      /\ pair.challenge = <<"S256", pair.verifier>>
  BY Zenon, <1>1 DEF PKCEInv
<1>3. v # 0
  BY <1>2
<1>4. ASSUME Validate(v, pair.challenge, m) PROVE v = pair.verifier /\ m \in {"empty", "S256"}
  BY <1>2, <1>4 DEF Validate, ComputeChallenge
<1>5. ASSUME MatchRedirectURI(reg, req), reg # req
      PROVE  /\ reg.scheme = req.scheme /\ reg.path = req.path
             /\ IsLoopbackHost(reg.host) /\ IsLoopbackHost(req.host)
  BY Zenon, <1>5 DEF MatchRedirectURI
<1>6. GrantIsBound'
  BY <1>1, <1>4, <1>5, Zenon DEF GrantIsBound
<1> QED BY ZenonT(30), <1>1, <1>2, <1>3, <1>6 DEF PKCEInv, VerifierFits

LEMMA PKCEPreserved == PKCEInv /\ [PKCENext]_pkceVars => PKCEInv'
<1> SUFFICES ASSUME PKCEInv, [PKCENext]_pkceVars PROVE PKCEInv'
  BY Zenon
<1>1. CASE \E l \in Lengths : New(l)
  BY Zenon, <1>1, NewKeeps
<1>2. CASE \E v \in {pair.verifier, pair.verifier + 1}, m \in Methods, reg, req \in URIs : Redeem(v, m, reg, req)
  BY ZenonT(30), <1>2, RedeemKeeps
<1>3. CASE UNCHANGED pkceVars
  BY Zenon, <1>3 DEF pkceVars, PKCEInv, VerifierFits, GrantIsBound
<1> QED BY Zenon, <1>1, <1>2, <1>3 DEF PKCENext

LEMMA PKCESafe == PKCESpec => []PKCEInv
<1>1. PKCEInit => PKCEInv
  BY Zenon, PKCEStarts
<1>2. PKCEInv /\ [PKCENext]_pkceVars => PKCEInv'
  BY Zenon, PKCEPreserved
<1> QED BY <1>1, <1>2, PTL DEF PKCESpec

---------------------------------------------------------------------------
(* Proofs of possession. *)

\* The proof made of a request, and the verdict on it.
ProofOf(k, r, o, t) ==
    LET jwk == PublicKeyToJWK(k)
        header == [typ |-> "dpop+jwt", alg |-> jwk.alg, jwk |-> jwk]
        claims == [htm |-> Upper(r.method), htu |-> NormalizeTargetURI(TargetURL(r)), iat |-> t,
                   nonce |-> o.nonce, ath |-> o.token]
    IN  [header |-> header, claims |-> claims, sig |-> <<k, header, claims>>]
VerdictOf(p, req, policy) ==
    <<req, policy,
      IF HeaderResult(p) # "ok" THEN HeaderResult(p)
      ELSE ClaimsResult(p.claims, IF policy.method # "empty" THEN policy.method ELSE req.method, TargetURL(req),
                        IF policy.token # "empty" THEN policy.token ELSE req.token, policy.nonce),
      ComputeThumbprint(p.header.jwk)>>

MadeInv ==
    proof # <<>> =>
        \E k \in DPoPKeys, r \in Requests, o \in ProofOptions, t \in Nat :
            /\ t <= dpopNow /\ proofMade = <<r, o, t, k>> /\ proof = <<ProofOf(k, r, o, t)>>
            /\ PublicKeyToJWK(k).kty # "empty" /\ PublicKeyToJWK(k).alg \in JWSAlgs(k)
DPoPInv ==
    /\ dpopNow \in Nat /\ MadeInv
    /\ proofVerdict # <<>> => /\ proof # <<>>
                              /\ \E r \in Requests, tls \in BOOLEAN, v \in Policies :
                                    proofVerdict = VerdictOf(proof[1], Received(r, tls), v)

LEMMA DPoPStarts == DPoPInit => DPoPInv
  BY DEF DPoPInit, DPoPInv, MadeInv

LEMMA DPoPTickKeeps == ASSUME DPoPInv, DPoPTick PROVE DPoPInv'
<1>1. dpopNow' = dpopNow + 1 /\ proofVerdict' = <<>> /\ proof' = proof /\ proofMade' = proofMade
  BY Zenon DEF DPoPTick
<1>2. dpopNow' \in Nat /\ \A t \in Nat : t <= dpopNow => t <= dpopNow'
  BY <1>1 DEF DPoPInv
<1>3. MadeInv'
  BY <1>1, <1>2, Zenon DEF DPoPInv, MadeInv
<1> QED BY <1>1, <1>2, <1>3, Zenon DEF DPoPInv

LEMMA CreateKeeps ==
    ASSUME DPoPInv, NEW k \in DPoPKeys, NEW r \in Requests, NEW o \in ProofOptions, CreateProofForRequest(k, r, o)
    PROVE  DPoPInv'
<1>1. /\ proof = <<>> /\ dpopNow' = dpopNow /\ proofVerdict' = proofVerdict
      /\ PublicKeyToJWK(k).kty # "empty" /\ PublicKeyToJWK(k).alg \in JWSAlgs(k)
      /\ proof' = <<ProofOf(k, r, o, dpopNow)>> /\ proofMade' = <<r, o, dpopNow, k>>
  BY Zenon DEF CreateProofForRequest, ProofOf
<1>2. dpopNow \in Nat /\ dpopNow <= dpopNow /\ proofVerdict = <<>>
  BY <1>1 DEF DPoPInv
<1>3. MadeInv'
  BY <1>1, <1>2, Zenon DEF MadeInv
<1> QED BY <1>1, <1>2, <1>3, Zenon DEF DPoPInv

LEMMA VerifyKeeps ==
    ASSUME DPoPInv, NEW r \in Requests, NEW tls \in BOOLEAN, NEW v \in Policies,
           VerifyProofForRequest(Received(r, tls), v)
    PROVE  DPoPInv'
<1>1. /\ proof # <<>> /\ dpopNow' = dpopNow /\ proof' = proof /\ proofMade' = proofMade
      /\ proofVerdict' = VerdictOf(proof[1], Received(r, tls), v)
  BY Zenon DEF VerifyProofForRequest, VerdictOf
<1>2. MadeInv'
  BY <1>1, Zenon DEF DPoPInv, MadeInv
<1>3. VerdictOf(proof[1], Received(r, tls), v)' = VerdictOf(proof[1], Received(r, tls), v)
  BY <1>1, Zenon DEF VerdictOf, HeaderResult, ClaimsResult
<1> QED BY <1>1, <1>2, <1>3, Zenon DEF DPoPInv

LEMMA DPoPPreserved == DPoPInv /\ [DPoPNext]_dpopVars => DPoPInv'
<1> SUFFICES ASSUME DPoPInv, [DPoPNext]_dpopVars PROVE DPoPInv'
  BY Zenon
<1>1. CASE DPoPTick
  BY Zenon, <1>1, DPoPTickKeeps
<1>2. CASE \E k \in DPoPKeys, r \in Requests, o \in ProofOptions : CreateProofForRequest(k, r, o)
  BY Zenon, <1>2, CreateKeeps
<1>3. CASE \E r \in Requests, tls \in BOOLEAN, v \in Policies : VerifyProofForRequest(Received(r, tls), v)
  BY <1>3, VerifyKeeps, Zenon
<1>4. CASE UNCHANGED dpopVars
  <2>1. dpopNow' = dpopNow /\ proof' = proof /\ proofMade' = proofMade /\ proofVerdict' = proofVerdict
    BY Zenon, <1>4 DEF dpopVars
  <2>2. MadeInv'
    BY <2>1, Zenon DEF DPoPInv, MadeInv
  <2>3. \A p, req, v : VerdictOf(p, req, v)' = VerdictOf(p, req, v)
    <3>1. \A c, m, u, k, n : ClaimsResult(c, m, u, k, n)' = ClaimsResult(c, m, u, k, n)
      BY <2>1 DEF ClaimsResult
    <3>2. \A p : HeaderResult(p)' = HeaderResult(p)
      BY Zenon DEF HeaderResult
    <3> QED BY <3>1, <3>2, Zenon DEF VerdictOf
  <2> QED BY <2>1, <2>2, <2>3, Zenon DEF DPoPInv
<1> QED BY Zenon, <1>1, <1>2, <1>3, <1>4 DEF DPoPNext

LEMMA DPoPSafe == DPoPSpec => []DPoPInv
<1>1. DPoPInit => DPoPInv
  BY Zenon, DPoPStarts
<1>2. DPoPInv /\ [DPoPNext]_dpopVars => DPoPInv'
  BY Zenon, DPoPPreserved
<1> QED BY <1>1, <1>2, PTL DEF DPoPSpec

\* What the two sides make of a request's URL.
Rooted(path) == IF path = "empty" THEN "/" ELSE path
Parts == {"scheme", "host", "path", "query", "fragment"}
IsURL(u) == u = [f \in Parts |-> u[f]]
LEMMA Normalized ==
    ASSUME NEW u, IsURL(u)
    PROVE  LET n == NormalizeTargetURI(u) IN
           /\ IsURL(n) /\ n.scheme = (IF u.scheme = "HTTPS" THEN "https" ELSE u.scheme) /\ n.host = u.host
           /\ n.path = Rooted(u.path) /\ n.query = "empty" /\ n.fragment = "empty"
<1> DEFINE n == NormalizeTargetURI(u)
<1>0. DOMAIN u = Parts
  BY Zenon DEF IsURL
<1>1. IsURL(n)
  BY <1>0, Zenon DEF NormalizeTargetURI, IsURL
<1>2. n.scheme = (IF u.scheme = "HTTPS" THEN "https" ELSE u.scheme) /\ n.host = u.host
  BY Zenon, <1>0 DEF NormalizeTargetURI, Parts
<1>3. n.path = Rooted(u.path) /\ n.query = "empty" /\ n.fragment = "empty"
  BY Zenon, <1>0 DEF NormalizeTargetURI, Parts, Rooted
<1> QED BY Zenon, <1>1, <1>2, <1>3

LEMMA SameURL ==
    ASSUME NEW u, NEW w, IsURL(u), IsURL(w),
           u.scheme = w.scheme, u.host = w.host, u.path = w.path, u.query = w.query, u.fragment = w.fragment
    PROVE  u = w
  BY Zenon DEF IsURL, Parts

RequestFields == {"url", "host", "tls", "method", "token"}
LEMMA RequestShape ==
    ASSUME NEW r \in Requests
    PROVE  /\ IsURL(r.url) /\ r.url.scheme \in {"http", "https", "HTTPS"} /\ r.url.host # "empty"
           /\ r.method # "empty" /\ r = [f \in RequestFields |-> r[f]]
<1>1. r.url \in [scheme : {"http", "https", "HTTPS"}, host : STRING \ {"empty"},
                path : STRING, query : STRING, fragment : STRING]
  BY DPoPAssumption, Zenon
<1>2. r \in [url : {r.url}, host : {"empty"}, tls : {FALSE}, method : STRING \ {"empty"}, token : STRING]
  BY DPoPAssumption, Zenon
<1>3. IsURL(r.url)
  BY Zenon, <1>1 DEF IsURL, Parts
<1>4. r = [f \in RequestFields |-> r[f]]
  BY Zenon, <1>2 DEF RequestFields
<1>5. r.url.scheme \in {"http", "https", "HTTPS"} /\ r.url.host # "empty"
  BY Zenon, <1>1
<1>6. r.method # "empty"
  BY Zenon, <1>2
<1> QED BY Zenon, <1>3, <1>4, <1>5, <1>6

LEMMA TargetSent ==
    ASSUME NEW r \in Requests
    PROVE  LET n == NormalizeTargetURI(TargetURL(r)) IN
           /\ IsURL(n) /\ n.scheme = (IF r.url.scheme = "HTTPS" THEN "https" ELSE r.url.scheme)
           /\ n.host = r.url.host /\ n.path = Rooted(r.url.path) /\ n.query = "empty" /\ n.fragment = "empty"
<1>1. IsURL(r.url) /\ r.url.scheme # "empty"
  BY Zenon, RequestShape
<1>2. TargetURL(r) = r.url
  BY Zenon, <1>1 DEF TargetURL
<1> QED BY <1>1, <1>2, Normalized, Zenon

LEMMA TargetReceived ==
    ASSUME NEW r \in Requests, NEW tls \in BOOLEAN
    PROVE  LET n == NormalizeTargetURI(TargetURL(Received(r, tls))) IN
           /\ IsURL(n) /\ n.scheme = (IF tls THEN "https" ELSE "http")
           /\ n.host = r.url.host /\ n.path = Rooted(r.url.path) /\ n.query = "empty" /\ n.fragment = "empty"
           /\ Received(r, tls).host = r.url.host /\ Received(r, tls).url.path = r.url.path
           /\ Received(r, tls).method = r.method /\ Received(r, tls).token = r.token
<1> DEFINE g == Received(r, tls)
           w == g.url
           u == TargetURL(g)
<1>1. /\ DOMAIN r = RequestFields /\ DOMAIN (r.url) = Parts /\ r.url.host # "empty"
  BY RequestShape, Zenon DEF IsURL
<1>2. /\ g.host = r.url.host /\ g.method = r.method /\ g.token = r.token /\ g.tls = tls
      /\ g.url = [r.url EXCEPT !.scheme = "empty", !.host = "empty", !.fragment = "empty"]
  BY Zenon, <1>1 DEF Received, RequestFields
<1>3. g.url.scheme = "empty" /\ g.url.path = r.url.path
  BY Zenon, <1>1, <1>2 DEF Parts
<1> HIDE DEF g
<1>4. u = [scheme |-> IF tls THEN "https" ELSE "http", host |-> r.url.host,
           path |-> Rooted(r.url.path), query |-> g.url.query, fragment |-> "empty"]
  BY <1>1, <1>2, <1>3, Zenon DEF TargetURL, Rooted
<1>5. /\ IsURL(u) /\ u.scheme = (IF tls THEN "https" ELSE "http") /\ u.host = r.url.host
      /\ u.path = Rooted(r.url.path)
  <2> HIDE DEF u
  <2> QED BY Zenon, <1>4 DEF IsURL, Parts
<1> HIDE DEF u
<1>6. u.scheme # "HTTPS" /\ Rooted(u.path) = u.path
  BY Zenon, <1>5 DEF Rooted
<1> DEFINE n == NormalizeTargetURI(u)
<1>7. /\ IsURL(n) /\ n.scheme = u.scheme /\ n.host = u.host
      /\ n.path = u.path /\ n.query = "empty" /\ n.fragment = "empty"
  BY <1>5, <1>6, Normalized, Zenon
<1> HIDE DEF n
<1>8. /\ IsURL(n) /\ n.scheme = (IF tls THEN "https" ELSE "http")
      /\ n.host = r.url.host /\ n.path = Rooted(r.url.path) /\ n.query = "empty" /\ n.fragment = "empty"
  BY <1>5, <1>7, Zenon
<1> QED BY <1>2, <1>3, <1>8, Zenon DEF n, u, g

LEMMA KeyIsRead ==
    ASSUME NEW k \in DPoPKeys, PublicKeyToJWK(k).kty # "empty", PublicKeyToJWK(k).alg \in JWSAlgs(k)
    PROVE  /\ JWKToPublicKey(PublicKeyToJWK(k)) = k /\ PublicKeyToJWK(k).data = k.id
           /\ PublicKeyToJWK(k).alg \notin {"none", "HS256"}
<1>1. k \in [type : STRING, id : Nat]
  BY DPoPAssumption, Zenon
<1>2. k = [type |-> k.type, id |-> k.id]
  BY Zenon, <1>1
<1>3. k.type \in {"P-256", "P-384", "ed25519", "rsa"}
  BY Zenon DEF PublicKeyToJWK
<1>4. CASE k.type \in {"P-256", "P-384"}
  <2>1. /\ PublicKeyToJWK(k).kty = "EC" /\ PublicKeyToJWK(k).crv = k.type /\ PublicKeyToJWK(k).data = k.id
        /\ PublicKeyToJWK(k).alg \in {"ES256", "ES384"}
    BY Zenon, <1>4 DEF PublicKeyToJWK
  <2> QED BY Zenon, <1>2, <2>1 DEF JWKToPublicKey
<1>5. CASE k.type = "ed25519"
  <2>1. /\ PublicKeyToJWK(k).kty = "OKP" /\ PublicKeyToJWK(k).data = k.id
        /\ PublicKeyToJWK(k).alg = "EdDSA"
    BY Zenon, <1>5 DEF PublicKeyToJWK
  <2> QED BY Zenon, <1>2, <1>5, <2>1 DEF JWKToPublicKey
<1>6. CASE k.type = "rsa"
  <2>1. /\ PublicKeyToJWK(k).kty = "RSA" /\ PublicKeyToJWK(k).data = k.id
        /\ PublicKeyToJWK(k).alg = "RS256"
    BY Zenon, <1>6 DEF PublicKeyToJWK
  <2> QED BY Zenon, <1>2, <1>6, <2>1 DEF JWKToPublicKey
<1> QED BY Zenon, <1>3, <1>4, <1>5, <1>6

LEMMA ClaimsOk ==
    ASSUME NEW c, NEW m, NEW u, NEW k, NEW n, c.iat \in Nat, dpopNow \in Nat
    PROVE  ClaimsResult(c, m, u, k, n) = "ok" <=>
             /\ m = "empty" \/ c.htm = Upper(m)
             /\ c.htu = NormalizeTargetURI(u)
             /\ c.iat <= dpopNow + Skew /\ dpopNow <= c.iat + MaxAge + Skew
             /\ k = "empty" \/ c.ath = k
             /\ n = "empty" \/ c.nonce = n
<1>1. MaxAge \in Nat /\ Skew \in Nat
  BY Zenon, DPoPAssumption
<1>2. /\ c.iat > dpopNow + Skew <=> ~(c.iat <= dpopNow + Skew)
      /\ dpopNow - c.iat > MaxAge + Skew <=> ~(dpopNow <= c.iat + MaxAge + Skew)
  BY <1>1
<1> QED BY <1>2, Zenon DEF ClaimsResult

LEMMA DPoPInvBinds == DPoPInv => ProofBindsRequest
<1> SUFFICES ASSUME DPoPInv, ProofAccepted PROVE ProofBindsRequest
  BY Zenon DEF ProofBindsRequest
<1>1. proofVerdict # <<>> /\ proofVerdict[3] = "ok" /\ proof # <<>> /\ dpopNow \in Nat
  BY Zenon DEF ProofAccepted, DPoPInv
<1>2. PICK k \in DPoPKeys, r0 \in Requests, o \in ProofOptions, t \in Nat :
         /\ t <= dpopNow /\ proofMade = <<r0, o, t, k>> /\ proof = <<ProofOf(k, r0, o, t)>>
         /\ PublicKeyToJWK(k).kty # "empty" /\ PublicKeyToJWK(k).alg \in JWSAlgs(k)
  BY <1>1, Zenon DEF DPoPInv, MadeInv
<1>3. PICK r \in Requests, tls \in BOOLEAN, v \in Policies :
         proofVerdict = VerdictOf(proof[1], Received(r, tls), v)
  BY <1>1, Zenon DEF DPoPInv
<1> DEFINE p == ProofOf(k, r0, o, t)
           g == Received(r, tls)
           m == IF v.method # "empty" THEN v.method ELSE g.method
           token == IF v.token # "empty" THEN v.token ELSE g.token
<1>4. proof[1] = p
  BY <1>2, Zenon
<1>5. /\ proofVerdict[1] = g /\ proofVerdict[2] = v /\ proofVerdict[4] = ComputeThumbprint(p.header.jwk)
      /\ proofVerdict[3] = IF HeaderResult(p) # "ok" THEN HeaderResult(p)
                           ELSE ClaimsResult(p.claims, m, TargetURL(g), token, v.nonce)
  BY <1>3, <1>4, Zenon DEF VerdictOf
<1>6. proofMade[1] = r0 /\ proofMade[2] = o /\ proofMade[3] = t /\ proofMade[4] = k
  BY <1>2, Zenon
<1>7. /\ p.claims.htm = Upper(r0.method) /\ p.claims.htu = NormalizeTargetURI(TargetURL(r0))
      /\ p.claims.iat = t /\ p.claims.nonce = o.nonce /\ p.claims.ath = o.token
      /\ p.header.jwk = PublicKeyToJWK(k)
  BY Zenon DEF ProofOf
<1>8. /\ g.host = r.url.host /\ g.url.path = r.url.path /\ g.method = r.method
      /\ LET n == NormalizeTargetURI(TargetURL(g)) IN n.host = r.url.host /\ n.path = Rooted(r.url.path)
  BY TargetReceived, Zenon
<1>9. LET n == NormalizeTargetURI(TargetURL(r0)) IN n.host = r0.url.host /\ n.path = Rooted(r0.url.path)
  BY TargetSent, Zenon
<1>10. proofVerdict[4][3] = k.id
  <2>1. PublicKeyToJWK(k).data = k.id
    BY <1>2, KeyIsRead, Zenon
  <2> HIDE DEF p
  <2>2. proofVerdict[4] = <<PublicKeyToJWK(k).crv, PublicKeyToJWK(k).kty, k.id>>
    BY <1>5, <1>7, <2>1, Zenon DEF ComputeThumbprint
  <2> QED BY <2>2
<1> HIDE DEF p, g
<1>11. ClaimsResult(p.claims, m, TargetURL(g), token, v.nonce) = "ok"
  BY <1>1, <1>5, Zenon
<1>12. /\ m = "empty" \/ p.claims.htm = Upper(m)
       /\ p.claims.htu = NormalizeTargetURI(TargetURL(g))
       /\ dpopNow <= t + MaxAge + Skew
       /\ token = "empty" \/ o.token = token
       /\ v.nonce = "empty" \/ o.nonce = v.nonce
  <2> HIDE DEF m, token
  <2> DEFINE c == p.claims
             u == TargetURL(g)
  <2>1. c.iat \in Nat /\ ClaimsResult(c, m, u, token, v.nonce) = "ok"
    BY <1>7, <1>11, Zenon
  <2> HIDE DEF c, u
  <2>2. /\ m = "empty" \/ c.htm = Upper(m)
        /\ c.htu = NormalizeTargetURI(u) /\ dpopNow <= c.iat + MaxAge + Skew
        /\ token = "empty" \/ c.ath = token
        /\ v.nonce = "empty" \/ c.nonce = v.nonce
    BY <1>1, <2>1, ClaimsOk
  <2> QED BY <1>7, <2>2, Zenon DEF c, u
<1>13. m # "empty"
  BY <1>8, RequestShape, Zenon
<1>14. g.host = r0.url.host /\ Rooted(g.url.path) = Rooted(r0.url.path)
  BY <1>7, <1>8, <1>9, <1>12, Zenon
<1>15. g.url.path = r0.url.path \/ {g.url.path, r0.url.path} = {"empty", "/"}
  BY Zenon, <1>14 DEF Rooted
<1>16. o.token = v.token \/ (v.token = "empty" /\ g.token \in {"empty", o.token})
  BY Zenon, <1>12
<1>17. v.nonce \in {"empty", o.nonce}
  BY Zenon, <1>12
<1>18. Upper(r0.method) = Upper(IF v.method # "empty" THEN v.method ELSE g.method)
  BY <1>7, <1>12, <1>13, Zenon
<1> HIDE DEF m, token
<1> QED BY <1>5, <1>6, <1>10, <1>12, <1>14, <1>15, <1>16, <1>17, <1>18, Zenon DEF ProofBindsRequest

LEMMA HeaderOk ==
    ASSUME NEW k \in DPoPKeys, NEW r, NEW o, NEW t,
           PublicKeyToJWK(k).kty # "empty", PublicKeyToJWK(k).alg \in JWSAlgs(k)
    PROVE  HeaderResult(ProofOf(k, r, o, t)) = "ok"
<1> DEFINE p == ProofOf(k, r, o, t)
<1>1. /\ p.header.jwk = PublicKeyToJWK(k) /\ p.header.alg = PublicKeyToJWK(k).alg
      /\ p.sig = <<k, p.header, p.claims>>
  BY Zenon DEF ProofOf
<1>2. JWKToPublicKey(PublicKeyToJWK(k)) = k /\ PublicKeyToJWK(k).alg \notin {"none", "HS256"}
  BY Zenon, KeyIsRead
<1> HIDE DEF p
<1>3. HeaderResult(p) = "ok"
  BY <1>1, <1>2, Zenon DEF HeaderResult
<1> QED BY Zenon, <1>3 DEF p

LEMMA DPoPInvFresh == DPoPInv => FreshProofVerifies
<1> DEFINE tls == proofMade[1].url.scheme \in {"https", "HTTPS"}
<1> SUFFICES ASSUME DPoPInv, proofVerdict # <<>>, dpopNow <= proofMade[3] + MaxAge + Skew,
                    proofVerdict[1] = Received(proofMade[1], tls),
                    proofVerdict[1].token \in {"empty", proofMade[2].token},
                    proofVerdict[2].token \in {"empty", proofMade[2].token},
                    proofVerdict[2].nonce \in {"empty", proofMade[2].nonce},
                    proofVerdict[2].method \in {"empty", proofMade[1].method}
             PROVE  proofVerdict[3] = "ok"
  BY Zenon DEF FreshProofVerifies, ProofAccepted
<1>1. proof # <<>> /\ dpopNow \in Nat /\ tls \in BOOLEAN
  BY DEF DPoPInv
<1>2. PICK k \in DPoPKeys, r \in Requests, o \in ProofOptions, t \in Nat :
         /\ t <= dpopNow /\ proofMade = <<r, o, t, k>> /\ proof = <<ProofOf(k, r, o, t)>>
         /\ PublicKeyToJWK(k).kty # "empty" /\ PublicKeyToJWK(k).alg \in JWSAlgs(k)
  BY <1>1, Zenon DEF DPoPInv, MadeInv
<1>3. PICK q \in Requests, z \in BOOLEAN, v \in Policies :
         proofVerdict = VerdictOf(proof[1], Received(q, z), v)
  BY <1>1, Zenon DEF DPoPInv
<1> DEFINE p == ProofOf(k, r, o, t)
           g == Received(r, tls)
           m == IF v.method # "empty" THEN v.method ELSE g.method
           token == IF v.token # "empty" THEN v.token ELSE g.token
<1>4. proofMade[1] = r /\ proofMade[2] = o /\ proofMade[3] = t /\ proof[1] = p
  BY <1>2, Zenon
<1>5. Received(q, z) = g /\ proofVerdict[1] = g /\ proofVerdict[2] = v
  <2>1. proofVerdict[1] = Received(q, z) /\ proofVerdict[2] = v
    BY <1>3, Zenon DEF VerdictOf
  <2> QED BY <1>4, <2>1, Zenon
<1>6. proofVerdict[3] = IF HeaderResult(p) # "ok" THEN HeaderResult(p)
                        ELSE ClaimsResult(p.claims, m, TargetURL(g), token, v.nonce)
  BY <1>3, <1>4, <1>5, Zenon DEF VerdictOf
<1>7. HeaderResult(p) = "ok"
  BY <1>2, HeaderOk, Zenon
<1>8. /\ p.claims.htm = Upper(r.method) /\ p.claims.htu = NormalizeTargetURI(TargetURL(r))
      /\ p.claims.iat = t /\ p.claims.nonce = o.nonce /\ p.claims.ath = o.token
  BY Zenon DEF ProofOf
<1>9. NormalizeTargetURI(TargetURL(r)) = NormalizeTargetURI(TargetURL(g)) /\ g.method = r.method
  <2> DEFINE n0 == NormalizeTargetURI(TargetURL(r))
             n1 == NormalizeTargetURI(TargetURL(g))
  <2>1. /\ IsURL(n0) /\ n0.scheme = (IF r.url.scheme = "HTTPS" THEN "https" ELSE r.url.scheme)
        /\ n0.host = r.url.host /\ n0.path = Rooted(r.url.path) /\ n0.query = "empty" /\ n0.fragment = "empty"
    BY TargetSent, Zenon
  <2>2. /\ IsURL(n1) /\ n1.scheme = (IF tls THEN "https" ELSE "http")
        /\ n1.host = r.url.host /\ n1.path = Rooted(r.url.path) /\ n1.query = "empty" /\ n1.fragment = "empty"
        /\ g.method = r.method
    BY <1>1, TargetReceived, Zenon
  <2>3. r.url.scheme \in {"http", "https", "HTTPS"} /\ (tls <=> r.url.scheme \in {"https", "HTTPS"})
    BY <1>4, RequestShape, Zenon
  <2> HIDE DEF n0, n1, g, tls
  <2>4. n0.scheme = n1.scheme
    BY Zenon, <2>1, <2>2, <2>3
  <2>5. n0 = n1
    BY <2>1, <2>2, <2>4, SameURL, Zenon
  <2> QED BY Zenon, <2>2, <2>5 DEF n0, n1
<1> HIDE DEF p, g
<1>10. m = "empty" \/ p.claims.htm = Upper(m)
  BY <1>4, <1>5, <1>8, <1>9, Zenon
<1>11. token = "empty" \/ o.token = token
  BY <1>4, <1>5, Zenon
<1>12. v.nonce = "empty" \/ o.nonce = v.nonce
  BY <1>4, <1>5, Zenon
<1>13. t <= dpopNow + Skew /\ dpopNow <= t + MaxAge + Skew
  <2>1. Skew \in Nat
    BY Zenon, DPoPAssumption
  <2> QED BY <1>1, <1>2, <1>4, <2>1
<1> DEFINE c == p.claims
           u == TargetURL(g)
<1>14. /\ c.iat \in Nat /\ c.iat <= dpopNow + Skew /\ dpopNow <= c.iat + MaxAge + Skew
       /\ m = "empty" \/ c.htm = Upper(m)
       /\ c.htu = NormalizeTargetURI(u)
       /\ token = "empty" \/ c.ath = token
       /\ v.nonce = "empty" \/ c.nonce = v.nonce
  BY <1>8, <1>9, <1>10, <1>11, <1>12, <1>13, Zenon
<1> HIDE DEF c, u, m, token
<1>15. ClaimsResult(c, m, u, token, v.nonce) = "ok"
  BY <1>1, <1>14, ClaimsOk
<1> QED BY <1>6, <1>7, <1>15, Zenon DEF c, u

---------------------------------------------------------------------------
(* Sequences of anything. *)

IsList(s) == s \in Seq({s[i] : i \in DOMAIN s})

LEMMA FunctionIsList == ASSUME NEW S, NEW n \in Nat, NEW s \in [1..n -> S] PROVE s \in Seq(S)
  OBVIOUS

LEMMA ListOf == ASSUME NEW S, NEW s \in Seq(S) PROVE IsList(s)
<1>1. Len(s) \in Nat /\ s \in [1..Len(s) -> S] /\ DOMAIN s = 1..Len(s)
  OBVIOUS
<1>2. s \in [1..Len(s) -> {s[i] : i \in DOMAIN s}]
  BY Zenon, <1>1
<1> QED BY <1>1, <1>2, FunctionIsList, Zenon DEF IsList

LEMMA ListGrows ==
    ASSUME NEW s, NEW x, IsList(s)
    PROVE  LET t == Append(s, x) IN
           /\ IsList(t) /\ Len(s) \in Nat /\ DOMAIN s = 1..Len(s) /\ DOMAIN t = 1..(Len(s) + 1)
           /\ Len(t) = Len(s) + 1 /\ t[Len(s) + 1] = x /\ \A i \in DOMAIN s : t[i] = s[i]
<1> DEFINE S == {s[i] : i \in DOMAIN s} \cup {x}
           R == {s[i] : i \in DOMAIN s}
           t == Append(s, x)
<1>1. s \in Seq(R) /\ R \subseteq S /\ x \in S
  BY Zenon DEF IsList
<1> HIDE DEF S, R
<1>2. s \in Seq(S)
  BY <1>1
<1>3. /\ t \in Seq(S) /\ Len(s) \in Nat /\ DOMAIN s = 1..Len(s) /\ DOMAIN t = 1..(Len(s) + 1)
      /\ Len(t) = Len(s) + 1 /\ t[Len(s) + 1] = x /\ \A i \in DOMAIN s : t[i] = s[i]
  BY <1>1, <1>2
<1>4. IsList(t)
  BY <1>3, ListOf, Zenon
<1> QED BY <1>3, <1>4, Zenon

---------------------------------------------------------------------------
\* The value of a component of m in this exchange, and what Sign recorded.
ValueIn(m, id) ==
    IF "req" \notin id.flags THEN DeriveComponentValue(m, id)
    ELSE IF m.response /\ orig # <<>> THEN DeriveComponentValue(orig[1], id)
    ELSE <<>>
IsParams(p) ==
    p = [components |-> p.components, created |-> p.created, expires |-> p.expires,
         alg |-> p.alg, keyid |-> p.keyid, tag |-> p.tag]
\* Every context has the field that the identifier names.
Named(id) == ~id.derived => \A c \in Contexts : id.name \in DOMAIN c.header /\ id.name \in DOMAIN c.trailers

\* One signature as it was made.
EntryInv(e) ==
    LET p == e.base[1] IN
    /\ e.cfg.label # "empty" /\ e.msg \in Contexts
    /\ e.base = <<p, [k \in DOMAIN p.components |-> ValueIn(e.msg, p.components[k])]>>
    /\ IsParams(p) /\ p.tag = e.cfg.tag /\ p.alg = signer.alg
    /\ p.created \in Nat /\ p.created > 0 /\ p.created <= sigNow /\ p.expires \in Nat
    /\ NoDuplicates(p.components)
    /\ \A k \in DOMAIN p.components :
         /\ ParseComponentIdentifier(p.components[k])
         /\ ValueIn(e.msg, p.components[k]) # <<>> /\ Named(p.components[k])

\* The members of both headers are the signatures made; a label that is there has
\* a first member.
Labelled(l) == {i \in DOMAIN log : log[i].cfg.label = l}
MembersInv ==
    /\ IsList(log) /\ IsList(inputs) /\ IsList(sigs)
    /\ Len(inputs) = Len(log) /\ Len(sigs) = Len(log)
    /\ \A i \in DOMAIN log :
         /\ inputs[i].label = log[i].cfg.label /\ inputs[i].params = log[i].base[1]
         /\ sigs[i].label = log[i].cfg.label /\ sigs[i].key = signer.key /\ sigs[i].alg = signer.alg
         /\ sigs[i].base = log[i].base
    /\ \A l : Labelled(l) # {} => \E i \in Labelled(l) : \A j \in Labelled(l) : i <= j
SigInv ==
    /\ sigNow \in Nat /\ sigNow > 0 /\ msg \in Contexts
    /\ signer.key = verifier.key /\ verifier.keyid = "k"
    /\ MembersInv /\ \A i \in DOMAIN log : EntryInv(log[i])
    /\ verdict # <<>> => \E v \in VerifyConfigs : verdict = <<v, VerifyResult(v)>>

LEMMA SigStarts == SigInit => SigInv
<1> SUFFICES ASSUME SigInit PROVE SigInv
  BY ZenonT(30)
<1>1. sigNow = 1 /\ msg \in Contexts /\ signer.key = verifier.key /\ verifier.keyid = "k"
  <2>1. PICK k \in SigKeys :
          /\ signer = [key |-> k[1], alg |-> NewSignerFromKey(k[1], k[2])]
          /\ verifier = [key |-> k[1], alg |-> NewVerifierFromKey(k[1], k[3]), keyid |-> "k"]
    BY Zenon DEF SigInit
  <2>2. signer.key = k[1] /\ verifier.key = k[1] /\ verifier.keyid = "k"
    BY <2>1, Zenon
  <2> QED BY Zenon, <2>2 DEF SigInit
<1>2. inputs = <<>> /\ sigs = <<>> /\ log = <<>> /\ verdict = <<>>
  BY Zenon DEF SigInit
<1>3. IsList(<<>>) /\ DOMAIN <<>> = {}
  <2>1. <<>> \in Seq({}) /\ DOMAIN <<>> = {}
    OBVIOUS
  <2> QED BY <2>1, ListOf, Zenon
<1>4. MembersInv
  BY <1>2, <1>3, Zenon DEF MembersInv, Labelled
<1>5. DOMAIN log = {}
  BY <1>2
<1>6. sigNow \in Nat /\ sigNow > 0
  BY <1>1
<1> QED BY <1>1, <1>2, <1>4, <1>5, <1>6, Zenon DEF SigInv

\* What was signed stays as it was while the clock and the message go on.
LEMMA EntryStays ==
    ASSUME NEW e, EntryInv(e), sigNow \in Nat, sigNow' \in Nat, sigNow <= sigNow', UNCHANGED <<signer, orig>>
    PROVE  EntryInv(e)'
<1>1. signer' = signer /\ orig' = orig
  BY Zenon
<1>2. \A m, id : ValueIn(m, id)' = ValueIn(m, id)
  BY <1>1, Zenon DEF ValueIn, DeriveComponentValue
<1>3. \A t \in Nat : t <= sigNow => t <= sigNow'
  OBVIOUS
<1> QED BY <1>1, <1>2, <1>3, Zenon DEF EntryInv

LEMMA MembersStay ==
    ASSUME MembersInv, UNCHANGED <<log, inputs, sigs, signer>> PROVE MembersInv'
<1>1. log' = log /\ inputs' = inputs /\ sigs' = sigs /\ signer' = signer
  BY Zenon
<1>2. \A l : Labelled(l)' = Labelled(l)
  BY <1>1, Zenon DEF Labelled
<1> QED BY <1>1, <1>2, Zenon DEF MembersInv

LEMMA HandledKeeps ==
    ASSUME SigInv, sigNow' \in Nat, sigNow <= sigNow', msg' \in Contexts,
           UNCHANGED <<orig, signer, verifier, inputs, sigs, log>>,
           verdict' # <<>> => \E v \in VerifyConfigs : verdict' = <<v, VerifyResult(v)'>>
    PROVE  SigInv'
<1>1. signer' = signer /\ orig' = orig /\ verifier' = verifier /\ log' = log /\ sigNow \in Nat /\ sigNow > 0
  BY ZenonT(30) DEF SigInv
<1>2. MembersInv'
  BY Zenon, MembersStay DEF SigInv
<1>3. \A i \in DOMAIN log : EntryInv(log[i])'
  <2> TAKE i \in DOMAIN log
  <2> DEFINE e == log[i]
  <2>1. EntryInv(e)
    BY Zenon DEF SigInv
  <2>2. e' = e
    BY Zenon, <1>1
  <2> QED BY Zenon, <1>1, <2>1, <2>2, EntryStays
<1>4. sigNow' > 0
  BY <1>1
<1> QED BY <1>1, <1>2, <1>3, <1>4, Zenon DEF SigInv

LEMMA TickSigKeeps == ASSUME SigInv, SigTick PROVE SigInv'
<1>1. sigNow \in Nat /\ sigNow' = sigNow + 1 /\ msg' = msg /\ msg \in Contexts /\ verdict' = <<>>
  BY Zenon DEF SigInv, SigTick
<1>2. sigNow' \in Nat /\ sigNow <= sigNow'
  BY <1>1
<1>3. UNCHANGED <<orig, signer, verifier, inputs, sigs, log>>
  BY Zenon DEF SigTick, fixed
<1> QED BY <1>1, <1>2, <1>3, HandledKeeps, Zenon

LEMMA RewriteKeeps == ASSUME SigInv, NEW c \in Contexts, Rewrite(c) PROVE SigInv'
<1>1. sigNow \in Nat /\ sigNow' = sigNow /\ msg' \in Contexts /\ verdict' = <<>>
  BY Zenon DEF SigInv, Rewrite
<1>2. sigNow' \in Nat /\ sigNow <= sigNow'
  BY <1>1
<1>3. UNCHANGED <<orig, signer, verifier, inputs, sigs, log>>
  BY Zenon DEF Rewrite, fixed
<1> QED BY <1>1, <1>2, <1>3, HandledKeeps, Zenon

LEMMA ChangeBodyKeeps == ASSUME SigInv, ChangeBody PROVE SigInv'
<1>1. sigNow \in Nat /\ sigNow' = sigNow /\ msg' \in Contexts /\ verdict' = <<>>
  BY Zenon DEF SigInv, ChangeBody
<1>2. sigNow' \in Nat /\ sigNow <= sigNow'
  BY <1>1
<1>3. UNCHANGED <<orig, signer, verifier, inputs, sigs, log>>
  BY ZenonT(30) DEF ChangeBody, fixed
<1> QED BY <1>1, <1>2, <1>3, HandledKeeps, Zenon

\* The result depends on what the verifier sees.
LEMMA ResultStays ==
    ASSUME UNCHANGED <<sigNow, msg, orig, verifier, inputs, sigs>>, NEW v
    PROVE  VerifyResult(v)' = VerifyResult(v)
<1>1. /\ sigNow' = sigNow /\ msg' = msg /\ orig' = orig /\ verifier' = verifier
      /\ inputs' = inputs /\ sigs' = sigs
  BY Zenon
<1>2. \A id : ComponentValue(id)' = ComponentValue(id)
  BY <1>1, Zenon DEF ComponentValue
<1>3. \A ids : Buildable(ids)' <=> Buildable(ids)
  BY <1>2, Zenon DEF Buildable
<1>4. \A p : BuildSignatureBase(p)' = BuildSignatureBase(p)
  BY <1>2, Zenon DEF BuildSignatureBase
<1>5. \A b, s : VerifierVerifies(b, s)' <=> VerifierVerifies(b, s)
  BY <1>1, Zenon DEF VerifierVerifies
<1>6. \A p : Check(p, v)' = Check(p, v)
  BY <1>1, Zenon DEF Check, Expired, InFuture, TooOld
<1> QED BY <1>1, <1>3, <1>4, <1>5, <1>6 DEF VerifyResult

LEMMA VerifySigKeeps == ASSUME SigInv, NEW v \in VerifyConfigs, Verify(v) PROVE SigInv'
<1>1. sigNow \in Nat /\ sigNow' = sigNow /\ msg' = msg /\ msg' \in Contexts
  BY Zenon DEF SigInv, Verify
<1>2. sigNow' \in Nat /\ sigNow <= sigNow'
  BY <1>1
<1>3. UNCHANGED <<orig, signer, verifier, inputs, sigs, log>>
  BY Zenon DEF Verify, fixed
<1>4. VerifyResult(v)' = VerifyResult(v)
  BY Zenon, <1>1, <1>3, ResultStays
<1>5. verdict' = <<v, VerifyResult(v)'>>
  BY <1>4, Zenon DEF Verify
<1> QED BY <1>1, <1>2, <1>3, <1>5, HandledKeeps, Zenon

LEMMA SignKeeps == ASSUME SigInv, NEW cfg \in SignConfigs, Sign(cfg) PROVE SigInv'
<1> DEFINE p == SignatureParams(cfg)
           base == BuildSignatureBase(p)
           e == [cfg |-> cfg, base |-> base, body |-> body, msg |-> msg]
           in == [label |-> cfg.label, params |-> p]
           sig == [label |-> cfg.label, key |-> signer.key, alg |-> signer.alg, base |-> base]
<1>1. /\ Buildable(p.components) /\ inputs' = Append(inputs, in) /\ sigs' = Append(sigs, sig)
      /\ log' = Append(log, e) /\ verdict' = <<>>
      /\ sigNow' = sigNow /\ msg' = msg /\ orig' = orig /\ signer' = signer /\ verifier' = verifier
  BY ZenonT(30) DEF Sign, fixed
<1>2. /\ sigNow \in Nat /\ sigNow > 0 /\ msg \in Contexts /\ MembersInv
      /\ signer.key = verifier.key /\ verifier.keyid = "k" /\ \A i \in DOMAIN log : EntryInv(log[i])
  BY Zenon DEF SigInv
<1>3. /\ e.cfg = cfg /\ e.base = base /\ e.msg = msg /\ in.label = cfg.label /\ in.params = p
      /\ sig.label = cfg.label /\ sig.key = signer.key /\ sig.alg = signer.alg /\ sig.base = base
      /\ base = <<p, [k \in DOMAIN p.components |-> ComponentValue(p.components[k])]>> /\ base[1] = p
  BY Zenon DEF BuildSignatureBase
<1>4. EntryInv(e)
  <2>1. cfg.label # "empty" /\ cfg.lifetime \in Nat
    BY Zenon, SigAssumption
  <2>2. /\ p.components = (IF cfg.components = <<>> THEN DefaultComponents ELSE cfg.components)
        /\ p.created = sigNow /\ p.expires = (IF cfg.lifetime = 0 THEN 0 ELSE sigNow + cfg.lifetime)
        /\ p.alg = signer.alg /\ p.tag = cfg.tag /\ IsParams(p)
    BY Zenon DEF SignatureParams, IsParams
  <2>3. p.created \in Nat /\ p.created > 0 /\ p.created <= sigNow /\ p.expires \in Nat
    <3> HIDE DEF p
    <3> QED BY <1>2, <2>1, <2>2
  <2>4. \A id : ComponentValue(id) = ValueIn(msg, id)
    BY Zenon DEF ComponentValue, ValueIn
  <2>5. \A k \in DOMAIN p.components : Named(p.components[k])
    <3> HIDE DEF p
    <3>1. CASE cfg.components = <<>>
      <4>1. \A k \in DOMAIN DefaultComponents : DefaultComponents[k].derived
        BY DEF DefaultComponents, Derived
      <4> QED BY <2>2, <3>1, <4>1, Zenon DEF Named
    <3>2. CASE cfg.components # <<>>
      <4>1. \A i \in DOMAIN cfg.components, c \in Contexts :
              ~cfg.components[i].derived =>
                cfg.components[i].name \in DOMAIN c.header \cap DOMAIN c.trailers
        BY SigAssumption, Zenon
      <4>2. \A i \in DOMAIN cfg.components, c \in Contexts :
              ~cfg.components[i].derived =>
                cfg.components[i].name \in DOMAIN c.header /\ cfg.components[i].name \in DOMAIN c.trailers
        BY <4>1, Zenon
      <4> QED BY <2>2, <3>2, <4>2, Zenon DEF Named
    <3> QED BY Zenon, <3>1, <3>2
  <2>6. /\ NoDuplicates(p.components)
        /\ \A k \in DOMAIN p.components :
             /\ ParseComponentIdentifier(p.components[k]) /\ ComponentValue(p.components[k]) # <<>>
    BY <1>1, Zenon DEF Buildable
  <2> HIDE DEF p, base, e
  <2> QED BY <1>2, <1>3, <2>1, <2>2, <2>3, <2>4, <2>5, <2>6, Zenon DEF EntryInv
<1> HIDE DEF p, base, e, in, sig
<1>5. /\ IsList(log) /\ IsList(inputs) /\ IsList(sigs) /\ Len(inputs) = Len(log) /\ Len(sigs) = Len(log)
  BY <1>2, Zenon DEF MembersInv
<1> DEFINE n == Len(log)
<1>6. /\ IsList(log') /\ DOMAIN log = 1..n /\ DOMAIN log' = 1..(n + 1) /\ n \in Nat
      /\ Len(log') = n + 1 /\ log'[n + 1] = e /\ \A i \in DOMAIN log : log'[i] = log[i]
  BY <1>1, <1>5, ListGrows
<1>7. /\ IsList(inputs') /\ Len(inputs') = n + 1 /\ inputs'[n + 1] = in /\ DOMAIN inputs = 1..n
      /\ \A i \in DOMAIN inputs : inputs'[i] = inputs[i]
  BY <1>1, <1>5, ListGrows
<1>8. /\ IsList(sigs') /\ Len(sigs') = n + 1 /\ sigs'[n + 1] = sig /\ DOMAIN sigs = 1..n
      /\ \A i \in DOMAIN sigs : sigs'[i] = sigs[i]
  BY <1>1, <1>5, ListGrows
<1> HIDE DEF n
<1>9. \A i \in DOMAIN log' : i \in DOMAIN log \/ i = n + 1
  BY <1>6
<1>10. \A i \in DOMAIN log' : EntryInv(log[i])'
  <2> TAKE i \in DOMAIN log'
  <2> DEFINE f == log'[i]
  <2>1. EntryInv(f)
    BY <1>2, <1>4, <1>6, <1>9, Zenon
  <2>2. \A g : EntryInv(g) => EntryInv(g)'
    <3>1. \A m, id : ValueIn(m, id)' = ValueIn(m, id)
      BY <1>1, Zenon DEF ValueIn
    <3> QED BY <1>1, <3>1, Zenon DEF EntryInv
  <2> QED BY <2>1, <2>2, Zenon
<1>11. MembersInv'
  <2>1. \A i \in DOMAIN log' :
          /\ inputs'[i].label = log'[i].cfg.label /\ inputs'[i].params = log'[i].base[1]
          /\ sigs'[i].label = log'[i].cfg.label /\ sigs'[i].key = signer.key /\ sigs'[i].alg = signer.alg
          /\ sigs'[i].base = log'[i].base
    <3> TAKE i \in DOMAIN log'
    <3>1. CASE i = n + 1
      BY <1>3, <1>6, <1>7, <1>8, <3>1, Zenon
    <3>2. CASE i \in DOMAIN log
      BY <1>2, <1>6, <1>7, <1>8, <3>2, Zenon DEF MembersInv
    <3> QED BY ZenonT(30), <1>9, <3>1, <3>2
  <2>2. ASSUME NEW l, Labelled(l)' # {}
        PROVE  \E i \in Labelled(l)' : \A j \in Labelled(l)' : i <= j
    <3>0. \A i \in DOMAIN log : i <= n + 1 /\ i \in DOMAIN log'
      BY <1>6
    <3>1. /\ Labelled(l) \subseteq Labelled(l)' /\ Labelled(l)' \subseteq Labelled(l) \cup {n + 1}
          /\ Labelled(l) \subseteq DOMAIN log
      BY <1>6, <1>9, <3>0, Zenon DEF Labelled
    <3>2. CASE Labelled(l) = {}
      <4>1. Labelled(l)' = {n + 1} /\ n + 1 <= n + 1
        BY <1>6, <2>2, <3>1, <3>2
      <4> QED BY <4>1, Zenon
    <3>3. CASE Labelled(l) # {}
      <4>1. PICK i \in Labelled(l) : \A j \in Labelled(l) : i <= j
        BY <1>2, <3>3, Zenon DEF MembersInv
      <4> QED BY <3>0, <3>1, <4>1, Zenon
    <3> QED BY Zenon, <3>2, <3>3
  <2> QED BY <1>1, <1>6, <1>7, <1>8, <2>1, <2>2, Zenon DEF MembersInv
<1> QED BY <1>1, <1>2, <1>10, <1>11, Zenon DEF SigInv

LEMMA SigPreserved == SigInv /\ [SigNext]_sigVars => SigInv'
<1> SUFFICES ASSUME SigInv, [SigNext]_sigVars PROVE SigInv'
  BY Zenon
<1>1. CASE SigTick
  BY Zenon, <1>1, TickSigKeeps
<1>2. CASE ChangeBody
  BY Zenon, <1>2, ChangeBodyKeeps
<1>3. CASE \E c \in Contexts : Rewrite(c)
  BY Zenon, <1>3, RewriteKeeps
<1>4. CASE \E cfg \in SignConfigs : Sign(cfg)
  BY Zenon, <1>4, SignKeeps
<1>5. CASE \E v \in VerifyConfigs : Verify(v)
  BY Zenon, <1>5, VerifySigKeeps
<1>6. CASE UNCHANGED sigVars
  <2>1. UNCHANGED <<sigNow, msg, orig, signer, verifier, inputs, sigs, log, verdict>>
    BY <1>6, Zenon DEF sigVars
  <2>2. sigNow \in Nat /\ sigNow' \in Nat /\ sigNow <= sigNow' /\ msg' \in Contexts
    BY <2>1 DEF SigInv
  <2>3. \A v : VerifyResult(v)' = VerifyResult(v)
    BY Zenon, <2>1, ResultStays
  <2>4. verdict' # <<>> => \E v \in VerifyConfigs : verdict' = <<v, VerifyResult(v)'>>
    BY Zenon, <2>1, <2>3 DEF SigInv
  <2> QED BY Zenon, <2>1, <2>2, <2>4, HandledKeeps
<1> QED BY ZenonT(30), <1>1, <1>2, <1>3, <1>4, <1>5, <1>6 DEF SigNext

LEMMA SigSafe == SigSpec => []SigInv
<1>1. SigInit => SigInv
  BY Zenon, SigStarts
<1>2. SigInv /\ [SigNext]_sigVars => SigInv'
  BY Zenon, SigPreserved
<1> QED BY <1>1, <1>2, PTL DEF SigSpec

---------------------------------------------------------------------------
LEMMA FirstFound ==
    ASSUME NEW s, NEW l, NEW S, S = {i \in DOMAIN s : s[i].label = l},
           S # {} => \E i \in S : \A j \in S : i <= j
    PROVE  /\ S = {} => Find(s, l) = 0
           /\ S # {} => Find(s, l) \in S /\ \A j \in S : Find(s, l) <= j
<1> DEFINE spots == {i \in DOMAIN s : s[i].label = l}
<1>1. Find(s, l) = IF spots = {} THEN 0 ELSE CHOOSE i \in spots : \A j \in spots : i <= j
  BY Zenon DEF Find
<1>2. S = spots
  BY Zenon
<1> HIDE DEF spots
<1>3. spots # {} => \E i \in spots : \A j \in spots : i <= j
  BY <1>2, Zenon
<1>4. spots # {} => Find(s, l) \in spots /\ \A j \in spots : Find(s, l) <= j
  BY <1>1, <1>3, Zenon
<1> QED BY <1>1, <1>2, <1>4, Zenon

\* Both headers have their first member of a label at the place where the log has.
LEMMA FindIs ==
    ASSUME SigInv, NEW l
    PROVE  /\ Find(inputs, l) = Find(sigs, l)
           /\ Labelled(l) = {} => Find(inputs, l) = 0
           /\ Labelled(l) # {} => Find(inputs, l) \in Labelled(l) /\ Find(inputs, l) # 0
<1>1. MembersInv
  BY Zenon DEF SigInv
<1>2. DOMAIN inputs = DOMAIN log /\ DOMAIN sigs = DOMAIN log /\ \A i \in DOMAIN log : i \in Nat /\ i # 0
  BY <1>1 DEF MembersInv, IsList
<1>3. \A i \in DOMAIN log : inputs[i].label = log[i].cfg.label /\ sigs[i].label = log[i].cfg.label
  BY <1>1, Zenon DEF MembersInv
<1> DEFINE S == Labelled(l)
           x == Find(inputs, l)
           y == Find(sigs, l)
<1>4. S = {i \in DOMAIN inputs : inputs[i].label = l} /\ S = {i \in DOMAIN sigs : sigs[i].label = l}
  <2>1. S = {i \in DOMAIN inputs : inputs[i].label = l}
    BY Zenon, <1>2, <1>3 DEF Labelled
  <2>2. S = {i \in DOMAIN sigs : sigs[i].label = l}
    BY Zenon, <1>2, <1>3 DEF Labelled
  <2> QED BY <2>1, <2>2, Zenon
<1>5. /\ S # {} => \E i \in S : \A j \in S : i <= j
      /\ \A i \in S : i \in Nat /\ i # 0
  BY <1>1, <1>2, Zenon DEF MembersInv, Labelled
<1> HIDE DEF S
<1>6. (S = {} => x = 0) /\ (S # {} => x \in S /\ \A j \in S : x <= j)
  BY <1>4, <1>5, FirstFound, Zenon
<1>7. (S = {} => y = 0) /\ (S # {} => y \in S /\ \A j \in S : y <= j)
  BY <1>4, <1>5, FirstFound, Zenon
<1> HIDE DEF x, y
<1>8. x = y
  <2>1. CASE S = {}
    BY Zenon, <1>6, <1>7, <2>1
  <2>2. CASE S # {}
    <3>1. x \in Nat /\ y \in Nat /\ x <= y /\ y <= x
      BY <1>5, <1>6, <1>7, <2>2, Zenon
    <3> QED BY <3>1
  <2> QED BY Zenon, <2>1, <2>2
<1> QED BY <1>5, <1>6, <1>8, Zenon DEF S, x, y

\* The checks on the parameters, all passed.
LEMMA CheckOk ==
    ASSUME NEW p, NEW v \in VerifyConfigs, sigNow \in Nat,
           p.created \in Nat, p.created > 0, p.created <= sigNow, p.expires \in Nat
    PROVE  Check(p, v) = "ok" <=>
             /\ p.alg = verifier.alg /\ (p.keyid = "empty" \/ p.keyid = verifier.keyid)
             /\ v.tag # "empty" => p.tag = v.tag
             /\ InTime(p, v) /\ Covered(p, v)
<1>1. v.maxAge \in Nat /\ v.skew \in Nat
  BY Zenon, SigAssumption
<1>2. ~InFuture(p, v)
  BY <1>1 DEF InFuture
<1>3. Expired(p, v) <=> ~(p.expires > 0 => sigNow <= p.expires + v.skew)
  BY <1>1 DEF Expired
<1>4. TooOld(p, v) <=> ~(v.maxAge > 0 => sigNow <= p.created + v.maxAge + v.skew)
  BY <1>1 DEF TooOld
<1> QED BY <1>2, <1>3, <1>4, Zenon DEF Check, InTime

LEMMA ParsedParams ==
    ASSUME NEW p, IsParams(p)
    PROVE  /\ ParseSignatureParams(p).created = p.created /\ ParseSignatureParams(p).expires = p.expires
           /\ p.keyid # "semicolon" => ParseSignatureParams(p) = p
<1>1. /\ DOMAIN p = {"components", "created", "expires", "alg", "keyid", "tag"}
      /\ p = [f \in DOMAIN p |-> p[f]]
  BY Zenon DEF IsParams
<1>2. /\ ParseSignatureParams(p).created = p.created /\ ParseSignatureParams(p).expires = p.expires
  BY Zenon, <1>1 DEF ParseSignatureParams
<1>3. p.keyid # "semicolon" => ParseSignatureParams(p) = p
  BY Zenon, <1>1 DEF ParseSignatureParams
<1> QED BY ZenonT(30), <1>2, <1>3

\* A header with members: the verifier's label is that of a member.
LEMMA AcceptedEntry ==
    ASSUME SigInv, SigAccepted
    PROVE  \E v \in VerifyConfigs : \E i \in DOMAIN log :
             /\ verdict[1] = v
             /\ LET p == ParseSignatureParams(log[i].base[1]) IN
                Check(p, v) = "ok" /\ BuildSignatureBase(p) = log[i].base
<1>1. PICK v \in VerifyConfigs : verdict = <<v, VerifyResult(v)>>
  BY Zenon DEF SigInv, SigAccepted
<1>2. verdict[1] = v /\ VerifyResult(v) = "ok"
  BY Zenon, <1>1 DEF SigAccepted
<1> DEFINE l == IF v.label = "empty" THEN inputs[1].label ELSE v.label
           i == Find(inputs, l)
           p == ParseSignatureParams(inputs[i].params)
<1>3. Find(sigs, l) = i /\ (Labelled(l) = {} => i = 0) /\ (Labelled(l) # {} => i \in Labelled(l))
  BY FindIs, Zenon
<1>4. /\ i # 0 /\ Check(p, v) = "ok" /\ VerifierVerifies(BuildSignatureBase(p), sigs[i])
  BY ZenonT(30), <1>2, <1>3 DEF VerifyResult
<1>5. i \in DOMAIN log
  BY <1>3, <1>4, Zenon DEF Labelled
<1>6. inputs[i].params = log[i].base[1] /\ sigs[i].base = log[i].base
  BY <1>5, Zenon DEF SigInv, MembersInv
<1>7. BuildSignatureBase(p) = log[i].base
  BY <1>4, <1>6, Zenon DEF VerifierVerifies
<1> HIDE DEF l, i
<1> QED BY <1>2, <1>4, <1>5, <1>6, <1>7, Zenon

LEMMA DigestSigned ==
    ASSUME NEW i \in DOMAIN log, SigInv, NEW p, p = log[i].base[1], BuildSignatureBase(p) = log[i].base,
           CoversDigest(p)
    PROVE  Combined(msg.header["content-digest"]) = Combined(log[i].msg.header["content-digest"])
<1> DEFINE m == log[i].msg
           lines(c) == c.header["content-digest"]
<1>1. PICK k \in DOMAIN p.components :
         LET id == p.components[k]
         IN  id.name = "content-digest" /\ ~id.derived /\ id.flags = {} /\ id.key = "empty"
  BY Zenon DEF CoversDigest
<1> DEFINE id == p.components[k]
<1>2. /\ log[i].base = <<p, [j \in DOMAIN p.components |-> ValueIn(m, p.components[j])]>>
      /\ ValueIn(m, id) # <<>>
  BY Zenon DEF SigInv, EntryInv
<1>3. log[i].base = <<p, [j \in DOMAIN p.components |-> ComponentValue(p.components[j])]>>
  BY Zenon DEF BuildSignatureBase
<1>4. log[i].base[2][k] = ValueIn(m, id) /\ log[i].base[2][k] = ComponentValue(id)
  <2> HIDE DEF m
  <2>1. log[i].base[2][k] = ValueIn(m, id)
    BY <1>2
  <2>2. log[i].base[2][k] = ComponentValue(id)
    BY <1>3
  <2> QED BY ZenonT(30), <2>1, <2>2
<1>5. "req" \notin id.flags /\ "tr" \notin id.flags /\ "bs" \notin id.flags
      /\ id.name = "content-digest" /\ ~id.derived /\ id.key = "empty"
  BY Zenon, <1>1
<1> HIDE DEF id
<1>6. \A c : DeriveComponentValue(c, id) = IF lines(c) = <<>> THEN <<>> ELSE <<Combined(lines(c))>>
  BY <1>5, Zenon DEF DeriveComponentValue, DeriveHTTPField
<1>7. ValueIn(m, id) = DeriveComponentValue(m, id) /\ ComponentValue(id) = DeriveComponentValue(msg, id)
  BY <1>5, Zenon DEF ValueIn, ComponentValue
<1>8. <<Combined(lines(msg))>> = <<Combined(lines(m))>>
  <2> HIDE DEF m, lines
  <2> QED BY <1>2, <1>4, <1>6, <1>7, Zenon
<1>9. \A x, y : <<x>> = <<y>> => x = y
  BY Zenon
<1> QED BY <1>8, <1>9, Zenon

LEMMA SigInvAccepted == SigInv => AcceptedAsSigned
<1> SUFFICES ASSUME SigInv, SigAccepted PROVE AcceptedAsSigned
  BY Zenon DEF AcceptedAsSigned
<1>1. PICK v \in VerifyConfigs, i \in DOMAIN log :
         /\ verdict[1] = v
         /\ LET p == ParseSignatureParams(log[i].base[1]) IN
            Check(p, v) = "ok" /\ BuildSignatureBase(p) = log[i].base
  BY Zenon, AcceptedEntry
<1> DEFINE p == ParseSignatureParams(log[i].base[1])
<1>2. log[i].base[1] = p
  <2>1. BuildSignatureBase(p)[1] = p
    BY Zenon DEF BuildSignatureBase
  <2> QED BY <1>1, <2>1, Zenon
<1>3. EntryInv(log[i]) /\ sigNow \in Nat
  BY Zenon DEF SigInv
<1> HIDE DEF p
<1>4. /\ p.created \in Nat /\ p.created > 0 /\ p.created <= sigNow /\ p.expires \in Nat
      /\ p.tag = log[i].cfg.tag
  BY <1>2, <1>3, Zenon DEF EntryInv
<1>5. Check(p, v) = "ok" /\ BuildSignatureBase(p) = log[i].base
  BY <1>1, Zenon DEF p
<1>6. (v.tag # "empty" => p.tag = v.tag) /\ InTime(p, v)
  BY <1>3, <1>4, <1>5, CheckOk, Zenon
<1>7. ASSUME CoversDigest(p), VerifyContentDigest(body, Combined(msg.header["content-digest"])),
             VerifyContentDigest(log[i].body, Combined(log[i].msg.header["content-digest"]))
      PROVE  body = log[i].body
  <2>1. Combined(msg.header["content-digest"]) = Combined(log[i].msg.header["content-digest"])
    BY <1>2, <1>5, <1>7, DigestSigned, Zenon
  <2> QED BY <1>7, <2>1, Zenon DEF VerifyContentDigest
<1> QED BY <1>1, <1>2, <1>4, <1>5, <1>6, <1>7, Zenon DEF AcceptedAsSigned

---------------------------------------------------------------------------
\* Two forms of one message have the same components.
LEMMA SameParts ==
    ASSUME NEW a, NEW b, NEW c, NEW d, NEW e, NEW f, NEW u, NEW v, NEW w, NEW x, NEW y, NEW z,
           <<a, b, c, d, e, f>> = <<u, v, w, x, y, z>>
    PROVE  a = u /\ b = v /\ c = w /\ d = x /\ e = y /\ f = z
  BY Zenon
LEMMA SameFive ==
    ASSUME NEW a, NEW b, NEW c, NEW d, NEW e, NEW u, NEW v, NEW w, NEW x, NEW y,
           <<a, b, c, d, e>> = <<u, v, w, x, y>>
    PROVE  a = u /\ b = v /\ c = w /\ d = x /\ e = y
  BY Zenon
LEMMA SamePair == ASSUME NEW a, NEW b, NEW u, NEW v, <<a, b>> = <<u, v>> PROVE a = u /\ b = v
  BY Zenon
LEMMA SameFields ==
    ASSUME NEW F, NEW G, CanonicalFields(F) = CanonicalFields(G), NEW n \in DOMAIN F, n \in DOMAIN G
    PROVE  (F[n] = <<>> <=> G[n] = <<>>) /\ Combined(F[n]) = Combined(G[n])
<1>1. /\ CanonicalFields(F)[n] = <<F[n] = <<>>, Combined(F[n])>>
      /\ CanonicalFields(G)[n] = <<G[n] = <<>>, Combined(G[n])>>
  BY Zenon DEF CanonicalFields
<1>2. <<F[n] = <<>>, Combined(F[n])>> = <<G[n] = <<>>, Combined(G[n])>>
  BY <1>1, Zenon
<1> QED BY <1>2, SamePair, Zenon

LEMMA SameURLs ==
    ASSUME NEW m \in Contexts, NEW w \in Contexts,
           [i \in DOMAIN m.url |-> CanonicalURL(m.url[i])] = [i \in DOMAIN w.url |-> CanonicalURL(w.url[i])]
    PROVE  /\ m.url = <<>> <=> w.url = <<>>
           /\ m.url # <<>> => CanonicalURL(m.url[1]) = CanonicalURL(w.url[1])
<1>1. (m.url = <<>> \/ m.url = <<m.url[1]>>) /\ (w.url = <<>> \/ w.url = <<w.url[1]>>)
  BY SigAssumption, Zenon
<1> DEFINE f == m.url
           g == w.url
           C == [i \in DOMAIN f |-> CanonicalURL(f[i])]
           D == [i \in DOMAIN g |-> CanonicalURL(g[i])]
<1>2. C = D /\ (f = <<>> \/ f = <<f[1]>>) /\ (g = <<>> \/ g = <<g[1]>>)
  BY <1>1, Zenon
<1>3. DOMAIN C = DOMAIN f /\ DOMAIN D = DOMAIN g
  BY Zenon
<1> HIDE DEF f, g
<1>4. DOMAIN f = DOMAIN g
  BY <1>2, <1>3, Zenon
<1>5. (f = <<>> => DOMAIN f = {}) /\ (f # <<>> => 1 \in DOMAIN f)
  BY <1>2
<1>6. (g = <<>> => DOMAIN g = {}) /\ (g # <<>> => 1 \in DOMAIN g)
  BY <1>2
<1>7. f # <<>> => C[1] = CanonicalURL(f[1]) /\ D[1] = CanonicalURL(g[1])
  BY <1>4, <1>5, Zenon
<1> HIDE DEF C, D
<1>8. /\ f = <<>> <=> g = <<>>
      /\ f # <<>> => CanonicalURL(f[1]) = CanonicalURL(g[1])
  BY <1>2, <1>4, <1>5, <1>6, <1>7, Zenon
<1> QED BY Zenon, <1>8 DEF f, g

LEMMA SameURLParts ==
    ASSUME NEW u, NEW w, CanonicalURL(u) = CanonicalURL(w)
    PROVE  /\ u.scheme = w.scheme /\ Path(u) = Path(w) /\ u.query = w.query
           /\ u.host = "empty" <=> w.host = "empty"
           /\ NormalizeAuthority(u) = NormalizeAuthority(w)
<1>1. /\ u.scheme = w.scheme /\ Lower(u.host) = Lower(w.host)
      /\ (IF <<u.scheme, u.port>> \in DefaultPorts THEN "empty" ELSE u.port)
           = (IF <<w.scheme, w.port>> \in DefaultPorts THEN "empty" ELSE w.port)
      /\ Path(u) = Path(w) /\ u.query = w.query
  BY SameFive, Zenon DEF CanonicalURL
<1>2. u.host = "empty" <=> w.host = "empty"
  BY Zenon, <1>1 DEF Lower
<1>3. NormalizeAuthority(u) = NormalizeAuthority(w)
  BY <1>1, Zenon DEF NormalizeAuthority
<1> QED BY Zenon, <1>1, <1>2, <1>3

LEMMA SameValue ==
    ASSUME NEW m \in Contexts, NEW w \in Contexts, Canonical(m) = Canonical(w), NEW id, Named(id),
           "bs" \notin id.flags, id.derived => id.name # "@target-uri"
    PROVE  m.response = w.response /\ DeriveComponentValue(m, id) = DeriveComponentValue(w, id)
<1>1. /\ m.response = w.response /\ m.method = w.method /\ m.status = w.status
      /\ [i \in DOMAIN m.url |-> CanonicalURL(m.url[i])] = [i \in DOMAIN w.url |-> CanonicalURL(w.url[i])]
      /\ CanonicalFields(m.header) = CanonicalFields(w.header)
      /\ CanonicalFields(m.trailers) = CanonicalFields(w.trailers)
  BY SameParts, Zenon DEF Canonical
<1>2. CASE ~id.derived
  <2>1. /\ id.name \in DOMAIN m.header /\ id.name \in DOMAIN m.trailers
        /\ id.name \in DOMAIN w.header /\ id.name \in DOMAIN w.trailers
    BY <1>2, Zenon DEF Named
  <2> DEFINE f == IF "tr" \in id.flags THEN m.trailers[id.name] ELSE m.header[id.name]
             g == IF "tr" \in id.flags THEN w.trailers[id.name] ELSE w.header[id.name]
  <2>2. (f = <<>> <=> g = <<>>) /\ Combined(f) = Combined(g)
    <3>1. CASE "tr" \in id.flags
      <4>1. /\ m.trailers[id.name] = <<>> <=> w.trailers[id.name] = <<>>
            /\ Combined(m.trailers[id.name]) = Combined(w.trailers[id.name])
        <5> DEFINE F == m.trailers
                   G == w.trailers
                   n == id.name
        <5>1. CanonicalFields(F) = CanonicalFields(G) /\ n \in DOMAIN F /\ n \in DOMAIN G
          BY <1>1, <2>1, Zenon
        <5> HIDE DEF F, G, n
        <5>2. (F[n] = <<>> <=> G[n] = <<>>) /\ Combined(F[n]) = Combined(G[n])
          BY <5>1, SameFields, Zenon
        <5> QED BY <5>2, Zenon DEF F, G, n
      <4> QED BY <3>1, <4>1, Zenon
    <3>2. CASE "tr" \notin id.flags
      <4>1. /\ m.header[id.name] = <<>> <=> w.header[id.name] = <<>>
            /\ Combined(m.header[id.name]) = Combined(w.header[id.name])
        <5> DEFINE F == m.header
                   G == w.header
                   n == id.name
        <5>1. CanonicalFields(F) = CanonicalFields(G) /\ n \in DOMAIN F /\ n \in DOMAIN G
          BY <1>1, <2>1, Zenon
        <5> HIDE DEF F, G, n
        <5>2. (F[n] = <<>> <=> G[n] = <<>>) /\ Combined(F[n]) = Combined(G[n])
          BY <5>1, SameFields, Zenon
        <5> QED BY <5>2, Zenon DEF F, G, n
      <4> QED BY <3>2, <4>1, Zenon
    <3> QED BY Zenon, <3>1, <3>2
  <2>3. /\ DeriveComponentValue(m, id) = IF f = <<>> THEN <<>>
             ELSE IF id.key # "empty" THEN ExtractDictionaryKey(Combined(f), id.key) ELSE <<Combined(f)>>
        /\ DeriveComponentValue(w, id) = IF g = <<>> THEN <<>>
             ELSE IF id.key # "empty" THEN ExtractDictionaryKey(Combined(g), id.key) ELSE <<Combined(g)>>
    BY <1>2, Zenon DEF DeriveComponentValue, DeriveHTTPField
  <2> HIDE DEF f, g
  <2>4. DeriveComponentValue(m, id) = DeriveComponentValue(w, id)
    <3>1. CASE f = <<>>
      BY <2>2, <2>3, <3>1, Zenon
    <3>2. CASE f # <<>>
      <4>1. g # <<>> /\ Combined(f) = Combined(g)
        BY <2>2, <3>2, Zenon
      <4>2. CASE id.key # "empty"
        BY <2>3, <3>2, <4>1, <4>2, Zenon
      <4>3. CASE id.key = "empty"
        BY <2>3, <3>2, <4>1, <4>3, Zenon
      <4> QED BY <4>2, <4>3, Zenon
    <3> QED BY <3>1, <3>2, Zenon
  <2> QED BY <1>1, <2>4, Zenon
<1>3. CASE id.derived
  <2>1. /\ m.url = <<>> <=> w.url = <<>>
        /\ m.url # <<>> => CanonicalURL(m.url[1]) = CanonicalURL(w.url[1])
    BY <1>1, SameURLs, Zenon
  <2>2. DeriveDerivedComponent(m, id) = DeriveDerivedComponent(w, id)
    <3>1. CASE id.name \in {"@method", "@status"}
      BY Zenon, <1>1, <3>1 DEF DeriveDerivedComponent
    <3>2. CASE id.name \notin {"@method", "@status"} /\ m.url = <<>>
      BY Zenon, <2>1, <3>2 DEF DeriveDerivedComponent
    <3>3. CASE id.name \notin {"@method", "@status"} /\ m.url # <<>>
      <4> DEFINE u == m.url[1]
                 x == w.url[1]
                 Of(y) ==
                   CASE id.name = "@target-uri" -> <<y>>
                     [] id.name = "@authority" -> IF y.host = "empty" THEN <<>> ELSE <<NormalizeAuthority(y)>>
                     [] id.name = "@scheme" -> IF y.scheme = "empty" THEN <<>> ELSE <<y.scheme>>
                     [] id.name = "@request-target" -> << <<Path(y), y.query>> >>
                     [] id.name = "@path" -> <<Path(y)>>
                     [] id.name = "@query" -> <<y.query>>
                     [] id.name = "@query-param" -> DeriveQueryParam(y.query, id.param)
                     [] OTHER -> <<>>
      <4>1. DeriveDerivedComponent(m, id) = Of(u) /\ DeriveDerivedComponent(w, id) = Of(x)
        BY Zenon, <2>1, <3>3 DEF DeriveDerivedComponent
      <4>2. /\ u.scheme = x.scheme /\ Path(u) = Path(x) /\ u.query = x.query
            /\ u.host = "empty" <=> x.host = "empty"
            /\ NormalizeAuthority(u) = NormalizeAuthority(x)
        BY <2>1, <3>3, SameURLParts, Zenon
      <4> HIDE DEF u, x
      <4>3. Of(u) = Of(x)
        BY Zenon, <1>3, <4>2
      <4> HIDE DEF Of
      <4> QED BY <4>1, <4>3, Zenon
    <3> QED BY Zenon, <3>1, <3>2, <3>3
  <2> QED BY <1>1, <1>3, <2>2, Zenon DEF DeriveComponentValue
<1> QED BY Zenon, <1>2, <1>3

LEMMA ValueStays ==
    ASSUME NEW m \in Contexts, msg \in Contexts, Canonical(msg) = Canonical(m), NEW id, Named(id),
           "bs" \notin id.flags, id.derived => id.name # "@target-uri"
    PROVE  ComponentValue(id) = ValueIn(m, id)
<1>1. msg.response = m.response /\ DeriveComponentValue(msg, id) = DeriveComponentValue(m, id)
  BY SameValue, Zenon
<1> QED BY <1>1, Zenon DEF ComponentValue, ValueIn

LEMMA SigInvVerifies == SigInv => SignedVerifies
<1> SUFFICES ASSUME SigInv, NEW i \in DOMAIN log, verdict # <<>>, Verifiable(i, verdict[1]),
                    Canonical(msg) = Canonical(log[i].msg),
                    \A k \in DOMAIN log[i].base[1].components : LET c == log[i].base[1].components[k] IN
                      "bs" \notin c.flags /\ (c.derived => c.name # "@target-uri")
             PROVE  verdict[2] = "ok"
  BY Zenon DEF SignedVerifies, SigAccepted
<1>1. PICK v \in VerifyConfigs : verdict = <<v, VerifyResult(v)>>
  BY Zenon DEF SigInv
<1>2. verdict[1] = v /\ verdict[2] = VerifyResult(v)
  BY <1>1, Zenon
<1> DEFINE e == log[i]
           p == e.base[1]
<1>3. /\ EntryInv(e) /\ sigNow \in Nat /\ msg \in Contexts /\ MembersInv
      /\ signer.key = verifier.key /\ verifier.keyid = "k"
  BY Zenon DEF SigInv
<1>4. /\ e.cfg.label # "empty" /\ e.msg \in Contexts
      /\ e.base = <<p, [k \in DOMAIN p.components |-> ValueIn(e.msg, p.components[k])]>>
      /\ IsParams(p) /\ p.alg = signer.alg
      /\ p.created \in Nat /\ p.created > 0 /\ p.created <= sigNow /\ p.expires \in Nat
      /\ NoDuplicates(p.components)
      /\ \A k \in DOMAIN p.components :
           /\ ParseComponentIdentifier(p.components[k])
           /\ ValueIn(e.msg, p.components[k]) # <<>> /\ Named(p.components[k])
  BY <1>3, Zenon DEF EntryInv
<1>5. /\ e.cfg.label = v.label /\ \A j \in DOMAIN log : log[j].cfg.label = v.label => j = i
      /\ p.alg = verifier.alg /\ p.keyid = verifier.keyid /\ (v.tag # "empty" => p.tag = v.tag)
      /\ \A r \in v.required : \E k \in DOMAIN p.components : p.components[k] = r
      /\ InTime(p, v)
  BY <1>2, Zenon DEF Verifiable
<1>6. \A k \in DOMAIN p.components : ComponentValue(p.components[k]) = ValueIn(e.msg, p.components[k])
  BY <1>3, <1>4, ValueStays, Zenon
<1>7. BuildSignatureBase(p) = e.base /\ Buildable(p.components)
  <2>1. [k \in DOMAIN p.components |-> ComponentValue(p.components[k])]
          = [k \in DOMAIN p.components |-> ValueIn(e.msg, p.components[k])]
    BY <1>6, Zenon
  <2>2. BuildSignatureBase(p) = e.base
    BY <1>4, <2>1, Zenon DEF BuildSignatureBase
  <2>3. Buildable(p.components)
    BY <1>4, <1>6, Zenon DEF Buildable
  <2> QED BY Zenon, <2>2, <2>3
<1>8. Find(inputs, v.label) = i /\ Find(sigs, v.label) = i /\ i # 0 /\ inputs # <<>>
  <2>1. i \in Labelled(v.label) /\ \A j \in Labelled(v.label) : j = i
    BY <1>5, Zenon DEF Labelled
  <2>2. Find(inputs, v.label) = Find(sigs, v.label) /\ Find(inputs, v.label) \in Labelled(v.label)
        /\ Find(inputs, v.label) # 0
    BY <2>1, FindIs, Zenon
  <2>3. inputs # <<>>
    <3>1. i \in DOMAIN inputs
      BY <1>3 DEF MembersInv, IsList
    <3> QED BY <3>1
  <2> QED BY <2>1, <2>2, <2>3, Zenon
<1>9. /\ inputs[i].params = p /\ sigs[i].key = verifier.key /\ sigs[i].alg = verifier.alg
      /\ sigs[i].base = e.base
  BY <1>3, <1>4, <1>5, Zenon DEF MembersInv
<1>10. Covered(p, v)
  BY <1>5, Zenon DEF Covered
<1>11. Check(p, v) = "ok"
  <2> HIDE DEF p, e
  <2> QED BY <1>3, <1>4, <1>5, <1>10, CheckOk, Zenon
<1>12. ParseSignatureParams(inputs[i].params) = p
  <2>1. p.keyid # "semicolon"
    BY ZenonT(30), <1>3, <1>5
  <2> QED BY <1>4, <1>9, <2>1, ParsedParams, Zenon
<1>13. VerifierVerifies(BuildSignatureBase(p), sigs[i])
  BY <1>7, <1>9, Zenon DEF VerifierVerifies
<1> HIDE DEF p, e
<1>14. v.label # "empty"
  BY <1>4, <1>5, Zenon
<1>15. VerifyResult(v) = "ok"
  BY ZenonT(30), <1>7, <1>8, <1>11, <1>12, <1>13, <1>14 DEF VerifyResult
<1> QED BY <1>2, <1>15, Zenon

---------------------------------------------------------------------------
(* The verifiers together. *)

\* Verify of httpsig, VerifyProofForRequest of dpop and Validate with
\* MatchRedirectURI of pkce, for any messages, rewritings, keys, options, policies,
\* lengths and times: what they accept was made for it, is intact and in time.
THEOREM AcceptedAreGenuine == SigSpec /\ DPoPSpec /\ PKCESpec => []AcceptedIsGenuine
<1>1. SigInv => AcceptedAsSigned
  BY Zenon, SigInvAccepted
<1>2. DPoPInv => ProofBindsRequest
  BY ZenonT(30), DPoPInvBinds
<1>3. PKCEInv => GrantIsBound
  BY ZenonT(30) DEF PKCEInv
<1> QED BY <1>1, <1>2, <1>3, SigSafe, DPoPSafe, PKCESafe, PTL DEF AcceptedIsGenuine

\* The same three the other way: a message that was signed verifies in every form
\* that leaves its components as they were, a proof verifies with its request while
\* it is fresh, and New makes a verifier of the length it was asked for.
THEOREM GenuineAreAccepted == SigSpec /\ DPoPSpec /\ PKCESpec => []GenuineIsAccepted
<1>1. SigInv => SignedVerifies
  BY Zenon, SigInvVerifies
<1>2. DPoPInv => FreshProofVerifies
  BY Zenon, DPoPInvFresh
<1>3. PKCEInv => VerifierFits
  BY Zenon DEF PKCEInv
<1> QED BY <1>1, <1>2, <1>3, SigSafe, DPoPSafe, PKCESafe, PTL DEF GenuineIsAccepted
=============================================================================
