------------------------------- MODULE WebPush -------------------------------
(***************************************************************************)
(* WebPush delivery, src/webpush/: Client.Send encrypts a payload for a    *)
(* subscription, identifies the sender by a VAPID token and posts it; the  *)
(* push service (external) keeps what it accepts and hands it to the user  *)
(* agent, which decrypts it.  A record may also come from another sender,  *)
(* which may pad it.                                                       *)
(*                                                                         *)
(* Cryptography is external: a record opens with the keys it was sealed    *)
(* for.  A payload is the number of its leading bytes and its last bytes,  *)
(* and an empty string is "empty".                                         *)
(***************************************************************************)
EXTENDS Naturals, Integers, Sequences, FiniteSets

CONSTANTS
    Subscriptions,  \* [endpoint, key, auth]; an endpoint is <<scheme, host, path>>
    Payloads,       \* [lead, tail]
    TTLs,           \* message and token lifetimes, in milliseconds
    Paddings,       \* zeros that another sender adds
    MaxPushes       \* bound on the messages

VARIABLES
    result,     \* of the last Send: "empty", "ok" or an error
    kept,       \* requests that the push service accepted
    shown       \* [to, payload, got] of the records the user agent opened

ASSUME PushAssumption ==
    /\ Payloads \subseteq [lead : Nat, tail : Seq(Nat)]
    /\ TTLs \subseteq Int /\ Paddings \subseteq Nat

pushVars == <<result, kept, shown>>

MaxPayloadSize == 3993
DefaultRecordSize == 4096
HeaderLength == 86
Tag == 16
HourMillis == 3600 * 1000

Size(payload) == payload.lead + Len(payload.tail)

---------------------------------------------------------------------------
(* Encryption. *)

\* Encrypt's refusals, in order.
EncryptChecksMut(payload, sub) ==
    CASE sub.key = "empty" \/ sub.auth = "empty" -> "ErrInvalidSubscription"
      [] Size(payload) > DefaultRecordSize - HeaderLength - Tag -> "ErrPayloadTooLarge"
      [] OTHER -> "ok"
EncryptChecks(payload, sub) ==
    IF sub.key = "empty" \/ sub.auth = "empty" THEN "ErrInvalidSubscription"
    ELSE IF Size(payload) > MaxPayloadSize THEN "ErrPayloadTooLarge"
    ELSE IF sub.key = "short" THEN "ErrInvalidP256DHKey"
    ELSE IF sub.auth = "short" THEN "ErrInvalidAuthSecret"
    ELSE "ok"

\* encryptWithKeys: header, then the sealed payload, delimiter 2 and padding.
EncryptWithKeys(payload, sub, pad) ==
    [key |-> sub.key, auth |-> sub.auth, lead |-> payload.lead,
     tail |-> payload.tail \o <<2>> \o [i \in 1..pad |-> 0]]
RecordSize(record) == HeaderLength + record.lead + Len(record.tail) + Tag

\* Decrypt: the last byte that is not 0 must be the delimiter, and is dropped.
NonZero(s) == {i \in DOMAIN s : s[i] # 0}
DecryptRecordMut(record, sub) ==
    LET ends == {i \in DOMAIN record.tail : record.tail[i] = 2}
        last == CHOOSE i \in ends : \A j \in ends : i <= j
    IN  IF ends # {} THEN [lead |-> record.lead, tail |-> SubSeq(record.tail, 1, last - 1)]
        ELSE "ErrDecryptionFailed"
DecryptRecord(record, sub) ==
    LET solid == NonZero(record.tail)
        last == CHOOSE i \in solid : \A j \in solid : j <= i
    IN  IF <<record.key, record.auth>> # <<sub.key, sub.auth>> THEN "ErrDecryptionFailed"
        ELSE IF solid = {} \/ record.tail[last] # 2 THEN "ErrDecryptionFailed"
        ELSE [lead |-> record.lead, tail |-> SubSeq(record.tail, 1, last - 1)]

---------------------------------------------------------------------------
(* VAPID and the request. *)

\* SignJWT: the endpoint's origin, and 12 hours for a lifetime out of range.
TokenTTLMut(ttl) == IF ttl <= 0 THEN 12 * HourMillis ELSE ttl
TokenTTL(ttl) == IF ttl <= 0 \/ ttl > 24 * HourMillis THEN 12 * HourMillis ELSE ttl
SignJWT(endpoint, ttl) == [aud |-> <<endpoint[1], endpoint[2]>>, life |-> TokenTTL(ttl)]
CanSign(endpoint) == endpoint[1] # "empty" /\ endpoint[2] # "empty"

\* Seconds of the TTL header.
TTLHeader(ttl) == IF ttl <= 0 THEN 24 * 3600 ELSE ttl \div 1000

\* Send, with the service's answer.  A message's own VAPID configuration wins
\* over the client's; vapid is the one in force, -1 for none.
PushRequest(sub, payload, ttl, vapid) ==
    [to |-> sub, ttl |-> TTLHeader(ttl), payload |-> payload,
     body |-> IF Size(payload) = 0 THEN <<>> ELSE << EncryptWithKeys(payload, sub, 0) >>,
     auth |-> IF vapid = -1 THEN <<>> ELSE << SignJWT(sub.endpoint, vapid) >>]

Send(sub, payload, ttl, vapid, status) ==
    LET sealed == IF Size(payload) = 0 THEN "ok" ELSE EncryptChecks(payload, sub)
        accepted == status \in {200, 201, 202}
        outcome == IF sub.endpoint[3] = "empty" THEN "ErrInvalidSubscription"
                   ELSE IF sealed # "ok" THEN sealed
                   ELSE IF vapid # -1 /\ ~CanSign(sub.endpoint) THEN "ErrInvalidSubscription"
                   ELSE IF accepted THEN "ok" ELSE "ErrPushRejected"
    IN  /\ Cardinality(kept) + Cardinality(shown) < MaxPushes
        /\ result' = outcome
        /\ kept' = IF outcome = "ok" THEN kept \union {PushRequest(sub, payload, ttl, vapid)} ELSE kept
        /\ UNCHANGED shown

\* The user agent opens a record of Send's, or one that another sender padded.
Open(r, pad) ==
    /\ r.body # <<>>
    /\ LET record == IF pad = 0 THEN r.body[1] ELSE EncryptWithKeys(r.payload, r.to, pad)
       IN  shown' = shown \union {[request |-> r, got |-> DecryptRecord(record, r.to)]}
    /\ kept' = kept \ {r}
    /\ UNCHANGED result

PushInit == result = "empty" /\ kept = {} /\ shown = {}
PushNext ==
    \/ \E s \in Subscriptions, p \in Payloads, t \in TTLs, v \in TTLs \union {-1}, status \in {201, 410} :
          Send(s, p, t, v, status)
    \/ \E r \in kept, pad \in Paddings : Open(r, pad)

---------------------------------------------------------------------------
\* The user agent gets the payload that was sent, whatever its last bytes and
\* however it was padded.
PushIntact == \A s \in shown : s.got = s.request.payload

\* What Send posts fits one record, and its token is for the endpoint's origin
\* and lives at most the 24 hours of RFC 8292.
PushWithinLimits ==
    \A r \in kept :
        /\ r.body # <<>> => RecordSize(r.body[1]) <= DefaultRecordSize
        /\ r.auth # <<>> => r.auth[1].life > 0 /\ r.auth[1].life <= 24 * HourMillis

\* A push message reaches the user agent as it was sent, in one record, with a
\* VAPID token of at most a day.
PushDelivered == PushIntact /\ PushWithinLimits
=============================================================================
