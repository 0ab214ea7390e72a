------------------------------- MODULE Framing -------------------------------
(***************************************************************************)
(* Frames and their pooled buffers: NetConnWrapper.Send and Receive        *)
(* (src/socket/connector/connector.go), the length-prefixed framer and the *)
(* FrameBuffer pool (src/socket/frame.go), the connector's read loop and   *)
(* the processor that frees a frame when its packet was dispatched.        *)
(*                                                                         *)
(* WriteFrame makes two writes, a header and the data; the wire loops back *)
(* to the reader.  A cipher (external) works in place or into another      *)
(* buffer, and may fail.                                                   *)
(***************************************************************************)
EXTENDS Naturals, Sequences

CONSTANTS
    Senders,
    Buffers,    \* frame buffers, of the pool or newly made
    Ciphers,    \* out of "none", "inplace", "copy"
    Data,       \* payloads; a payload is its length
    MaxLength,  \* the framer's MaxLength
    MaxSends, ChanSize,
    NoBuf

ASSUME FramingAssumption == NoBuf \notin Buffers

VARIABLES
    cipher,     \* the connection's cipher, fixed here
    pooled,     \* how often each buffer is in the pool
    made,       \* buffers that exist
    content,    \* what each buffer holds
    spc, sdata, sbuf, senc, sends,  \* senders
    stream,       \* headers <<"len", n>> and data <<"data", n>>
    rpc, rbuf,  \* the read loop
    incoming,   \* the connector's channel of buffers
    wbuf,       \* the worker's frame
    done,       \* ctx of the connector
    written,    \* history: the payloads whose frames were written
    handled     \* history: what was dispatched

frameVars == <<cipher, pooled, made, content, spc, sdata, sbuf, senc, sends, stream,
               rpc, rbuf, incoming, wbuf, done, written, handled>>
poolVars == <<pooled, made, content>>
sendVars == <<spc, sdata, sbuf, senc, sends>>
readVars == <<rpc, rbuf>>

---------------------------------------------------------------------------
(* The pool. *)

\* AcquireFrameBuffer: one of the pool, or a new one, resized and filled.
Available ==
    {b \in Buffers : pooled[b] > 0} \union
      (IF made = Buffers THEN {} ELSE {CHOOSE b \in Buffers : b \notin made})
Acquire(b, data) ==
    /\ b \in Available
    /\ pooled' = [pooled EXCEPT ![b] = IF @ > 0 THEN @ - 1 ELSE 0]
    /\ made' = made \union {b}
    /\ content' = [content EXCEPT ![b] = data]

\* ReleaseFrameBuffer of a set of buffers (each of pooled size).
Release(bs) ==
    /\ pooled' = [b \in Buffers |-> IF b \in bs THEN pooled[b] + 1 ELSE pooled[b]]
    /\ UNCHANGED <<made, content>>

---------------------------------------------------------------------------
(* Send. *)

SendFrame(s, d) ==
    /\ spc[s] = "idle" /\ sends < MaxSends /\ sends' = sends + 1
    /\ sdata' = [sdata EXCEPT ![s] = d]
    /\ IF cipher = "none"
         THEN spc' = [spc EXCEPT ![s] = "header"] /\ UNCHANGED <<poolVars, sbuf>>
         ELSE \E b \in Buffers : /\ Acquire(b, d) /\ sbuf' = [sbuf EXCEPT ![s] = b]
                                 /\ spc' = [spc EXCEPT ![s] = "encrypt"]
    /\ UNCHANGED <<cipher, senc, stream, readVars, incoming, wbuf, done, written, handled>>

Encrypt(s) ==
    /\ spc[s] = "encrypt"
    /\ \/ /\ Release({sbuf[s]}) /\ spc' = [spc EXCEPT ![s] = "idle"]    \* it fails
          /\ sbuf' = [sbuf EXCEPT ![s] = NoBuf] /\ UNCHANGED senc
       \/ /\ cipher = "inplace" /\ senc' = [senc EXCEPT ![s] = sbuf[s]]
          /\ spc' = [spc EXCEPT ![s] = "header"] /\ UNCHANGED <<poolVars, sbuf>>
       \/ /\ cipher = "copy"
          /\ \E b \in Buffers : Acquire(b, content[sbuf[s]]) /\ senc' = [senc EXCEPT ![s] = b]
          /\ spc' = [spc EXCEPT ![s] = "header"] /\ UNCHANGED sbuf
    /\ UNCHANGED <<cipher, sdata, sends, stream, readVars, incoming, wbuf, done, written, handled>>

\* What Send writes: the caller's slice, or the encrypted buffer as it is now.
Payload(s) == IF cipher = "none" THEN sdata[s] ELSE content[senc[s]]
WriteHeader(s) ==
    /\ spc[s] = "header" /\ spc' = [spc EXCEPT ![s] = "data"]
    /\ stream' = Append(stream, <<"len", Payload(s)>>)
    /\ UNCHANGED <<cipher, poolVars, sdata, sbuf, senc, sends, readVars, incoming, wbuf, done, written, handled>>
WriteData(s) ==
    /\ spc[s] = "data" /\ spc' = [spc EXCEPT ![s] = "release"]
    /\ stream' = Append(stream, <<"data", Payload(s)>>) /\ written' = Append(written, sdata[s])
    /\ UNCHANGED <<cipher, poolVars, sdata, sbuf, senc, sends, readVars, incoming, wbuf, done, handled>>
\* The connection is broken: the frame, or the rest of it, is not written.
WriteFails(s) ==
    /\ rpc = "ended" /\ spc[s] \in {"header", "data"} /\ spc' = [spc EXCEPT ![s] = "release"]
    /\ UNCHANGED <<cipher, poolVars, sdata, sbuf, senc, sends, stream, readVars, incoming, wbuf, done, written, handled>>

\* Both buffers go back, once each.
SendReleaseMut(s) ==
    /\ spc[s] = "release"
    /\ IF cipher = "none" THEN UNCHANGED poolVars
       ELSE /\ pooled' = [b \in Buffers |-> pooled[b] + (IF b = sbuf[s] THEN 1 ELSE 0) + (IF b = senc[s] THEN 1 ELSE 0)]
            /\ UNCHANGED <<made, content>>
    /\ spc' = [spc EXCEPT ![s] = "idle"]
    /\ sbuf' = [sbuf EXCEPT ![s] = NoBuf] /\ senc' = [senc EXCEPT ![s] = NoBuf]
    /\ UNCHANGED <<cipher, sdata, sends, stream, readVars, incoming, wbuf, done, written, handled>>
SendRelease(s) ==
    /\ spc[s] = "release"
    /\ Release({sbuf[s], senc[s]})
    /\ spc' = [spc EXCEPT ![s] = "idle"]
    /\ sbuf' = [sbuf EXCEPT ![s] = NoBuf] /\ senc' = [senc EXCEPT ![s] = NoBuf]
    /\ UNCHANGED <<cipher, sdata, sends, stream, readVars, incoming, wbuf, done, written, handled>>

---------------------------------------------------------------------------
(* Receive, the read loop and the worker. *)

\* ReadFrame: a length above the maximum ends the loop; for another a buffer is
\* acquired, and holds nothing yet.
ReadHeader ==
    /\ rpc = "header" /\ stream # <<>> /\ stream' = Tail(stream)
    /\ IF Head(stream)[1] = "len" /\ Head(stream)[2] <= MaxLength
         THEN (\E b \in Buffers : Acquire(b, 0) /\ rbuf' = b) /\ rpc' = "data"
         ELSE rpc' = "ended" /\ UNCHANGED <<poolVars, rbuf>>
    /\ UNCHANGED <<cipher, sendVars, incoming, wbuf, done, written, handled>>

ReadData ==
    /\ rpc = "data" /\ stream # <<>> /\ stream' = Tail(stream)
    /\ content' = [content EXCEPT ![rbuf] = Head(stream)[2]]
    /\ rpc' = IF cipher = "none" THEN "deliver" ELSE "decrypt"
    /\ UNCHANGED <<cipher, pooled, made, sendVars, rbuf, incoming, wbuf, done, written, handled>>

\* The connection ends while a frame is awaited; a buffer goes back.
ReadFails ==
    /\ stream = <<>> /\ rpc \in {"header", "data"} /\ rpc' = "ended"
    /\ Release({rbuf}) /\ rbuf' = NoBuf
    /\ UNCHANGED <<cipher, sendVars, stream, incoming, wbuf, done, written, handled>>

Decrypt ==
    /\ rpc = "decrypt"
    /\ \/ Release({rbuf}) /\ rpc' = "ended" /\ rbuf' = NoBuf             \* it fails
       \/ cipher = "inplace" /\ rpc' = "deliver" /\ UNCHANGED <<poolVars, rbuf>>
       \/ /\ cipher = "copy" /\ rpc' = "deliver"
          /\ \E b \in Available \ {rbuf} :
                /\ rbuf' = b /\ made' = made \union {b}
                /\ content' = [content EXCEPT ![b] = content[rbuf]]
                /\ pooled' = [pooled EXCEPT ![b] = IF @ > 0 THEN @ - 1 ELSE 0, ![rbuf] = @ + 1]
    /\ UNCHANGED <<cipher, sendVars, stream, incoming, wbuf, done, written, handled>>

Deliver ==
    /\ rpc = "deliver" /\ rbuf' = NoBuf
    /\ \/ /\ Len(incoming) < ChanSize /\ incoming' = Append(incoming, rbuf)
          /\ rpc' = IF done THEN "ended" ELSE "header"
          /\ UNCHANGED poolVars
       \/ /\ done /\ Release({rbuf}) /\ rpc' = "ended" /\ UNCHANGED incoming
    /\ UNCHANGED <<cipher, sendVars, stream, wbuf, done, written, handled>>

\* The worker takes a frame, and processFrame dispatches it and frees it.
TakeMut ==
    /\ wbuf = NoBuf /\ incoming # <<>> /\ Release({Head(incoming)})
    /\ wbuf' = Head(incoming) /\ incoming' = Tail(incoming)
    /\ UNCHANGED <<cipher, sendVars, stream, readVars, done, written, handled>>
Take ==
    /\ wbuf = NoBuf /\ incoming # <<>>
    /\ wbuf' = Head(incoming) /\ incoming' = Tail(incoming)
    /\ UNCHANGED <<cipher, poolVars, sendVars, stream, readVars, done, written, handled>>
ProcessFrame ==
    /\ wbuf # NoBuf /\ wbuf' = NoBuf
    /\ handled' = Append(handled, content[wbuf]) /\ Release({wbuf})
    /\ UNCHANGED <<cipher, sendVars, stream, readVars, incoming, done, written>>

Cancel == ~done /\ done' = TRUE
          /\ UNCHANGED <<cipher, poolVars, sendVars, stream, readVars, incoming, wbuf, written, handled>>

FrameInit ==
    /\ cipher \in Ciphers /\ pooled = [b \in Buffers |-> 0] /\ made = {}
    /\ content = [b \in Buffers |-> 0]
    /\ spc = [s \in Senders |-> "idle"] /\ sdata = [s \in Senders |-> 0] /\ sends = 0
    /\ sbuf = [s \in Senders |-> NoBuf] /\ senc = [s \in Senders |-> NoBuf]
    /\ stream = <<>> /\ rpc = "header" /\ rbuf = NoBuf
    /\ incoming = <<>> /\ wbuf = NoBuf /\ done = FALSE /\ written = <<>> /\ handled = <<>>

FrameNext ==
    \/ \E s \in Senders : \/ \E d \in Data : SendFrame(s, d)
                          \/ Encrypt(s) \/ WriteHeader(s) \/ WriteData(s) \/ WriteFails(s) \/ SendRelease(s)
    \/ ReadHeader \/ ReadData \/ ReadFails \/ Decrypt \/ Deliver \/ Take \/ ProcessFrame \/ Cancel

---------------------------------------------------------------------------
Owners(b) ==
    ({"sender"} \X {s \in Senders : b \in {sbuf[s], senc[s]}})
      \union ({"channel"} \X {i \in DOMAIN incoming : incoming[i] = b})
      \union ({"loop"} \X {l \in {"read", "work"} : b = IF l = "read" THEN rbuf ELSE wbuf})
      \union ({"pool"} \X (1..pooled[b]))

\* A buffer has one owner: a sender, the read loop, the channel, the worker or
\* the pool.  A buffer released twice, or used after its release, has two.
BufferOwnedOnce == \A b \in Buffers : \A o, p \in Owners(b) : o = p

\* What is dispatched is what was sent, in order, as long as no two senders write
\* at the same time: the pooled buffers in between are nobody else's.
FramesIntact ==
    (\E s \in Senders : Senders = {s}) =>
      /\ Len(handled) <= Len(written)
      /\ \A i \in DOMAIN handled : handled[i] = written[i]

\* A frame buffer has one owner at a time (sender, read loop, channel, worker or
\* pool), and with one sender the frames dispatched are those sent, in order.
FramesSound == BufferOwnedOnce /\ FramesIntact
=============================================================================
