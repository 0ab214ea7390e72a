------------------------------ MODULE WTStream ------------------------------
(***************************************************************************)
(* WebTransport streams and the bootstrap of a session:                    *)
(* src/webtransport/stream.go (Stream and SendStream) and                  *)
(* src/webtransport/dial.go (Dial, DialWithConn and the connection's       *)
(* dispatcher), with the open calls of src/webtransport/session.go.        *)
(***************************************************************************)
EXTENDS Naturals, Sequences, FiniteSets

CONSTANTS
    Writers,   \* goroutines that write once to the one outgoing stream
    Incoming,  \* streams the peer opens
    NoWriter

\* The dispatcher's three loops.
Loops == {"bidi", "uni", "datagrams"}

(* What the peer writes first on a stream it opens, if anything. *)
Headers == {"cut", "other type", "other session", "own"}

VARIABLES
    dial,      \* the dial's step, then "session" or "failed"
    qConn,     \* the QUIC connection: "none", "up" or "down"
    ctrl,      \* the HTTP/3 control stream
    str,       \* the CONNECT stream
    dialCancelled,        \* the context of the dial, which the dispatcher keeps
    wtClosed, wtDraining, \* the session's flags
    loop,      \* per dispatcher loop
    incoming,  \* per peer stream: its kind and where it is
    \* one outgoing stream
    opened, headerWritten, mu, streamClosed, wire, wpc

dialVars == <<dial, qConn, ctrl, str, dialCancelled>>
sessVars == <<wtClosed, wtDraining, loop, incoming>>
strmVars == <<opened, headerWritten, mu, streamClosed, wire, wpc>>
wtVars == <<dialVars, sessVars, strmVars>>

WTInit ==
    /\ dial = "quic" /\ qConn = "none" /\ ctrl = "none" /\ str = "none"
    /\ dialCancelled = FALSE /\ wtClosed = FALSE /\ wtDraining = FALSE
    /\ loop = [l \in Loops |-> "idle"]
    /\ incoming = [i \in Incoming |-> [kind |-> "none", at |-> "peer"]]
    /\ opened = FALSE /\ headerWritten = FALSE /\ mu = NoWriter
    /\ streamClosed = FALSE /\ wire = <<>> /\ wpc = [w \in Writers |-> "idle"]

---------------------------------------------------------------------------
(* Dial and DialWithConn. *)

\* Any call may fail.  Those that take the context do when it is cancelled;
\* reads and writes of the two streams only know the connection.
Works == qConn # "down" /\ ~dialCancelled

DialQuic ==
    /\ dial = "quic"
    /\ \/ Works /\ qConn' = "up" /\ dial' = "control"
       \/ dial' = "failed" /\ UNCHANGED qConn
    /\ UNCHANGED <<ctrl, str, dialCancelled, sessVars, strmVars>>

OpenControl ==
    /\ dial = "control"
    /\ \/ Works /\ ctrl' = "open" /\ dial' = "settings"
       \/ dial' = "failed" /\ UNCHANGED ctrl
    /\ UNCHANGED <<qConn, str, dialCancelled, sessVars, strmVars>>

WriteSettings ==
    /\ dial = "settings"
    /\ \/ qConn = "up" /\ dial' = "connect" /\ UNCHANGED ctrl
       \/ dial' = "failed" /\ ctrl' = "closed"
    /\ UNCHANGED <<qConn, str, dialCancelled, sessVars, strmVars>>

OpenConnect ==
    /\ dial = "connect"
    /\ \/ Works /\ str' = "open" /\ dial' = "request"
       \/ dial' = "failed" /\ UNCHANGED str
    /\ UNCHANGED <<qConn, ctrl, dialCancelled, sessVars, strmVars>>

\* The HEADERS frame and its payload are written, the response read and its
\* status looked at; whatever fails closes the CONNECT stream.
HandshakeFailsMut == str
HandshakeFails == "closed"
Handshake ==
    /\ dial = "request"
    /\ \/ /\ qConn = "up" /\ dial' = "session"
          /\ loop' = [l \in Loops |-> "accept"]
          /\ UNCHANGED str
       \/ /\ dial' = "failed" /\ str' = HandshakeFails
          /\ UNCHANGED loop
    /\ UNCHANGED <<qConn, ctrl, dialCancelled, wtClosed, wtDraining, incoming, strmVars>>

---------------------------------------------------------------------------
(* The dispatcher. *)

PeerOpens(i, kind) ==
    /\ dial = "session" /\ qConn = "up" /\ incoming[i].at = "peer"
    /\ incoming' = [incoming EXCEPT ![i] = [kind |-> kind, at |-> "offered"]]
    /\ UNCHANGED <<dialVars, wtClosed, wtDraining, loop, strmVars>>

\* An accept loop hands the stream to a goroutine of its own.
AcceptIncoming(i) ==
    /\ Works /\ incoming[i].at = "offered" /\ loop[incoming[i].kind] = "accept"
    /\ incoming' = [incoming EXCEPT ![i].at = "handler"]
    /\ UNCHANGED <<dialVars, wtClosed, wtDraining, loop, strmVars>>

\* handleIncomingBidi and handleIncomingUni: a stream of this session is
\* enqueued, or closed when the session is; a bidirectional stream that is not
\* is closed, a unidirectional one left alone.  The reads wait for the peer.
HandleIncoming(i, header) ==
    /\ incoming[i].at = "handler"
    /\ qConn = "down" => header = "cut"
    /\ incoming' = [incoming EXCEPT
         ![i].at = CASE header = "own" /\ ~wtClosed -> "enqueued"
                     [] header # "own" /\ incoming[i].kind = "uni" -> "dropped"
                     [] OTHER -> "closed"]
    /\ UNCHANGED <<dialVars, wtClosed, wtDraining, loop, strmVars>>

\* The deferred cleanup closes the session, once.
CleanupMut == wtClosed
Cleanup == TRUE
AcceptFails(l) ==
    /\ loop[l] = "accept" /\ ~Works
    /\ loop' = [loop EXCEPT ![l] = "done"]
    /\ wtClosed' = Cleanup
    /\ UNCHANGED <<dialVars, wtDraining, incoming, strmVars>>

---------------------------------------------------------------------------
(* OpenStream and the stream's Write and Close. *)

OpenStream ==
    /\ dial = "session" /\ ~opened /\ qConn = "up"
    /\ opened' = (~wtClosed /\ ~wtDraining)
    /\ UNCHANGED <<dialVars, sessVars, headerWritten, mu, streamClosed, wire, wpc>>

WriterGoto(w, l) == wpc' = [wpc EXCEPT ![w] = l]

WriteCheck(w) ==
    /\ opened /\ wpc[w] = "idle"
    /\ WriterGoto(w, IF streamClosed THEN "ErrStreamClosed"
                     ELSE IF headerWritten THEN "data" ELSE "lock")
    /\ UNCHANGED <<dialVars, sessVars, opened, headerWritten, mu, streamClosed, wire>>

WriteLock(w) ==
    /\ wpc[w] = "lock" /\ mu = NoWriter
    /\ mu' = w /\ WriterGoto(w, "again")
    /\ UNCHANGED <<dialVars, sessVars, opened, headerWritten, streamClosed, wire>>

\* Under the lock the flag is read again, set, and the lock released.
WriteAgainMut(w) ==
    /\ wpc[w] = "again" /\ mu' = NoWriter
    /\ WriterGoto(w, "header") /\ headerWritten' = TRUE
    /\ UNCHANGED <<dialVars, sessVars, opened, streamClosed, wire>>
WriteAgain(w) ==
    /\ wpc[w] = "again" /\ mu' = NoWriter
    /\ WriterGoto(w, IF headerWritten THEN "data" ELSE "header") /\ headerWritten' = TRUE
    /\ UNCHANGED <<dialVars, sessVars, opened, streamClosed, wire>>

\* raw.Write, of the header with the first payload or of a payload; it may
\* fail or come too late for the connection or for a closed stream.
RawWrite(w) ==
    /\ wpc[w] \in {"header", "data"}
    /\ \/ /\ qConn = "up" /\ ~streamClosed
          /\ wire' = Append(wire, wpc[w]) /\ WriterGoto(w, "nil")
       \/ WriterGoto(w, "error") /\ UNCHANGED wire
    /\ UNCHANGED <<dialVars, sessVars, opened, headerWritten, mu, streamClosed>>

CloseStream ==
    /\ opened /\ ~streamClosed /\ streamClosed' = TRUE
    /\ UNCHANGED <<dialVars, sessVars, opened, headerWritten, mu, wire, wpc>>

---------------------------------------------------------------------------
(* The application and the network. *)

Cancel ==
    /\ ~dialCancelled /\ dialCancelled' = TRUE
    /\ UNCHANGED <<dial, qConn, ctrl, str, sessVars, strmVars>>

ConnLost ==
    /\ qConn = "up" /\ qConn' = "down"
    /\ UNCHANGED <<dial, ctrl, str, dialCancelled, sessVars, strmVars>>

DrainSession ==
    /\ dial = "session" /\ ~wtClosed /\ ~wtDraining /\ wtDraining' = TRUE
    /\ UNCHANGED <<dialVars, wtClosed, loop, incoming, strmVars>>

---------------------------------------------------------------------------

DialNext == DialQuic \/ OpenControl \/ WriteSettings \/ OpenConnect \/ Handshake
LoopNext(l) == AcceptFails(l)
WriterNext(w) == WriteLock(w) \/ WriteAgain(w) \/ RawWrite(w)
WTNext ==
    \/ DialNext \/ OpenStream \/ CloseStream \/ Cancel \/ ConnLost \/ DrainSession
    \/ \E l \in Loops : LoopNext(l)
    \/ \E i \in Incoming :
         \/ PeerOpens(i, "bidi") \/ PeerOpens(i, "uni") \/ AcceptIncoming(i)
         \/ \E h \in Headers : HandleIncoming(i, h)
    \/ \E w \in Writers : WriteCheck(w) \/ WriterNext(w)

---------------------------------------------------------------------------
(* Properties. *)

\* Whatever its writers do at the same time, a stream's header is sent at most
\* once, and only by the one Write that found the flag unset under the lock.
HeaderOnce ==
    /\ \A i, j \in DOMAIN wire : wire[i] = "header" /\ wire[j] = "header" => i = j
    /\ \A v, w \in Writers : wpc[v] = "header" /\ wpc[w] = "header" => v = w

\* "automatically transmitting the frame header on first write": the header
\* precedes the payload of every Write.  It does not with two writers, nor
\* after a failed first Write: the flag is set before the bytes go out.
HeaderFirst == wire # <<>> => wire[1] = "header"

\* A dial that failed after it opened the CONNECT stream has closed it, so the
\* server is not left with a request that nobody will use.
FailedDialClosesRequest == dial = "failed" => str # "open"

\* What the peer is left with is sound: one header per stream, and no request
\* of a dial that failed.
WebTransportSound == HeaderOnce /\ FailedDialClosesRequest

\* Once the connection is lost, or the context given to the dial cancelled,
\* the session is closed and no accept loop is left.
SessionFollowsConnection ==
    dial = "session" /\ ~Works ~> wtClosed /\ \A l \in Loops : loop[l] = "done"
=============================================================================
