-------------------------------- MODULE GRPC --------------------------------
(***************************************************************************)
(* The gRPC client (grpc/): the checks a response goes through, unary and  *)
(* server-streaming calls as functions of the response, and the            *)
(* bidirectional stream with its request goroutine, its pipe and           *)
(* concurrent Send, Recv, CloseSend and Close.                             *)
(***************************************************************************)
EXTENDS Integers, Sequences, FiniteSets

CONSTANTS
    Responses,  \* the server's responses to choose from
    Senders,    \* goroutines that call Send once each
    Receivers,  \* goroutines that call Recv until it fails
    Closer,     \* the goroutine that calls CloseSend or Close
    Nobody      \* nobody runs the Once, nobody holds a lock

(* A response: http status, content type, grpc-status of the headers and of
   the trailers ("" when absent), and the body's frames.                   *)
Statuses == {"", "0", "5", "junk"}
FrameKinds == {"plain", "gzip", "badgzip", "gzipcut", "badproto", "cut"}

ASSUME GRPCAssumption ==
    /\ Responses \subseteq [http : Nat, ct : {"grpc", "other"}, head : Statuses,
                            frames : Seq(FrameKinds), trailer : Statuses]
    /\ Senders \cap Receivers = {} /\ Closer \notin Senders \cup Receivers
    /\ "done" \notin Senders \cup Receivers \cup {Nobody}

---------------------------------------------------------------------------
(* What a response means. *)

\* parseGRPCStatus: "5" is a code other than 0, and one that is no number is
\* StatusUnknown.
ParseGRPCStatus(status) == IF status = "5" THEN "status 5" ELSE "status 2"

\* HTTP status, content type, and a Trailers-Only error.
ValidateInitialHeaders(r) ==
    CASE r.http # 200                      -> "status 2"
      [] r.http = 200 /\ r.ct = "other"    -> "ErrInvalidContentType"
      [] OTHER -> IF r.head \in {"", "0"} THEN "nil" ELSE ParseGRPCStatus(r.head)

\* The trailers' status, or the headers' when they have none.
ValidateResponseTrailersMut(r) ==
    LET status == IF r.trailer # "" THEN r.trailer ELSE r.head
    IN  IF status \in {"", "0"} THEN "nil" ELSE ParseGRPCStatus(status)
ValidateResponseTrailers(r) ==
    LET status == IF r.trailer # "" THEN r.trailer ELSE r.head
    IN  CASE status = ""  -> "ErrMissingGRPCStatus"
          [] status = "0" -> "nil"
          [] OTHER        -> ParseGRPCStatus(status)

\* The first frame of a body: a message, or why there is none. The error of a
\* gzip payload that ends early wraps io.ErrUnexpectedEOF too.
UnmarshalFrame(frames) ==
    IF frames = <<>> THEN "EOF"
    ELSE CASE Head(frames) \in {"plain", "gzip"}  -> "message"
           [] Head(frames) \in {"cut", "gzipcut"} -> "ErrUnexpectedEOF"
           [] OTHER                               -> "error"

\* Invoke and InvokeInto: headers, one frame, the rest drained, trailers.
Invoke(r) ==
    LET headers == ValidateInitialHeaders(r)
        frame == UnmarshalFrame(r.frames)
    IN  IF headers # "nil" THEN headers
        ELSE IF frame # "message" THEN frame
        ELSE ValidateResponseTrailers(r)

\* The response as Recv sees it: trailers come with the end of the body only.
Arrived(r, frames) ==
    IF frames # <<>> /\ Head(frames) # "cut" THEN [r EXCEPT !.trailer = ""] ELSE r

\* StreamResponse.Recv: an end, of the body or within a frame, asks the trailers.
Recv(r, frames) ==
    LET frame == UnmarshalFrame(frames)
        trailers == ValidateResponseTrailers(Arrived(r, frames))
    IN  IF frame \notin {"EOF", "ErrUnexpectedEOF"} THEN frame
        ELSE IF trailers # "nil" THEN trailers ELSE "EOF"

---------------------------------------------------------------------------
(* The bidirectional stream. *)

VARIABLES
    resp,       \* the response the server gives to this request
    req,        \* the request goroutine: "run", "resp" or "err"
    frames,     \* the frames of the body not read yet
    cancelled,  \* the stream's context is cancelled
    writerShut, readerShut, \* the two ends of the pipe are closed
    rpcClosed, closedSend,  \* the two flags
    once,       \* who runs connectedOnce, or "done"
    connectErr, \* what ensureConnected returns
    stream,     \* s.stream is set
    body,       \* the response body is closed
    sendMu, recvMu,
    callPC,     \* per goroutine: its step
    out         \* per goroutine: what its last call returned

reqVars == <<resp, req, frames, cancelled>>
pipeVars == <<writerShut, readerShut>>
flagVars == <<rpcClosed, closedSend>>
onceVars == <<once, connectErr, stream, body>>
muVars == <<sendMu, recvMu>>
grpcVars == <<reqVars, pipeVars, flagVars, onceVars, muVars, callPC, out>>

RpcProcs == Senders \cup Receivers \cup {Closer}

BidiInit ==
    /\ resp \in Responses
    /\ req = "run" /\ frames = resp.frames /\ cancelled = FALSE
    /\ writerShut = FALSE /\ readerShut = FALSE /\ rpcClosed = FALSE /\ closedSend = FALSE
    /\ once = Nobody /\ connectErr = "nil" /\ stream = FALSE /\ body = "none"
    /\ sendMu = Nobody /\ recvMu = Nobody
    /\ callPC = [p \in RpcProcs |-> "idle"] /\ out = [p \in RpcProcs |-> "none"]

CallGoto(p, l) == callPC' = [callPC EXCEPT ![p] = l]
Returns(p, r) == callPC' = [callPC EXCEPT ![p] = "done"] /\ out' = [out EXCEPT ![p] = r]

\* doer.Request returns the response, or an error; then the transport has
\* closed the pipe's reader.
RequestReturns ==
    /\ req = "run"
    /\ \/ ~cancelled /\ req' = "resp" /\ body' = "open" /\ UNCHANGED readerShut
       \/ req' = "err" /\ readerShut' = TRUE /\ UNCHANGED body
    /\ UNCHANGED <<resp, frames, cancelled, writerShut, flagVars, once, connectErr, stream,
                   muVars, callPC, out>>

\* ensureConnected: one caller runs the function, the others wait for it.
EnsureEnter(p) ==
    /\ callPC[p] = "ensure" /\ once = Nobody /\ once' = p
    /\ UNCHANGED <<reqVars, pipeVars, flagVars, connectErr, stream, body, muVars, callPC, out>>

\* The function takes the result; headers that do not pass close the body.
EnsureRuns(p) ==
    /\ once = p /\ req # "run"
    /\ LET check == IF req = "err" THEN "connect failed" ELSE ValidateInitialHeaders(resp)
       IN  /\ connectErr' = check
           /\ stream' = (check = "nil")
           /\ body' = IF req = "resp" /\ check # "nil" THEN "closed" ELSE body
    /\ once' = "done"
    /\ UNCHANGED <<reqVars, pipeVars, flagVars, muVars, callPC, out>>

---------------------------------------------------------------------------
(* Send. *)

\* The two flags are read; the message is marshalled and sendMu taken.
SendCheck(p) ==
    /\ callPC[p] = "idle"
    /\ IF rpcClosed \/ closedSend THEN Returns(p, "closed") ELSE CallGoto(p, "lock") /\ UNCHANGED out
    /\ UNCHANGED <<reqVars, pipeVars, flagVars, onceVars, muVars>>

SendLock(p) ==
    /\ callPC[p] = "lock" /\ sendMu = Nobody
    /\ sendMu' = p /\ CallGoto(p, "write")
    /\ UNCHANGED <<reqVars, pipeVars, flagVars, onceVars, recvMu, out>>

\* The pipe's Write ends when the transport has read the frame, or when either
\* end is closed; then the reason for a failed connection is looked up.
SendWrite(p) ==
    /\ callPC[p] = "write"
    /\ IF writerShut \/ readerShut
         THEN CallGoto(p, "ensure") /\ UNCHANGED <<out, sendMu>>
         ELSE ~cancelled /\ Returns(p, "nil") /\ sendMu' = Nobody
    /\ UNCHANGED <<reqVars, pipeVars, flagVars, onceVars, recvMu>>

SendFails(p) ==
    /\ callPC[p] = "ensure" /\ once = "done"
    /\ Returns(p, IF connectErr # "nil" THEN connectErr ELSE "ErrClosedPipe")
    /\ sendMu' = Nobody
    /\ UNCHANGED <<reqVars, pipeVars, flagVars, onceVars, recvMu>>

---------------------------------------------------------------------------
(* Recv. *)

RecvCheck(p) ==
    /\ callPC[p] = "idle"
    /\ IF rpcClosed THEN Returns(p, "closed") ELSE CallGoto(p, "ensure") /\ UNCHANGED out
    /\ UNCHANGED <<reqVars, pipeVars, flagVars, onceVars, muVars>>

RecvConnected(p) ==
    /\ callPC[p] = "ensure" /\ once = "done"
    /\ IF connectErr # "nil" THEN Returns(p, connectErr) ELSE CallGoto(p, "lock") /\ UNCHANGED out
    /\ UNCHANGED <<reqVars, pipeVars, flagVars, onceVars, muVars>>

RecvLock(p) ==
    /\ callPC[p] = "lock" /\ recvMu = Nobody
    /\ recvMu' = p /\ CallGoto(p, "read")
    /\ UNCHANGED <<reqVars, pipeVars, flagVars, onceVars, sendMu, out>>

\* A read of the body: the next message, the end of the call, or an error once
\* the body is closed or the context cancelled; the stream may also break off.
RecvRead(p) ==
    /\ callPC[p] = "read"
    /\ \/ /\ ~cancelled /\ body = "open"
          /\ LET got == Recv(resp, frames)
             IN  IF got = "message"
                 THEN /\ out' = [out EXCEPT ![p] = "message"] /\ CallGoto(p, "idle")
                      /\ frames' = Tail(frames)
                 ELSE Returns(p, got) /\ UNCHANGED frames
       \/ Returns(p, "read error") /\ UNCHANGED frames
    /\ recvMu' = Nobody
    /\ UNCHANGED <<resp, req, cancelled, pipeVars, flagVars, onceVars, sendMu>>

---------------------------------------------------------------------------
(* CloseSend and Close. *)

CloseSend ==
    /\ callPC[Closer] = "idle" /\ ~closedSend
    /\ closedSend' = TRUE /\ writerShut' = TRUE
    /\ UNCHANGED <<reqVars, readerShut, rpcClosed, onceVars, muVars, callPC, out>>

\* Close sets both flags, closes the pipe, cancels, and closes the body if it
\* sees the stream that ensureConnected may be setting.
CloseStart ==
    /\ callPC[Closer] = "idle" /\ ~rpcClosed
    /\ rpcClosed' = TRUE /\ closedSend' = TRUE /\ writerShut' = TRUE
    /\ CallGoto(Closer, "cancel")
    /\ UNCHANGED <<reqVars, readerShut, onceVars, muVars, out>>

CancelCallMut ==
    /\ callPC[Closer] = "cancel"
    /\ CallGoto(Closer, "body")
    /\ UNCHANGED <<reqVars, pipeVars, flagVars, onceVars, muVars, out>>
CancelCall ==
    /\ callPC[Closer] = "cancel"
    /\ cancelled' = TRUE /\ CallGoto(Closer, "body")
    /\ UNCHANGED <<resp, req, frames, pipeVars, flagVars, onceVars, muVars, out>>

CloseBody ==
    /\ callPC[Closer] = "body"
    /\ body' = IF stream THEN "closed" ELSE body
    /\ Returns(Closer, "nil")
    /\ UNCHANGED <<reqVars, pipeVars, flagVars, once, connectErr, stream, muVars>>

---------------------------------------------------------------------------

\* Steps that need nobody outside: everything but a call's start, the server's
\* answer, the transport's reading of the pipe and the reading of the body.
SendNext(p) ==
    \/ SendLock(p) \/ SendFails(p)
    \/ (writerShut \/ readerShut) /\ SendWrite(p)
RecvNext(p) == RecvConnected(p) \/ RecvLock(p)
OnceNext(p) == EnsureEnter(p) \/ EnsureRuns(p)
CloseNext == CancelCall \/ CloseBody

BidiNext ==
    \/ RequestReturns \/ CloseSend \/ CloseStart \/ CloseNext
    \/ \E p \in Senders : SendCheck(p) \/ SendLock(p) \/ SendWrite(p) \/ SendFails(p)
    \/ \E p \in Receivers : RecvCheck(p) \/ RecvNext(p) \/ RecvRead(p)
    \/ \E p \in Senders \cup Receivers : OnceNext(p)

---------------------------------------------------------------------------
(* Properties. *)

\* What a caller takes for success is what the server reported as success: a
\* unary call returns nil, and a stream ends with io.EOF, only for status 0, the
\* headers' when Recv mistakes a payload cut short for the end of the body.
Effective(r) == IF r.trailer # "" THEN r.trailer ELSE r.head
SuccessIsStatusZero ==
    /\ Invoke(resp) = "nil" => Effective(resp) = "0"
    /\ \A p \in Receivers :
          out[p] = "EOF" => Effective(Arrived(resp, frames)) = "0" /\ resp.http = 200

\* Known not to hold: a call that the server ended with an error status reports
\* that status ("validates trailers (`grpc-status: 0`, `grpc-message`)", client.go:42).
ErrorStatusIsReported ==
    resp.http = 200 /\ resp.ct # "other" /\ Effective(resp) \notin {"", "0"}
        /\ UnmarshalFrame(resp.frames) # "error"
      => Invoke(resp) \in {"status 5", "status 2"}

\* Close lets every caller go, wherever it waits: in the pipe's Write, for the
\* response headers, for the Once, for a lock or in a read of the body.
CloseUnblocks == \A p \in Senders \cup Receivers : rpcClosed ~> callPC[p] \in {"idle", "done"}
=============================================================================
