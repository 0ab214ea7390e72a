------------------------------ MODULE SSHClient ------------------------------
(***************************************************************************)
(* The SSH client (ssh/client.go): Dial, the keep-alive loop, Close, the   *)
(* lazily made SFTP client, DialContext with its dialling goroutine,       *)
(* commands run under a context, and Stream with its scanners. The server  *)
(* may stop answering, and the connection may break, at any moment.        *)
(***************************************************************************)
EXTENDS Naturals, FiniteSets

CONSTANTS
    Ops,        \* goroutines that call one operation of the client each
    Kinds,      \* assignments of operations, or "none", to Ops to choose from
    Closers,    \* goroutines that call Close
    KeepAlive,  \* the keep-alive loop, as a caller of Close
    Nobody,     \* nobody holds sftpMu; no SFTP client is cached
    Lines,      \* lines the remote command prints on each pipe
    LineCap     \* capacity of a line channel (100)

ASSUME ClientAssumption == Nobody \notin Ops /\ Lines \in Nat

Pipes == {"out", "err"}

VARIABLES
    kind,       \* the operation of each of Ops
    dial,       \* Dial's step
    tcp,        \* the transport connection
    closed,     \* Client.closed
    stop,       \* the keep-alive context is cancelled
    hung,       \* the server has stopped answering
    ka,         \* the keep-alive loop's step
    mu, sftp,   \* sftpMu's holder and the cached client, named by its maker
    sftpOpen,   \* the SFTP clients made and not closed
    closer,     \* per caller of Close: its step
    pc, res,    \* per operation: its step, and what it returned
    help,       \* per operation: the goroutine it started
    chan,       \* per operation: its SSH channel
    expired,    \* per operation: its context is done
    scan, src, ch, \* per pipe of a Stream: scanner, lines to read, lines queued
    report      \* per Stream: what doneCh carried

dialVars == <<kind, dial>>
netVars == <<tcp, hung>>
closeVars == <<closed, stop, closer, ka>>
sftpVars == <<mu, sftp, sftpOpen>>
opVars == <<pc, res, help, chan, expired>>
streamVars == <<scan, src, ch, report>>
clientVars == <<dialVars, netVars, closeVars, sftpVars, opVars, streamVars>>

Client == dial = "done"
Up == tcp = "open"
CloseCallers == Closers \cup {KeepAlive}

ClientInit ==
    /\ kind \in Kinds
    /\ dial = "start" /\ tcp = "none" /\ hung = FALSE
    /\ closed = FALSE /\ stop = FALSE /\ ka = "off"
    /\ closer = [k \in CloseCallers |-> "idle"]
    /\ mu = Nobody /\ sftp = Nobody /\ sftpOpen = {}
    /\ pc = [o \in Ops |-> "idle"] /\ res = [o \in Ops |-> "none"]
    /\ help = [o \in Ops |-> "off"] /\ chan = [o \in Ops |-> "none"]
    /\ expired = [o \in Ops |-> FALSE]
    /\ scan = [o \in Ops |-> [p \in Pipes |-> "off"]]
    /\ src = [o \in Ops |-> [p \in Pipes |-> Lines]]
    /\ ch = [o \in Ops |-> [p \in Pipes |-> 0]]
    /\ report = [o \in Ops |-> "none"]

---------------------------------------------------------------------------
(* Dial. *)

\* New's options and the known hosts may fail; a jump host and a proxy exclude
\* each other.
DialChecks ==
    /\ dial = "start"
    /\ \E jump, proxy, fails \in BOOLEAN :
         dial' = IF (jump /\ proxy) \/ fails THEN "failed" ELSE "transport"
    /\ UNCHANGED <<kind, netVars, closeVars, sftpVars, opVars, streamVars>>

\* The transport is dialled through the jump host, the dialer, the proxy or
\* directly: all four return a connection or an error.
DialTransport ==
    /\ dial = "transport"
    /\ \/ dial' = "handshake" /\ tcp' = "open"
       \/ dial' = "failed" /\ UNCHANGED tcp
    /\ UNCHANGED <<kind, hung, closeVars, sftpVars, opVars, streamVars>>

\* A failed handshake closes the transport; a good one starts the keep-alive.
Handshake ==
    /\ dial = "handshake"
    /\ \/ dial' = "failed" /\ tcp' = "closed" /\ UNCHANGED ka
       \/ dial' = "done" /\ ka' = "wait" /\ Up /\ UNCHANGED tcp
    /\ UNCHANGED <<kind, hung, closed, stop, closer, sftpVars, opVars, streamVars>>

Break ==
    /\ Client /\ Up /\ tcp' = "closed"
    /\ UNCHANGED <<dialVars, hung, closeVars, sftpVars, opVars, streamVars>>

Hang ==
    /\ Client /\ ~hung /\ hung' = TRUE
    /\ UNCHANGED <<dialVars, tcp, closeVars, sftpVars, opVars, streamVars>>

---------------------------------------------------------------------------
(* Close and the keep-alive loop. *)

\* The compare-and-swap and the cancel of the keep-alive context.
CloseStart(k) ==
    /\ closer[k] = "idle"
    /\ k \in Closers => Client
    /\ k = KeepAlive => ka = "close"
    /\ IF closed
         THEN closer' = [closer EXCEPT ![k] = "done"] /\ UNCHANGED <<closed, stop>>
         ELSE /\ closed' = TRUE /\ stop' = TRUE
              /\ closer' = [closer EXCEPT ![k] = "sftp"]
    /\ UNCHANGED <<dialVars, netVars, ka, sftpVars, opVars, streamVars>>

\* Under sftpMu the cached client is closed and forgotten.
CloseSftpMut(k) ==
    /\ closer[k] = "sftp" /\ mu = Nobody
    /\ sftpOpen' = sftpOpen \ {sftp} /\ sftp' = Nobody
    /\ closer' = [closer EXCEPT ![k] = IF sftp = Nobody THEN "done" ELSE "conn"]
    /\ UNCHANGED <<dialVars, netVars, closed, stop, ka, mu, opVars, streamVars>>
CloseSftp(k) ==
    /\ closer[k] = "sftp" /\ mu = Nobody
    /\ sftpOpen' = sftpOpen \ {sftp} /\ sftp' = Nobody
    /\ closer' = [closer EXCEPT ![k] = "conn"]
    /\ UNCHANGED <<dialVars, netVars, closed, stop, ka, mu, opVars, streamVars>>

\* Closing the connection ends every SFTP client over it.
CloseConn(k) ==
    /\ closer[k] = "conn"
    /\ tcp' = "closed"
    /\ closer' = [closer EXCEPT ![k] = "done"]
    /\ UNCHANGED <<dialVars, hung, closed, stop, ka, sftpVars, opVars, streamVars>>

KeepAliveTick ==
    /\ ka = "wait"
    /\ ka' = IF closed THEN "exit" ELSE "ask"
    /\ UNCHANGED <<dialVars, netVars, closed, stop, closer, sftpVars, opVars, streamVars>>

KeepAliveStops ==
    /\ \/ ka = "wait" /\ stop
       \/ ka = "close" /\ closer[KeepAlive] = "done"
    /\ ka' = "exit"
    /\ UNCHANGED <<dialVars, netVars, closed, stop, closer, sftpVars, opVars, streamVars>>

\* SendRequest waits for the server's answer, without a limit of its own, and
\* fails once the connection is gone.
KeepAliveAnswer ==
    /\ ka = "ask"
    /\ \/ Up /\ ~hung /\ ka' = "wait"
       \/ ~Up /\ ka' = "close"
    /\ UNCHANGED <<dialVars, netVars, closed, stop, closer, sftpVars, opVars, streamVars>>

---------------------------------------------------------------------------
(* The operations. *)

Finish(o, r) == pc' = [pc EXCEPT ![o] = "done"] /\ res' = [res EXCEPT ![o] = r]

\* The answers a request to the server may get: none while it hangs.
Answers == IF ~Up THEN {FALSE} ELSE IF hung THEN {} ELSE BOOLEAN

\* The check of closed that opens every operation but Stream.
Enter(o) ==
    /\ pc[o] = "idle" /\ Client /\ kind[o] # "none"
    /\ IF closed /\ kind[o] # "stream"
         THEN Finish(o, "ErrSSHClosed") /\ UNCHANGED help
         ELSE /\ pc' = [pc EXCEPT ![o] = CASE kind[o] = "sftp" -> "lock"
                                            [] kind[o] = "dial" -> "select"
                                            [] OTHER            -> "session"]
              /\ help' = [help EXCEPT ![o] = IF kind[o] = "dial" THEN "busy" ELSE "off"]
              /\ UNCHANGED res
    /\ UNCHANGED <<dialVars, netVars, closeVars, sftpVars, chan, expired, streamVars>>

\* GetSftp takes sftpMu and returns the cached client, or makes one.
GetSftpLockMut(o) ==
    /\ pc[o] = "lock" /\ mu = Nobody
    /\ mu' = o /\ pc' = [pc EXCEPT ![o] = "make"]
    /\ UNCHANGED <<dialVars, netVars, closeVars, sftp, sftpOpen, res, help, chan,
                   expired, streamVars>>
GetSftpLock(o) ==
    /\ pc[o] = "lock" /\ mu = Nobody
    /\ IF sftp # Nobody
         THEN Finish(o, "ok") /\ UNCHANGED mu
         ELSE mu' = o /\ pc' = [pc EXCEPT ![o] = "make"] /\ UNCHANGED res
    /\ UNCHANGED <<dialVars, netVars, closeVars, sftp, sftpOpen, help, chan,
                   expired, streamVars>>

GetSftpMake(o) ==
    /\ pc[o] = "make"
    /\ \E ok \in Answers :
         /\ Finish(o, IF ok THEN "ok" ELSE "error")
         /\ sftp' = IF ok THEN o ELSE sftp
         /\ sftpOpen' = IF ok THEN sftpOpen \cup {o} ELSE sftpOpen
    /\ mu' = Nobody
    /\ UNCHANGED <<dialVars, netVars, closeVars, help, chan, expired, streamVars>>

\* The caller's context ends, by cancellation or by Stream's own timeout.
Expire(o) ==
    /\ pc[o] \in {"select", "workers"} /\ ~expired[o]
    /\ expired' = [expired EXCEPT ![o] = TRUE]
    /\ UNCHANGED <<dialVars, netVars, closeVars, sftpVars, pc, res, help, chan, streamVars>>

\* DialContext's goroutine dials and leaves its result in the channel, whether
\* or not somebody still waits for it.
DialHelper(o) ==
    /\ kind[o] = "dial" /\ help[o] = "busy"
    /\ \E ok \in Answers :
         /\ help' = [help EXCEPT ![o] = IF ok THEN "ok" ELSE "error"]
         /\ chan' = [chan EXCEPT ![o] = IF ok THEN "open" ELSE "none"]
    /\ UNCHANGED <<dialVars, netVars, closeVars, sftpVars, pc, res, expired, streamVars>>

\* The select of DialContext and of runInContext; the latter sends SIGINT when
\* the context wins, and either may win when both are ready.
Select(o) ==
    /\ pc[o] = "select"
    /\ \/ expired[o] /\ Finish(o, "ctxErr")
       \/ help[o] \in {"ok", "error"} /\ Finish(o, help[o])
    /\ UNCHANGED <<dialVars, netVars, closeVars, sftpVars, help, chan, expired, streamVars>>

\* Command's NewSession and RequestPty: a refused terminal closes the session.
\* Stream's NewSession, pipes and Start close it likewise when one fails.
OpenSession(o) ==
    /\ pc[o] = "session"
    /\ \E ok \in Answers :
         IF ok
         THEN /\ chan' = [chan EXCEPT ![o] = "open"]
              /\ pc' = [pc EXCEPT ![o] = IF kind[o] = "stream" THEN "workers" ELSE "init"]
              /\ scan' = [scan EXCEPT ![o] = [p \in Pipes |->
                            IF kind[o] = "stream" THEN "read" ELSE "off"]]
              /\ help' = [help EXCEPT ![o] = IF kind[o] = "stream" THEN "wg" ELSE "off"]
              /\ UNCHANGED res
         ELSE /\ Finish(o, "error")
              /\ \E c \in {"none", "closed"} : chan' = [chan EXCEPT ![o] = c]
              /\ UNCHANGED <<help, scan>>
    /\ UNCHANGED <<dialVars, netVars, closeVars, sftpVars, expired, src, ch, report>>

\* Cmd.init sets the environment; runInContext then starts the goroutine.
InitCmd(o) ==
    /\ pc[o] = "init"
    /\ \E ok \in Answers :
         IF ok THEN /\ pc' = [pc EXCEPT ![o] = "select"]
                    /\ help' = [help EXCEPT ![o] = "busy"] /\ UNCHANGED res
               ELSE Finish(o, "error") /\ UNCHANGED help
    /\ UNCHANGED <<dialVars, netVars, closeVars, sftpVars, chan, expired, streamVars>>

\* The command's goroutine ends with the remote command.
CmdHelper(o) ==
    /\ kind[o] = "command" /\ help[o] = "busy"
    /\ \E ok \in Answers : help' = [help EXCEPT ![o] = IF ok THEN "ok" ELSE "error"]
    /\ chan' = [chan EXCEPT ![o] = "closed"]
    /\ UNCHANGED <<dialVars, netVars, closeVars, sftpVars, pc, res, expired, streamVars>>

---------------------------------------------------------------------------
(* Stream. *)

\* scanLines reads a line, or the end of the pipe: the command has printed
\* everything, or the channel is gone.
ScanRead(o, p) ==
    /\ scan[o][p] = "read"
    /\ \/ /\ src[o][p] > 0 /\ Up /\ ~hung /\ chan[o] = "open"
          /\ src' = [src EXCEPT ![o][p] = @ - 1]
          /\ scan' = [scan EXCEPT ![o][p] = "send"]
       \/ /\ src[o][p] = 0 \/ ~Up \/ (chan[o] = "closed" /\ ~hung)
          /\ scan' = [scan EXCEPT ![o][p] = "done"] /\ UNCHANGED src
    /\ UNCHANGED <<dialVars, netVars, closeVars, sftpVars, opVars, ch, report>>

\* The line is queued, or dropped when the context is done.
ScanSend(o, p) ==
    /\ scan[o][p] = "send"
    /\ \/ /\ ch[o][p] < LineCap
          /\ ch' = [ch EXCEPT ![o][p] = @ + 1]
          /\ scan' = [scan EXCEPT ![o][p] = "read"]
       \/ /\ expired[o] \/ pc[o] = "done"
          /\ scan' = [scan EXCEPT ![o][p] = "lost"] /\ UNCHANGED ch
    /\ UNCHANGED <<dialVars, netVars, closeVars, sftpVars, opVars, src, report>>

\* The caller takes a line.
TakeLine(o, p) ==
    /\ ch[o][p] > 0 /\ ch' = [ch EXCEPT ![o][p] = @ - 1]
    /\ UNCHANGED <<dialVars, netVars, closeVars, sftpVars, opVars, scan, src, report>>

\* The goroutine that waits for both scanners and then for the session.
WaitScannersMut(o) ==
    /\ help[o] = "wg" /\ \E p \in Pipes : scan[o][p] \in {"done", "lost"}
    /\ help' = [help EXCEPT ![o] = "wait"]
    /\ UNCHANGED <<dialVars, netVars, closeVars, sftpVars, pc, res, chan, expired, streamVars>>
WaitScanners(o) ==
    /\ help[o] = "wg" /\ \A p \in Pipes : scan[o][p] \in {"done", "lost"}
    /\ help' = [help EXCEPT ![o] = "wait"]
    /\ UNCHANGED <<dialVars, netVars, closeVars, sftpVars, pc, res, chan, expired, streamVars>>

WaitSession(o) ==
    /\ help[o] = "wait"
    /\ \E ok \in Answers : help' = [help EXCEPT ![o] = IF ok THEN "ok" ELSE "error"]
    /\ UNCHANGED <<dialVars, netVars, closeVars, sftpVars, pc, res, chan, expired, streamVars>>

\* runStreamWorkers' select and its deferred calls: the context's cancel, the
\* session's Close, and the two channels.
StreamReturnsMut(o) ==
    /\ kind[o] = "stream" /\ pc[o] = "workers"
    /\ help[o] \in {"ok", "error"}
    /\ report' = [report EXCEPT ![o] = "true"] /\ Finish(o, help[o])
    /\ chan' = [chan EXCEPT ![o] = "closed"]
    /\ UNCHANGED <<dialVars, netVars, closeVars, sftpVars, help, expired, scan, src, ch>>
StreamReturns(o) ==
    /\ kind[o] = "stream" /\ pc[o] = "workers"
    /\ \/ /\ help[o] \in {"ok", "error"}
          /\ report' = [report EXCEPT ![o] = "true"] /\ Finish(o, help[o])
       \/ /\ expired[o]
          /\ report' = [report EXCEPT ![o] = "false"] /\ Finish(o, "ctxErr")
    /\ chan' = [chan EXCEPT ![o] = "closed"]
    /\ UNCHANGED <<dialVars, netVars, closeVars, sftpVars, help, expired, scan, src, ch>>

---------------------------------------------------------------------------

DialNext == DialChecks \/ DialTransport \/ Handshake
KeepAliveNext ==
    \/ KeepAliveTick \/ KeepAliveStops \/ KeepAliveAnswer \/ CloseStart(KeepAlive)
    \/ CloseSftp(KeepAlive) \/ CloseConn(KeepAlive)
CloseNext(k) == CloseSftp(k) \/ CloseConn(k)
CallNext(o) ==
    \/ GetSftpLock(o) \/ GetSftpMake(o) \/ Select(o) \/ OpenSession(o) \/ InitCmd(o)
    \/ StreamReturns(o)
HelperNext(o) == DialHelper(o) \/ CmdHelper(o) \/ WaitScanners(o) \/ WaitSession(o)
ScannerNext(o, p) == ScanRead(o, p) \/ ScanSend(o, p)

ClientNext ==
    \/ DialNext \/ Break \/ Hang \/ KeepAliveNext
    \/ \E k \in Closers : CloseStart(k) \/ CloseNext(k)
    \/ \E o \in Ops :
         \/ Enter(o) \/ Expire(o) \/ CallNext(o) \/ HelperNext(o)
         \/ \E p \in Pipes : ScannerNext(o, p) \/ TakeLine(o, p)

---------------------------------------------------------------------------
(* Properties. *)

\* GetSftp hands every caller the one cached client: two clients are never
\* open at once, also when Close empties the cache under a caller's feet.
OneSftp == sftpOpen \subseteq {sftp}

\* A Stream that reports true has queued every line of both pipes, unless the
\* connection broke or the context ended: doneCh is written after the scanners.
StreamComplete ==
    \A o \in Ops :
        report[o] = "true" /\ Up /\ ~expired[o] =>
            \A p \in Pipes : src[o][p] = 0 /\ scan[o][p] = "done"

\* The calls of a client share what they may share, and report what is so.
SessionsSound == OneSftp /\ StreamComplete

\* A closed client ends: the connection is closed and the keep-alive loop
\* leaves, as long as the server answers.
ShutdownCompletes == closed ~> ((~Up /\ ka = "exit") \/ hung)

\* Close ends the connection whatever the server does ("Close terminates the
\* keep-alive worker, active SFTP client, and underlying SSH connection").
CloseTerminates == closed ~> ~Up

\* A Stream that started reports: the timeout ends it when the server hangs or
\* nobody reads its lines.
StreamEnds == \A o \in Ops : pc[o] = "workers" ~> report[o] # "none"
=============================================================================
