------------------------------- MODULE Tunnel -------------------------------
(***************************************************************************)
(* Tunnels over SSH: the SOCKS5 listener of ssh/socks5.go with a handler   *)
(* per connection, and the reverse tunnel of ssh/reverse/client.go with    *)
(* its reconnecting loop and a handler per forwarded channel. Both kinds   *)
(* of handler join two connections by two copying goroutines.              *)
(***************************************************************************)
EXTENDS Naturals

CONSTANTS
    Socks,      \* connections accepted by the SOCKS5 listener
    Forwards,   \* channels forwarded by the reverse tunnel's server
    FirstDelay, \* the loop's first back-off (1 s)
    MaxDelay    \* its largest (30 s)

Conns == Socks \cup Forwards

VARIABLES
    ctx,        \* the caller's context is done
    sshClosed,  \* Client.closed
    listener,   \* the SOCKS5 listener is open
    serve,      \* serveSOCKS5Loop's step
    loop,       \* runClientLoop's step
    backoff,    \* its delay
    connPC,         \* per connection: its handler's step
    near, far,  \* per connection: the end accepted and the end dialled
    up, down,   \* per connection: the copying goroutines near-to-far, far-to-near
    reply       \* per SOCKS5 connection: the reply sent

loopVars == <<loop, backoff>>
serveVars == <<listener, serve>>
connVars == <<connPC, near, far, up, down, reply>>
tunnelVars == <<ctx, sshClosed, serveVars, loopVars, connVars>>

TunnelInit ==
    /\ ctx = FALSE /\ sshClosed = FALSE /\ listener = TRUE /\ serve = "accept"
    /\ loop = "check" /\ backoff = FirstDelay
    /\ connPC = [c \in Conns |-> "new"]
    /\ near = [c \in Conns |-> "none"] /\ far = [c \in Conns |-> "none"]
    /\ up = [c \in Conns |-> FALSE] /\ down = [c \in Conns |-> FALSE]
    /\ reply = [c \in Conns |-> "none"]

---------------------------------------------------------------------------
(* The environment. *)

Cancel ==
    /\ ~ctx /\ ctx' = TRUE
    /\ UNCHANGED <<sshClosed, serveVars, loopVars, connVars>>

\* Closing the client takes the connections dialled through it.
CloseClient ==
    /\ ~sshClosed /\ sshClosed' = TRUE
    /\ far' = [c \in Conns |-> IF c \in Socks /\ far[c] # "none" THEN "gone" ELSE far[c]]
    /\ UNCHANGED <<ctx, serveVars, loopVars, connPC, near, up, down, reply>>

CloseListener ==
    /\ listener /\ listener' = FALSE
    /\ UNCHANGED <<ctx, sshClosed, serve, loopVars, connVars>>

\* A peer finishes sending, or goes away altogether.
PeerEnds(c) ==
    /\ \E how \in {"eof", "gone"} :
         \/ near[c] \in {"open", "eof"} /\ near' = [near EXCEPT ![c] = how] /\ UNCHANGED far
         \/ far[c] \in {"open", "eof"} /\ far' = [far EXCEPT ![c] = how] /\ UNCHANGED near
    /\ UNCHANGED <<ctx, sshClosed, serveVars, loopVars, connPC, up, down, reply>>

---------------------------------------------------------------------------
(* SOCKS5. *)

\* Accept: an error ends the loop when the context is done or the client is
\* closed, and is tried again otherwise; the listener is closed on the way out.
Accept(c) ==
    /\ serve = "accept" /\ listener /\ connPC[c] = "new"
    /\ connPC' = [connPC EXCEPT ![c] = "greet"] /\ near' = [near EXCEPT ![c] = "open"]
    /\ UNCHANGED <<ctx, sshClosed, serveVars, loopVars, far, up, down, reply>>

AcceptFails ==
    /\ serve = "accept" /\ ~listener
    /\ serve' = IF ctx \/ sshClosed THEN "exit" ELSE "accept"
    /\ UNCHANGED <<ctx, sshClosed, listener, loopVars, connVars>>

\* The handler's deferred Close calls.
Leave(c, r) ==
    /\ connPC' = [connPC EXCEPT ![c] = "done"] /\ reply' = [reply EXCEPT ![c] = r]
    /\ near' = [near EXCEPT ![c] = "closed"]
    /\ far' = [far EXCEPT ![c] = IF @ = "none" THEN "none" ELSE "closed"]

\* The greeting and the no-authentication answer: without a version 5 greeting
\* the connection is closed without a word.
Greet(c) ==
    /\ connPC[c] = "greet"
    /\ \/ near[c] = "open" /\ connPC' = [connPC EXCEPT ![c] = "request"]
            /\ UNCHANGED <<near, far, reply>>
       \/ Leave(c, "none")
    /\ UNCHANGED <<ctx, sshClosed, serveVars, loopVars, up, down>>

\* The request: anything but CONNECT, or an unknown address type, is refused;
\* an address or port cut short is not answered.
Request(c) ==
    /\ connPC[c] = "request"
    /\ \/ near[c] = "open" /\ connPC' = [connPC EXCEPT ![c] = "dial"]
            /\ UNCHANGED <<near, far, reply>>
       \/ \E r \in {"failure", "none"} : Leave(c, r)
    /\ UNCHANGED <<ctx, sshClosed, serveVars, loopVars, up, down>>

\* DialContext: with the context done either case of its select may win.
DialTarget(c) ==
    /\ connPC[c] = "dial"
    /\ \/ ~sshClosed /\ far' = [far EXCEPT ![c] = "open"]
            /\ connPC' = [connPC EXCEPT ![c] = "reply"] /\ UNCHANGED <<near, reply>>
       \/ Leave(c, "failure")
    /\ UNCHANGED <<ctx, sshClosed, serveVars, loopVars, up, down>>

\* The success reply, and pipeSOCKSConns with its two goroutines.
Reply(c) ==
    /\ connPC[c] = "reply"
    /\ \/ near[c] # "gone" /\ connPC' = [connPC EXCEPT ![c] = "pipe"]
            /\ reply' = [reply EXCEPT ![c] = "success"]
            /\ up' = [up EXCEPT ![c] = TRUE] /\ down' = [down EXCEPT ![c] = TRUE]
            /\ UNCHANGED <<near, far>>
       \/ near[c] = "gone" /\ Leave(c, "none") /\ UNCHANGED <<up, down>>
    /\ UNCHANGED <<ctx, sshClosed, serveVars, loopVars>>

---------------------------------------------------------------------------
(* The reverse tunnel. *)

Capped(a, b) == IF a < b THEN a ELSE b

\* The session ends: its connection is closed, and the forwarded channels go.
SessionEnds ==
    near' = [c \in Conns |->
        IF c \in Forwards /\ near[c] \in {"open", "eof"} THEN "gone" ELSE near[c]]

\* The check at the top of the loop.
LoopCheck ==
    /\ loop = "check"
    /\ loop' = IF ctx THEN "returned" ELSE "dial"
    /\ UNCHANGED <<ctx, sshClosed, serveVars, backoff, connVars>>

\* Dial, handshake and the forwarding request: each may fail, and does so when
\* the context ends the dial.
SessionStart ==
    /\ loop = "dial"
    /\ loop' \in {"serve", "failed"}
    /\ UNCHANGED <<ctx, sshClosed, serveVars, backoff, connVars>>

\* The server opens a channel and a handler is started.
Forward(c) ==
    /\ loop = "serve" /\ connPC[c] = "new"
    /\ connPC' = [connPC EXCEPT ![c] = "local"] /\ near' = [near EXCEPT ![c] = "open"]
    /\ UNCHANGED <<ctx, sshClosed, serveVars, loopVars, far, up, down, reply>>

\* forwardedChans is closed, or the context is done.
SessionStop ==
    /\ loop = "serve"
    /\ \/ ctx /\ loop' = "failed"
       \/ loop' = "ended"
    /\ SessionEnds
    /\ UNCHANGED <<ctx, sshClosed, serveVars, backoff, connPC, far, up, down, reply>>

\* After a session: the context is looked at, an error waits for the back-off,
\* and a session that ended without one starts the next at once.
LoopNext ==
    /\ loop \in {"failed", "ended"}
    /\ \/ ctx /\ loop' = "returned" /\ UNCHANGED backoff
       \/ /\ ~ctx /\ loop = "failed"
          /\ loop' = "check" /\ backoff' = Capped(backoff * 2, MaxDelay)
       \/ ~ctx /\ loop = "ended" /\ loop' = "check" /\ backoff' = FirstDelay
    /\ UNCHANGED <<ctx, sshClosed, serveVars, connVars>>

\* handleForwardedChannel: Accept and the local dial may fail.
DialLocal(c) ==
    /\ connPC[c] = "local"
    /\ \/ near[c] # "gone" /\ far' = [far EXCEPT ![c] = "open"]
            /\ connPC' = [connPC EXCEPT ![c] = "pipe"]
            /\ up' = [up EXCEPT ![c] = TRUE] /\ down' = [down EXCEPT ![c] = TRUE]
            /\ UNCHANGED <<near, reply>>
       \/ Leave(c, "none") /\ UNCHANGED <<up, down>>
    /\ UNCHANGED <<ctx, sshClosed, serveVars, loopVars>>

---------------------------------------------------------------------------
(* Copying. *)

\* A copying goroutine ends when its source does, or when it has something to
\* write and its destination is gone.
CopyEndsMut(c) ==
    /\ connPC[c] = "pipe"
    /\ \/ up[c] /\ near[c] = "gone" /\ up' = [up EXCEPT ![c] = FALSE] /\ UNCHANGED down
       \/ down[c] /\ far[c] = "gone" /\ down' = [down EXCEPT ![c] = FALSE] /\ UNCHANGED up
    /\ UNCHANGED <<ctx, sshClosed, serveVars, loopVars, connPC, near, far, reply>>
CopyEnds(c) ==
    /\ connPC[c] = "pipe"
    /\ \/ /\ up[c] /\ near[c] \in {"eof", "gone"}
          /\ up' = [up EXCEPT ![c] = FALSE] /\ UNCHANGED down
       \/ /\ down[c] /\ far[c] \in {"eof", "gone"}
          /\ down' = [down EXCEPT ![c] = FALSE] /\ UNCHANGED up
    /\ UNCHANGED <<ctx, sshClosed, serveVars, loopVars, connPC, near, far, reply>>

WriteFails(c) ==
    /\ connPC[c] = "pipe"
    /\ \/ /\ up[c] /\ near[c] = "open" /\ far[c] = "gone"
          /\ up' = [up EXCEPT ![c] = FALSE] /\ UNCHANGED down
       \/ /\ down[c] /\ far[c] = "open" /\ near[c] = "gone"
          /\ down' = [down EXCEPT ![c] = FALSE] /\ UNCHANGED up
    /\ UNCHANGED <<ctx, sshClosed, serveVars, loopVars, connPC, near, far, reply>>

\* wg.Wait returns when both have ended; only then are the ends closed.
PipeDoneMut(c) ==
    /\ connPC[c] = "pipe" /\ (~up[c] \/ ~down[c])
    /\ Leave(c, reply[c])
    /\ UNCHANGED <<ctx, sshClosed, serveVars, loopVars, up, down>>
PipeDone(c) ==
    /\ connPC[c] = "pipe" /\ ~up[c] /\ ~down[c]
    /\ Leave(c, reply[c])
    /\ UNCHANGED <<ctx, sshClosed, serveVars, loopVars, up, down>>

---------------------------------------------------------------------------

ServeNext == AcceptFails \/ \E c \in Socks : Accept(c)
ReverseNext == LoopCheck \/ SessionStart \/ LoopNext
HandlerNext(c) ==
    \/ Greet(c) \/ Request(c) \/ DialTarget(c) \/ Reply(c) \/ DialLocal(c)
    \/ CopyEnds(c) \/ PipeDone(c)

PeerNext(c) == PeerEnds(c) \/ HandlerNext(c) \/ WriteFails(c)

SocksSide ==
    \/ Cancel \/ CloseClient \/ CloseListener \/ ServeNext
    \/ \E c \in Socks : PeerNext(c)

ReverseSide ==
    \/ Cancel \/ ReverseNext \/ SessionStop
    \/ \E c \in Forwards : Forward(c) \/ PeerNext(c)

TunnelNext == SocksSide \/ ReverseSide

---------------------------------------------------------------------------
(* Properties. *)

\* A half-closed tunnel still works: while one direction's source is open and
\* its destination is there, its goroutine runs and no end has been closed.
HalfCloseKeepsTheOther ==
    \A c \in Conns : connPC[c] \in {"pipe", "done"} /\ reply[c] # "failure" =>
        /\ (near[c] = "open" /\ far[c] # "gone" /\ connPC[c] = "pipe") => up[c]
        /\ (far[c] = "open" /\ near[c] # "gone" /\ connPC[c] = "pipe") => down[c]
        /\ connPC[c] = "done" => ~up[c] /\ ~down[c]

\* A handler whose two peers have both finished closes its two connections.
PipesEnd ==
    \A c \in Conns :
        (connPC[c] = "pipe" /\ near[c] # "open" /\ far[c] # "open") ~> connPC[c] = "done"

\* A listener that is closed, once the context is done or the client is closed,
\* lets serveSOCKS5Loop go.
ServeEnds == (~listener /\ (ctx \/ sshClosed)) ~> serve = "exit"

\* A cancelled ExposeLocal returns, from its back-off as from a session, when a
\* server that took the connection answers its handshake or drops it: the
\* context does not reach the handshake.
ExposeEnds == ctx ~> loop = "returned"
=============================================================================
