----------------------------- MODULE Connector -----------------------------
(***************************************************************************)
(* The reconnecting transport of src/socket/connector/connector.go.        *)
(*                                                                         *)
(* Callers are goroutines of the application that use the public methods;  *)
(* Loops are the goroutines of reconnectLoop; every connection that was    *)
(* installed has a goroutine of its own running readLoop.  Each action is  *)
(* one region the code executes atomically with respect to the shared      *)
(* fields: a critical section of c.mu, one operation on an atomic, one     *)
(* call of the dialer or of a connection.                                  *)
(*                                                                         *)
(* Loops and Conns are pools of identities: a reconnectLoop that returned, *)
(* and a connection that is closed and that nobody refers to, give their   *)
(* identity back.  The pools bound how many exist at the same time, not    *)
(* how many exist in a behaviour.                                          *)
(*                                                                         *)
(* An operator XMut is a wrong variant of X; nothing refers to it.  The    *)
(* mutation tests put it in the place of X and expect a property to fail.  *)
(***************************************************************************)
EXTENDS Naturals

CONSTANTS
    Callers,      \* goroutines of the application
    Methods,      \* the methods the application calls
    Loops,        \* identities of reconnectLoop goroutines
    Conns,        \* identities of connections
    Endpoints,    \* dial targets
    Pools,        \* what UpdateEndpoints may be called with
    Ciphers,      \* what SetCipher may be called with
    InitCipher,   \* cfg.Cipher
    MaxAttempts,  \* ReconnectPolicy.MaxAttempts, 0 for no limit
    Capacity,     \* capacity of the incoming channel (1024 in the code)
    ZeroEndpoint, \* zero value of the endpoint type, c.lastEndpoint at first
    NoConn, NoLoop

AllMethods == {"Connect", "Disconnect", "Close", "TriggerReconnect", "SetCipher",
               "UpdateEndpoints", "WaitForConnection"}

ASSUME ConnectorAssumption ==
    /\ Callers \cap Loops = {}
    /\ Methods \subseteq AllMethods
    /\ NoConn \notin Conns
    /\ NoLoop \notin Loops
    /\ ZeroEndpoint \in Endpoints
    /\ Pools \subseteq SUBSET Endpoints
    /\ InitCipher \in Ciphers
    /\ MaxAttempts \in Nat
    /\ Capacity \in Nat \ {0}

VARIABLES
    closed,           \* c.closed
    done,             \* c.ctx is cancelled
    conn,             \* c.conn
    cipher,           \* c.cipher
    isConnecting,     \* c.isConnecting
    reconnectCancel,  \* the loop whose context c.reconnectCancel cancels
    lastEndpoint,     \* c.lastEndpoint
    endpoints,        \* c.endpoints
    incoming,         \* number of frames in c.incoming
    cancelled,        \* loops whose own context has been cancelled
    open,             \* connections dialled and not yet closed by us
    connCipher,       \* the cipher each connection encrypts with
    pc,               \* where each caller and each loop is
    held,             \* the connection a goroutine holds in a local variable
    target,           \* the endpoint argument of a running Connect
    ciph,             \* the cipher a goroutine holds in a local variable
    attempts,         \* attempts of each loop
    rl                \* where the readLoop of each connection is

flags   == <<closed, done>>
data    == <<cipher, lastEndpoint, endpoints, incoming>>
loops   == <<reconnectCancel, cancelled, attempts>>
conns   == <<conn, open, rl>>
locals  == <<held, target>>
ciphers == <<ciph, connCipher>>
vars    == <<flags, data, loops, conns, locals, ciphers, isConnecting, pc>>

Procs == Callers \cup Loops

ConnectLabels == {"connect", "cas", "read", "dial", "install", "release"}
CallerLabels  == {"idle", "supersede", "unregister", "cancel", "take", "shut",
                  "apply", "wait", "recheck"} \cup ConnectLabels
LoopLabels    == {"free", "top", "pick", "sleep", "exit"} \cup ConnectLabels
ReadLabels    == {"none", "check", "recv", "push", "cleanup", "close", "trigger"}

\* c.IsConnected()
IsConnected == conn # NoConn /\ ~closed

\* ctx.Done() of a loop's context, a child of c.ctx
LoopDone(l) == done \/ l \in cancelled

Goto(p, label) == pc' = [pc EXCEPT ![p] = label]

-----------------------------------------------------------------------------
(* cancelReconnect and triggerReconnect, both critical sections of c.mu.   *)

CancelReconnect ==
    /\ cancelled' = cancelled \cup ({reconnectCancel} \ {NoLoop})
    /\ reconnectCancel' = NoLoop

\* The condition of triggerReconnect's early return.
NoLoopNeededMut == closed
NoLoopNeeded == reconnectCancel # NoLoop \/ closed

\* The part of triggerReconnect past the early return: register and spawn l.
StartLoop(l) ==
    /\ ~NoLoopNeeded
    /\ pc[l] = "free"
    /\ reconnectCancel' = l
    /\ attempts' = [attempts EXCEPT ![l] = 0]
    /\ UNCHANGED cancelled

\* The early return of triggerReconnect.
NoStart ==
    /\ NoLoopNeeded
    /\ UNCHANGED loops

-----------------------------------------------------------------------------
(* Connect, run by a caller or, with reconnectKey in its context, a loop.  *)

CallConnect(p, e) ==
    /\ pc[p] = "idle"
    /\ Goto(p, "connect")
    /\ target' = [target EXCEPT ![p] = e]
    /\ UNCHANGED <<flags, data, loops, conns, ciphers, held, isConnecting>>

\* attempts++ of a loop; without a limit the count is never read.
CountedMut(p) == attempts
Counted(p) == IF p \in Loops /\ MaxAttempts > 0
              THEN [attempts EXCEPT ![p] = @ + 1]
              ELSE attempts

\* Connect returns an error: a caller is done, a loop counts and backs off.
ReturnErr(p) ==
    /\ Goto(p, IF p \in Loops THEN "sleep" ELSE "idle")
    /\ attempts' = Counted(p)

ConnectEntry(p) ==
    /\ pc[p] = "connect"
    /\ \/ /\ closed
          /\ ReturnErr(p)
       \/ /\ ~closed
          /\ Goto(p, IF p \in Loops THEN "cas" ELSE "supersede")
          /\ UNCHANGED attempts
    /\ UNCHANGED <<flags, data, conns, locals, ciphers, reconnectCancel,
                   cancelled, isConnecting>>

\* An explicit Connect first cancels the background reconnection.
Supersede(p) ==
    /\ pc[p] = "supersede"
    /\ CancelReconnect
    /\ Goto(p, "cas")
    /\ UNCHANGED <<flags, data, conns, locals, ciphers, attempts, isConnecting>>

\* The compare-and-swap of isConnecting fails.
DialBusyMut == FALSE
DialBusy == isConnecting

ClaimDial(p) ==
    /\ pc[p] = "cas"
    /\ \/ /\ DialBusy
          /\ ReturnErr(p)
          /\ UNCHANGED isConnecting
       \/ /\ ~DialBusy
          /\ isConnecting' = TRUE
          /\ Goto(p, "read")
          /\ UNCHANGED attempts
    /\ UNCHANGED <<flags, data, conns, locals, ciphers, reconnectCancel, cancelled>>

ReadConfig(p) ==
    /\ pc[p] = "read"
    /\ ciph' = [ciph EXCEPT ![p] = cipher]
    /\ Goto(p, "dial")
    /\ UNCHANGED <<flags, data, loops, conns, locals, connCipher, isConnecting>>

\* The dial fails, or its context ends, or no dialer is configured; the
\* deferred Store(false) runs on the way out.
DialFail(p) ==
    /\ pc[p] = "dial"
    /\ isConnecting' = FALSE
    /\ ReturnErr(p)
    /\ UNCHANGED <<flags, data, conns, locals, ciphers, reconnectCancel, cancelled>>

\* The identity of c can be reused: it is closed and nobody refers to it.
Fresh(c) == /\ c \notin open /\ c # conn /\ rl[c] = "none"
            /\ \A p \in Procs : held[p] # c

DialOk(p, c) ==
    /\ pc[p] = "dial"
    /\ Fresh(c)
    /\ open' = open \cup {c}
    /\ connCipher' = [connCipher EXCEPT ![c] = ciph[p]]
    /\ held' = [held EXCEPT ![p] = c]
    /\ Goto(p, "install")
    /\ UNCHANGED <<flags, data, loops, conn, rl, target, ciph, isConnecting>>

\* The connection that Connect closes before it stores its own.
ReplacedMut == {}
Replaced == {conn}

\* The critical section that closes the old connection and stores the new
\* one, with the spawn of its readLoop (which may start at any later time).
\* The onReconnect callback belongs to the application.
Install(p) ==
    /\ pc[p] = "install"
    /\ open' = open \ Replaced
    /\ conn' = held[p]
    /\ lastEndpoint' = target[p]
    /\ rl' = [rl EXCEPT ![held[p]] = "check"]
    /\ held' = [held EXCEPT ![p] = NoConn]
    /\ Goto(p, "release")
    /\ UNCHANGED <<flags, loops, ciphers, cipher, endpoints, incoming, target,
                   isConnecting>>

\* The deferred isConnecting.Store(false); Connect returns nil.
Release(p) ==
    /\ pc[p] = "release"
    /\ isConnecting' = FALSE
    /\ Goto(p, IF p \in Loops THEN "exit" ELSE "idle")
    /\ UNCHANGED <<flags, data, loops, conns, locals, ciphers>>

Connect(p) ==
    \/ ConnectEntry(p) \/ Supersede(p) \/ ClaimDial(p) \/ ReadConfig(p)
    \/ DialFail(p) \/ (\E c \in Conns : DialOk(p, c)) \/ Install(p) \/ Release(p)

-----------------------------------------------------------------------------
(* readLoop, one goroutine per installed connection.                       *)

\* c.ctx.Done() at the head of the loop.
ShutdownMut == FALSE
Shutdown == done

ReadCheck(c) ==
    /\ rl[c] = "check"
    /\ rl' = [rl EXCEPT ![c] = IF Shutdown THEN "cleanup" ELSE "recv"]
    /\ UNCHANGED <<flags, data, loops, locals, ciphers, conn, open,
                   isConnecting, pc>>

\* Receive delivers a frame; only a connection we have not closed can.
ReadFrame(c) ==
    /\ rl[c] = "recv"
    /\ c \in open
    /\ rl' = [rl EXCEPT ![c] = "push"]
    /\ UNCHANGED <<flags, data, loops, locals, ciphers, conn, open,
                   isConnecting, pc>>

\* Receive fails: the transport broke, or the connection was closed by us.
ReadError(c) ==
    /\ rl[c] = "recv"
    /\ rl' = [rl EXCEPT ![c] = "cleanup"]
    /\ UNCHANGED <<flags, data, loops, locals, ciphers, conn, open,
                   isConnecting, pc>>

\* c.incoming <- fb, or the context ends first and fb is released.
ReadPush(c) ==
    /\ rl[c] = "push"
    /\ \/ /\ incoming < Capacity
          /\ incoming' = incoming + 1
          /\ rl' = [rl EXCEPT ![c] = "check"]
       \/ /\ done
          /\ rl' = [rl EXCEPT ![c] = "cleanup"]
          /\ UNCHANGED incoming
    /\ UNCHANGED <<flags, loops, locals, ciphers, cipher, lastEndpoint,
                   endpoints, conn, open, isConnecting, pc>>

\* isSame: the connection of this readLoop is still the current one.
IsSameAnyMut(c) == TRUE
IsSameNeverMut(c) == FALSE
IsSame(c) == conn = c

\* The critical section of the deferred function: forget c if it is current.
ReadCleanup(c) ==
    /\ rl[c] = "cleanup"
    /\ \/ /\ IsSame(c)
          /\ conn' = NoConn
          /\ rl' = [rl EXCEPT ![c] = "close"]
       \/ /\ ~IsSame(c)
          /\ rl' = [rl EXCEPT ![c] = "trigger"]
          /\ UNCHANGED conn
    /\ UNCHANGED <<flags, data, loops, locals, ciphers, open, isConnecting, pc>>

ReadClose(c) ==
    /\ rl[c] = "close"
    /\ open' = open \ {c}
    /\ rl' = [rl EXCEPT ![c] = "trigger"]
    /\ UNCHANGED <<flags, data, loops, locals, ciphers, conn, isConnecting, pc>>

\* The closed check of the deferred function and its triggerReconnect.
ReadTrigger(c) ==
    /\ rl[c] = "trigger"
    /\ rl' = [rl EXCEPT ![c] = "none"]
    /\ \/ \E l \in Loops : StartLoop(l) /\ Goto(l, "top")
       \/ NoStart /\ UNCHANGED pc
    /\ UNCHANGED <<flags, data, locals, ciphers, conn, open, isConnecting>>

ReadLoop(c) ==
    \/ ReadCheck(c) \/ ReadFrame(c) \/ ReadError(c) \/ ReadPush(c)
    \/ ReadCleanup(c) \/ ReadClose(c) \/ ReadTrigger(c)

-----------------------------------------------------------------------------
(* reconnectLoop.                                                          *)

\* policy.MaxAttempts > 0 && attempts >= policy.MaxAttempts
ExhaustedMut(l) == MaxAttempts > 0 /\ attempts[l] > MaxAttempts
Exhausted(l) == MaxAttempts > 0 /\ attempts[l] >= MaxAttempts

\* The context check and the MaxAttempts check at the head of the loop.
LoopTop(l) ==
    /\ pc[l] = "top"
    /\ Goto(l, IF LoopDone(l) \/ Exhausted(l) THEN "exit" ELSE "pick")
    /\ UNCHANGED <<flags, data, loops, conns, locals, ciphers, isConnecting>>

\* The selector picks from the endpoint pool; with an empty pool the loop
\* falls back to the endpoint connected last.
LoopPick(l) ==
    /\ pc[l] = "pick"
    /\ \E e \in IF endpoints = {} THEN {lastEndpoint} ELSE endpoints :
           target' = [target EXCEPT ![l] = e]
    /\ Goto(l, "connect")
    /\ UNCHANGED <<flags, data, loops, conns, ciphers, held, isConnecting>>

\* time.After(sleepDur) fires, or the loop's context ends.
LoopWake(l) ==
    /\ pc[l] = "sleep"
    /\ \/ Goto(l, "top")
       \/ LoopDone(l) /\ Goto(l, "exit")
    /\ UNCHANGED <<flags, data, loops, conns, locals, ciphers, isConnecting>>

\* The deferred cancelReconnect, which cancels the loop registered now,
\* whichever it is; then the goroutine ends and its identity is free.
LoopExit(l) ==
    /\ pc[l] = "exit"
    /\ cancelled' = (cancelled \cup {reconnectCancel}) \ {NoLoop, l}
    /\ reconnectCancel' = NoLoop
    /\ Goto(l, "free")
    /\ UNCHANGED <<flags, data, conns, locals, ciphers, attempts, isConnecting>>

ReconnectLoop(l) == LoopTop(l) \/ LoopPick(l) \/ LoopWake(l) \/ LoopExit(l)

-----------------------------------------------------------------------------
(* The other public methods.                                               *)

\* Disconnect starts with cancelReconnect and goes on with Take and Shut.
Disconnect(p) ==
    /\ pc[p] = "idle"
    /\ CancelReconnect
    /\ Goto(p, "take")
    /\ UNCHANGED <<flags, data, conns, locals, ciphers, attempts, isConnecting>>

\* closed.Swap(true); a second Close returns at once.
Close(p) ==
    /\ pc[p] = "idle"
    /\ ~closed
    /\ closed' = TRUE
    /\ Goto(p, "unregister")
    /\ UNCHANGED <<data, loops, conns, locals, ciphers, done, isConnecting>>

CloseUnregister(p) ==
    /\ pc[p] = "unregister"
    /\ CancelReconnect
    /\ Goto(p, "cancel")
    /\ UNCHANGED <<flags, data, conns, locals, ciphers, attempts, isConnecting>>

\* c.cancel()
CloseCancel(p) ==
    /\ pc[p] = "cancel"
    /\ done' = TRUE
    /\ Goto(p, "take")
    /\ UNCHANGED <<data, loops, conns, locals, ciphers, closed, isConnecting>>

\* The critical section of Disconnect and of Close that takes c.conn.
Take(p) ==
    /\ pc[p] = "take"
    /\ held' = [held EXCEPT ![p] = conn]
    /\ conn' = NoConn
    /\ Goto(p, IF conn = NoConn THEN "idle" ELSE "shut")
    /\ UNCHANGED <<flags, data, loops, ciphers, open, rl, target, isConnecting>>

\* conn.Close() on the connection taken
Shut(p) ==
    /\ pc[p] = "shut"
    /\ open' = open \ {held[p]}
    /\ held' = [held EXCEPT ![p] = NoConn]
    /\ Goto(p, "idle")
    /\ UNCHANGED <<flags, data, loops, ciphers, conn, rl, target, isConnecting>>

TriggerReconnect(p) ==
    /\ pc[p] = "idle"
    /\ \E l \in Loops : StartLoop(l) /\ Goto(l, "top")
    /\ UNCHANGED <<flags, data, conns, locals, ciphers, isConnecting>>

\* SetCipher stores the cipher and remembers the connection in one critical
\* section; SetCipherApply hands it to that connection afterwards.
SetCipher(p, k) ==
    /\ pc[p] = "idle"
    /\ cipher' = k
    /\ ciph' = [ciph EXCEPT ![p] = k]
    /\ held' = [held EXCEPT ![p] = conn]
    /\ Goto(p, IF conn = NoConn THEN "idle" ELSE "apply")
    /\ UNCHANGED <<flags, loops, conns, lastEndpoint, endpoints, incoming,
                   target, connCipher, isConnecting>>

SetCipherApply(p) ==
    /\ pc[p] = "apply"
    /\ connCipher' = [connCipher EXCEPT ![held[p]] = ciph[p]]
    /\ held' = [held EXCEPT ![p] = NoConn]
    /\ Goto(p, "idle")
    /\ UNCHANGED <<flags, data, loops, conns, target, ciph, isConnecting>>

UpdateEndpoints(p, pool) ==
    /\ pc[p] = "idle"
    /\ endpoints' = pool
    /\ UNCHANGED <<flags, loops, conns, locals, ciphers, cipher, lastEndpoint,
                   incoming, isConnecting, pc>>

\* WaitForConnection that does not find a connection at once starts polling.
WaitForConnection(p) ==
    /\ pc[p] = "idle"
    /\ ~IsConnected
    /\ Goto(p, "wait")
    /\ UNCHANGED <<flags, data, loops, conns, locals, ciphers, isConnecting>>

\* The select: the caller's context ends, c.ctx ends, or a tick that reads
\* IsConnected and either returns nil or goes on to read isConnecting.
WaitPoll(p) ==
    /\ pc[p] = "wait"
    /\ \/ Goto(p, "idle")
       \/ ~IsConnected /\ Goto(p, "recheck")
    /\ UNCHANGED <<flags, data, loops, conns, locals, ciphers, isConnecting>>

\* The second read of a tick: keep polling, or return ErrDisconnected.
WaitRecheck(p) ==
    /\ pc[p] = "recheck"
    /\ Goto(p, IF isConnecting THEN "wait" ELSE "idle")
    /\ UNCHANGED <<flags, data, loops, conns, locals, ciphers, isConnecting>>

\* The application receives a frame from C().
Consume ==
    /\ incoming > 0
    /\ incoming' = incoming - 1
    /\ UNCHANGED <<flags, loops, conns, locals, ciphers, cipher, lastEndpoint,
                   endpoints, isConnecting, pc>>

-----------------------------------------------------------------------------
Init ==
    /\ closed = FALSE /\ done = FALSE /\ isConnecting = FALSE
    /\ conn = NoConn /\ cipher = InitCipher /\ reconnectCancel = NoLoop
    /\ lastEndpoint = ZeroEndpoint /\ endpoints = {} /\ incoming = 0
    /\ cancelled = {} /\ open = {}
    /\ connCipher = [c \in Conns |-> InitCipher]
    /\ pc = [p \in Procs |-> IF p \in Loops THEN "free" ELSE "idle"]
    /\ held = [p \in Procs |-> NoConn]
    /\ target = [p \in Procs |-> ZeroEndpoint]
    /\ ciph = [p \in Procs |-> InitCipher]
    /\ attempts = [l \in Loops |-> 0]
    /\ rl = [c \in Conns |-> "none"]

\* A call of the application, which may or may not come.
Call(p) ==
    \/ "Connect" \in Methods /\ \E e \in Endpoints : CallConnect(p, e)
    \/ "Disconnect" \in Methods /\ Disconnect(p)
    \/ "Close" \in Methods /\ Close(p)
    \/ "TriggerReconnect" \in Methods /\ TriggerReconnect(p)
    \/ "SetCipher" \in Methods /\ \E k \in Ciphers : SetCipher(p, k)
    \/ "UpdateEndpoints" \in Methods /\ \E pool \in Pools : UpdateEndpoints(p, pool)
    \/ "WaitForConnection" \in Methods /\ WaitForConnection(p)

\* The rest of a call once it has started.
Finish(p) ==
    \/ Connect(p)
    \/ CloseUnregister(p) \/ CloseCancel(p) \/ Take(p) \/ Shut(p)
    \/ SetCipherApply(p) \/ WaitPoll(p) \/ WaitRecheck(p)

Next ==
    \/ \E p \in Callers : Call(p) \/ Finish(p)
    \/ \E l \in Loops : ReconnectLoop(l) \/ Connect(l)
    \/ \E c \in Conns : ReadLoop(c)
    \/ Consume

Spec == Init /\ [][Next]_vars

\* What the scheduler owes: every goroutine that can take a step eventually
\* does.  Calls are the application's business, and a connection that is
\* neither broken nor closed may stay silent for ever.  A dial ends because
\* Connect bounds it with ConnectTimeout, a back-off because of its timer.
Fairness ==
    /\ \A p \in Callers : WF_vars(Finish(p))
    /\ \A l \in Loops : WF_vars(ReconnectLoop(l) \/ Connect(l))
    /\ \A c \in Conns : WF_vars(ReadLoop(c) /\ (rl[c] = "recv" => c \notin open))

FairSpec == Spec /\ Fairness

-----------------------------------------------------------------------------
(* Properties.                                                             *)

TypeOK ==
    /\ closed \in BOOLEAN /\ done \in BOOLEAN /\ isConnecting \in BOOLEAN
    /\ conn \in Conns \cup {NoConn}
    /\ cipher \in Ciphers
    /\ reconnectCancel \in Loops \cup {NoLoop}
    /\ lastEndpoint \in Endpoints
    /\ endpoints \in SUBSET Endpoints
    /\ incoming \in 0..Capacity
    /\ cancelled \in SUBSET Loops
    /\ open \in SUBSET Conns
    /\ connCipher \in [Conns -> Ciphers]
    /\ pc \in [Procs -> CallerLabels \cup LoopLabels]
    /\ \A p \in Callers : pc[p] \in CallerLabels
    /\ \A l \in Loops : pc[l] \in LoopLabels
    /\ held \in [Procs -> Conns \cup {NoConn}]
    /\ target \in [Procs -> Endpoints]
    /\ ciph \in [Procs -> Ciphers]
    /\ attempts \in [Loops -> 0..MaxAttempts]
    /\ rl \in [Conns -> ReadLabels]

\* While a loop dials it has attempts left: the limit is tested at the head of
\* the loop only, and every failed Connect comes back there.
AttemptBudget ==
    \A l \in Loops : MaxAttempts > 0 /\ pc[l] \in {"pick"} \cup ConnectLabels
                       => attempts[l] < MaxAttempts

\* A goroutine is between the compare-and-swap of isConnecting and its reset.
Dialing(p) == pc[p] \in {"read", "dial", "install", "release"}

\* isConnecting is set exactly while some Connect is past its
\* compare-and-swap, and never two of them are: an explicit Connect and a
\* reconnection never dial at the same time, and the flag is never left set
\* behind a Connect that returned, which would make every later one fail
\* with ErrAlreadyConnecting.
OneDial ==
    /\ isConnecting <=> \E p \in Procs : Dialing(p)
    /\ \A p, q \in Procs : Dialing(p) /\ Dialing(q) => p = q

\* c.reconnectCancel belongs to a reconnectLoop exactly while that loop runs
\* with a context nobody cancelled.  So at most one loop is in force however
\* many cancelled ones are still winding down, and no registration outlives
\* its loop, which would make triggerReconnect return early for ever.
LoopRegistered ==
    \A l \in Loops : (pc[l] # "free" /\ l \notin cancelled) <=> reconnectCancel = l

\* p holds c in a local variable and is going to install it or to close it.
Holds(p, c) == held[p] = c /\ pc[p] \in {"install", "shut"}

\* A connection is open exactly as long as one party owns it: the Connect
\* that dialled it, c.conn, the Disconnect or Close that took it out of
\* c.conn, or the readLoop that did.  No interleaving of them leaks a
\* connection, closes one twice, or leaves a closed one in c.conn.
UniqueOwner ==
    \A c \in Conns :
        /\ c \in open <=> \/ conn = c
                         \/ rl[c] = "close"
                         \/ \E p \in Procs : Holds(p, c)
        /\ rl[c] = "close" => conn # c
        /\ \A p \in Procs : Holds(p, c) =>
               /\ conn # c /\ rl[c] # "close"
               /\ \A q \in Procs : Holds(q, c) => p = q

\* The connection in c.conn has a readLoop that has not yet run the deferred
\* function: whoever replaced or took connections in between, the failure of
\* the current one will be noticed.
ReaderAttached ==
    conn # NoConn => rl[conn] \in {"check", "recv", "push", "cleanup"}

\* Close "permanently shuts down the connector and cancels all background
\* workers": whatever was running when it was called, in the end every
\* connection is closed, including one whose dial completed after Close, and
\* every reconnectLoop and readLoop has returned, for good.
CloseDrains ==
    closed ~> [](/\ open = {} /\ conn = NoConn
                 /\ \A l \in Loops : pc[l] = "free"
                 /\ \A c \in Conns : rl[c] = "none")

\* With a limit on the attempts every reconnectLoop ends, although dials that
\* meet ErrAlreadyConnecting or ErrClosed count as attempts too.
LoopsEnd == \A l \in Loops : pc[l] # "free" ~> pc[l] = "free"

Slot == INSTANCE ConnectionSlot WITH slot <- conn, live <- open

\* The connector implements the abstract connection slot: Connect, Disconnect,
\* Close and readLoop together treat c.conn as a slot for one connection at a
\* time, and every connection that is not in c.conn is put there or closed.
SlotSafety == Slot!Safety
SlotSpec == Slot!Spec
=============================================================================
