------------------------------ MODULE SocketIO ------------------------------
(***************************************************************************)
(* The life of a Socket.IO session: src/socketio/client.go (NewSocketIOConn*)
(* and Close), src/socketio/engineio.go (readLoop, cleanupConnection and   *)
(* heartbeatLoop) and src/socketio/reconnect.go.                           *)
(*                                                                         *)
(* readLoop ends by spawning reconnectLoop, which ends by spawning the     *)
(* next readLoop, so the three form one line of control, whose position is *)
(* main.  heartbeatLoop goroutines run beside it; nothing joins them.      *)
(*                                                                         *)
(* s.closed is replaced by a new channel on every reconnection.  A         *)
(* goroutine blocked in a select waits on the channel it read when it      *)
(* entered: the current one ("cur"), or one that was replaced after it had *)
(* been closed ("shut") or before ("dead", which nobody can close).        *)
(*                                                                         *)
(* An operator XMut is a wrong variant of X; nothing refers to it.  The    *)
(* mutation tests put it in the place of X and expect a property to fail.  *)
(***************************************************************************)
EXTENDS Naturals

CONSTANTS
    Closers,       \* goroutines of the application that call Close
    Beats,         \* heartbeatLoop goroutines followed at the same time
    Conns,         \* identities of WebSocket connections, used again once closed
    Reconnection,  \* cfg.Reconnection
    MaxAttempts,   \* cfg.ReconnectionAttempts, 0 for no limit
    NoConn, NoBeat

ASSUME SocketIOAssumption ==
    /\ Reconnection \in BOOLEAN
    /\ MaxAttempts \in Nat
    /\ NoConn \notin Conns /\ NoBeat \notin Beats

VARIABLES
    main,      \* where readLoop / reconnectLoop is
    fsm,       \* state of s.fsm
    state,     \* s.state
    shut,      \* the current s.closed is closed
    skip,      \* s.skipReconnect
    ws,        \* s.conn
    dialled,   \* the connection attemptReconnection has not stored yet
    open,      \* connections not yet closed by us
    attempts,  \* s.attemptCount
    hpc,       \* where each heartbeatLoop is
    hch,       \* the s.closed each of them waits on
    pong,      \* the heartbeatLoop that made s.pongCh
    tokens,    \* heartbeatLoops whose pong channel holds a pong
    cpc,       \* where each Close is
    closes     \* history: the Close calls, see below

chain  == <<main, fsm, state, attempts, dialled>>
beats  == <<hpc, hch, pong, tokens>>
app    == <<cpc, closes>>
vars   == <<chain, beats, app, shut, skip, ws, open>>

Reading    == {"read"}
Cleaning   == {"fsm", "state", "shutws", "decide"}
Retrying   == {"loop", "sleep", "count", "dial", "store", "reset", "shake"}
Opening    == {"fsmopen", "openstate", "finish"}
MainLabels == Reading \cup Cleaning \cup Retrying \cup Opening \cup {"gone"}

-----------------------------------------------------------------------------
(* The state machine of initFSM; Transition's error is dropped.            *)

TransitionMut(event) ==
    fsm' = IF event = "close" /\ fsm = "open" THEN "closed" ELSE fsm

Transition(event) ==
    fsm' = CASE event = "close" /\ fsm = "open" -> "closed"
             [] event = "reconnect" /\ fsm = "closed" -> "open"
             [] OTHER -> fsm

-----------------------------------------------------------------------------
(* readLoop and cleanupConnection.                                         *)

\* The read fails, because the connection broke or was closed, or the peer
\* sends an Engine.IO close.
ReadEnds ==
    /\ main = "read"
    /\ main' = "fsm"
    /\ UNCHANGED <<fsm, state, attempts, dialled, beats, app, shut, skip, ws, open>>

\* An Engine.IO pong goes to the channel made last, if it has room.
ReadPong ==
    /\ main = "read" /\ ws \in open
    /\ pong # NoBeat
    /\ tokens' = tokens \cup {pong}
    /\ UNCHANGED <<chain, hpc, hch, pong, app, shut, skip, ws, open>>

CleanupFSM ==
    /\ main = "fsm"
    /\ Transition("close")
    /\ main' = "state"
    /\ UNCHANGED <<state, attempts, dialled, beats, app, shut, skip, ws, open>>

LostStateMut == state
LostState == "closed"

CleanupState ==
    /\ main = "state"
    /\ state' = LostState
    /\ main' = "shutws"
    /\ UNCHANGED <<fsm, attempts, dialled, beats, app, shut, skip, ws, open>>

\* (*s.conn.Load()).Close()
CleanedMut == open
Cleaned == open \ {ws}

CleanupConn ==
    /\ main = "shutws"
    /\ open' = Cleaned
    /\ main' = "decide"
    /\ UNCHANGED <<fsm, state, attempts, dialled, beats, app, shut, skip, ws>>

\* The end of cleanupConnection: spawn reconnectLoop or stop.
WantsReconnect == ~skip /\ Reconnection

CleanupDecide ==
    /\ main = "decide"
    /\ main' = IF WantsReconnect THEN "loop" ELSE "gone"
    /\ UNCHANGED <<fsm, state, attempts, dialled, beats, app, shut, skip, ws, open>>

-----------------------------------------------------------------------------
(* reconnectLoop.                                                          *)

StopsMut == FALSE
Stops == shut

LoopCheck ==
    /\ main = "loop"
    /\ main' = IF Stops THEN "gone" ELSE "sleep"
    /\ UNCHANGED <<fsm, state, attempts, dialled, beats, app, shut, skip, ws, open>>

\* The timer fires or s.closed is closed; either when both are ready.
LoopSleep ==
    /\ main = "sleep"
    /\ \/ main' = "count"
       \/ shut /\ main' = "gone"
    /\ UNCHANGED <<fsm, state, attempts, dialled, beats, app, shut, skip, ws, open>>

\* s.attemptCount++; without a limit the count is never read.
CountedMut == attempts
Counted == IF MaxAttempts > 0 THEN attempts + 1 ELSE attempts

LoopCount ==
    /\ main = "count"
    /\ attempts' = Counted
    /\ main' = "dial"
    /\ UNCHANGED <<fsm, state, dialled, beats, app, shut, skip, ws, open>>

\* handleReconnectFailure: give up at the limit, or go round again.
GivesUpMut == MaxAttempts > 0 /\ attempts > MaxAttempts
GivesUp == MaxAttempts > 0 /\ attempts >= MaxAttempts

HandleFailure == main' = IF GivesUp THEN "gone" ELSE "loop"

DialFail ==
    /\ main = "dial"
    /\ HandleFailure
    /\ UNCHANGED <<fsm, state, attempts, dialled, beats, app, shut, skip, ws, open>>

DialOk(c) ==
    /\ main = "dial"
    /\ c \notin open /\ c # ws
    /\ dialled' = c
    /\ open' = open \cup {c}
    /\ main' = "store"
    /\ UNCHANGED <<fsm, state, attempts, beats, app, shut, skip, ws>>

\* s.conn.Store(&conn)
Store ==
    /\ main = "store"
    /\ ws' = dialled /\ dialled' = NoConn
    /\ main' = "reset"
    /\ UNCHANGED <<fsm, state, attempts, beats, app, shut, skip, open>>

\* resetConnectionState: a new s.closed; who waits on the old one keeps it.
Reset ==
    /\ main = "reset"
    /\ shut' = FALSE /\ skip' = FALSE
    /\ hch' = [h \in Beats |-> IF hch[h] # "cur" THEN hch[h]
                               ELSE IF shut THEN "shut" ELSE "dead"]
    /\ main' = "shake"
    /\ UNCHANGED <<fsm, state, attempts, dialled, hpc, pong, tokens, app, ws, open>>

\* doHandshake fails and the connection is closed, or it succeeds.
HandshakeFail ==
    /\ main = "shake"
    /\ open' = open \ {ws}
    /\ HandleFailure
    /\ UNCHANGED <<fsm, state, attempts, dialled, beats, app, shut, skip, ws>>

HandshakeOk ==
    /\ main = "shake" /\ ws \in open
    /\ main' = "fsmopen"
    /\ UNCHANGED <<fsm, state, attempts, dialled, beats, app, shut, skip, ws, open>>

FinalizeFSM ==
    /\ main = "fsmopen"
    /\ Transition("reconnect")
    /\ main' = "openstate"
    /\ UNCHANGED <<state, attempts, dialled, beats, app, shut, skip, ws, open>>

FinalizeState ==
    /\ main = "openstate"
    /\ state' = "open"
    /\ main' = "finish"
    /\ UNCHANGED <<fsm, attempts, dialled, beats, app, shut, skip, ws, open>>

Resting(h) == hpc[h] = "none"

\* s.attemptCount = 0, then the goroutines of the new connection; a
\* heartbeatLoop beyond the bound Beats is not followed.
FinalizeSpawn ==
    /\ main = "finish"
    /\ attempts' = 0
    /\ main' = "read"
    /\ \/ \E h \in Beats :
             /\ Resting(h)
             /\ hpc' = [hpc EXCEPT ![h] = "start"]
       \/ UNCHANGED hpc /\ \A h \in Beats : ~Resting(h)
    /\ UNCHANGED <<fsm, state, dialled, hch, pong, tokens, app, shut, skip, ws, open>>

Main ==
    \/ ReadPong \/ CleanupFSM \/ CleanupState \/ CleanupConn \/ CleanupDecide
    \/ LoopCheck \/ LoopSleep \/ LoopCount \/ DialFail \/ (\E c \in Conns : DialOk(c))
    \/ Store \/ Reset \/ HandshakeFail \/ HandshakeOk
    \/ FinalizeFSM \/ FinalizeState \/ FinalizeSpawn

-----------------------------------------------------------------------------
(* heartbeatLoop.                                                          *)

Woken(h) == hch[h] = "shut" \/ (hch[h] = "cur" /\ shut)

BeatGo(h, label) == hpc' = [hpc EXCEPT ![h] = label]

BeatEnd(h) ==
    /\ BeatGo(h, "none")
    /\ hch' = [hch EXCEPT ![h] = "dead"]
    /\ tokens' = tokens \ {h}

\* The head of the loop: enter the select on the current s.closed.
BeatEnter(h) ==
    /\ hpc[h] = "start"
    /\ BeatGo(h, "select")
    /\ hch' = [hch EXCEPT ![h] = "cur"]
    /\ UNCHANGED <<chain, pong, tokens, app, shut, skip, ws, open>>

\* s.closed, or a tick that makes a new pong channel.
BeatSelect(h) ==
    /\ hpc[h] = "select"
    /\ \/ /\ Woken(h)
          /\ BeatEnd(h)
          /\ UNCHANGED pong
       \/ /\ BeatGo(h, "ping")
          /\ pong' = h
          /\ tokens' = tokens \ {h}
          /\ UNCHANGED hch
    /\ UNCHANGED <<chain, app, shut, skip, ws, open>>

\* The ping is written to whatever s.conn is now; an error ends the loop.
PingErrorMut(h) == BeatGo(h, "start") /\ UNCHANGED <<hch, tokens>>
PingError(h) == BeatEnd(h)

BeatPing(h) ==
    /\ hpc[h] = "ping"
    /\ \/ PingError(h)
       \/ ws \in open /\ BeatGo(h, "sent") /\ UNCHANGED <<hch, tokens>>
    /\ UNCHANGED <<chain, pong, app, shut, skip, ws, open>>

\* Enter the second select, again on the s.closed of this moment.
BeatSent(h) ==
    /\ hpc[h] = "sent"
    /\ BeatGo(h, "await")
    /\ hch' = [hch EXCEPT ![h] = "cur"]
    /\ UNCHANGED <<chain, pong, tokens, app, shut, skip, ws, open>>

\* The pong arrives, or s.closed is closed.
BeatAwait(h) ==
    /\ hpc[h] = "await"
    /\ \/ /\ h \in tokens
          /\ tokens' = tokens \ {h}
          /\ BeatGo(h, "start")
          /\ UNCHANGED hch
       \/ Woken(h) /\ BeatEnd(h)
    /\ UNCHANGED <<chain, pong, app, shut, skip, ws, open>>

\* The ping timer fires: one critical section of s.mu.
BeatTimeout(h) ==
    /\ hpc[h] = "await"
    /\ shut' = (shut \/ ~skip)
    /\ open' = open \ {ws}
    /\ BeatEnd(h)
    /\ UNCHANGED <<chain, pong, app, skip, ws>>

Beat(h) ==
    \/ BeatEnter(h) \/ BeatSelect(h) \/ BeatPing(h)
    \/ BeatSent(h) \/ BeatAwait(h) \/ BeatTimeout(h)

-----------------------------------------------------------------------------
(* Close.  The history records "early" for a call that took effect before  *)
(* reconnectLoop had looked at s.closed, and "returned" once a call that   *)
(* took effect has returned.                                               *)

CloseMark(k) ==
    /\ cpc[k] = "idle" /\ ~shut
    /\ shut' = TRUE /\ skip' = TRUE
    /\ cpc' = [cpc EXCEPT ![k] = "close"]
    /\ closes' = IF main \in Reading \cup Cleaning \cup {"loop"}
                 THEN closes \cup {"early"} ELSE closes
    /\ UNCHANGED <<chain, beats, ws, open>>

\* The two packets, whose errors are dropped, and the close of s.conn.
CloseConn(k) ==
    /\ cpc[k] = "close"
    /\ open' = open \ {ws}
    /\ cpc' = [cpc EXCEPT ![k] = "idle"]
    /\ closes' = closes \cup {"returned"}
    /\ UNCHANGED <<chain, beats, shut, skip, ws>>

-----------------------------------------------------------------------------
\* The session NewSocketIOConn returns: handshake done, both loops spawned.
Init ==
    /\ main = "read" /\ fsm = "open" /\ state = "open"
    /\ shut = FALSE /\ skip = FALSE
    /\ \E c \in Conns : ws = c /\ open = {c}
    /\ dialled = NoConn /\ attempts = 0
    /\ \E h \in Beats : hpc = [b \in Beats |-> IF b = h THEN "start" ELSE "none"]
    /\ hch = [h \in Beats |-> "dead"]
    /\ pong = NoBeat /\ tokens = {}
    /\ cpc = [k \in Closers |-> "idle"] /\ closes = {}

Next ==
    \/ ReadEnds \/ Main
    \/ \E h \in Beats : Beat(h)
    \/ \E k \in Closers : CloseMark(k) \/ CloseConn(k)

Spec == Init /\ [][Next]_vars

\* Goroutines that can take a step eventually do: timers fire, a dial and a
\* handshake end within ConnectTimeout, and a read on a connection we closed
\* returns.  A healthy connection may stay silent, and Close need not come.
FairSpec ==
    /\ Spec
    /\ WF_vars(Main /\ main' # main) /\ WF_vars(ReadEnds /\ ws \notin open)
    /\ \A h \in Beats : WF_vars(Beat(h))
    /\ \A k \in Closers : WF_vars(CloseConn(k))

-----------------------------------------------------------------------------
(* Properties.                                                             *)

TypeOK ==
    /\ main \in MainLabels
    /\ fsm \in {"open", "closed"} /\ state \in {"open", "closed"}
    /\ shut \in BOOLEAN /\ skip \in BOOLEAN
    /\ ws \in Conns /\ dialled \in Conns \cup {NoConn} /\ open \in SUBSET Conns
    /\ attempts \in 0..MaxAttempts
    /\ hpc \in [Beats -> {"none", "start", "select", "ping", "sent", "await"}]
    /\ hch \in [Beats -> {"cur", "shut", "dead"}]
    /\ pong \in Beats \cup {NoBeat} /\ tokens \in SUBSET Beats
    /\ cpc \in [Closers -> {"idle", "close"}]
    /\ closes \in SUBSET {"early", "returned"}

\* No connection is leaked over any number of reconnections: the only ones
\* not closed are the current one, and one about to be stored, at which time
\* the one it replaces is closed.
OneSocket ==
    /\ open \subseteq {ws, dialled}
    /\ main = "store" => ws \notin open

\* The state machine and s.state agree outside the steps that move one after
\* the other, so the transitions whose errors are dropped never fail.
FsmAgrees == main \notin {"state", "openstate"} => fsm = state

\* Connected() and Emit's assertOpen are true only while a readLoop runs or is
\* about to run or to note its end: nothing is emitted on a session nobody
\* reads.
OpenHasReader == state = "open" => main \in {"finish", "read", "fsm", "state"}

\* A Close that takes effect while the session is open, or while its loss is
\* being cleaned up, is final: no reconnection follows, whatever the
\* heartbeats do and however the cleanup is interleaved with it.
CloseEffective ==
    "early" \in closes => main \in Reading \cup Cleaning \cup {"loop", "gone"}

\* The attempt limit: the session never dials more than MaxAttempts times in a
\* row, and gives up only at the limit, after Close, or with s.closed closed.
AttemptLimit ==
    main = "gone" /\ ~shut /\ Reconnection => attempts = MaxAttempts /\ MaxAttempts > 0

\* With a limit on the attempts every loss of the connection ends in a new
\* one or in the end of the session.
LossResolved == main # "read" ~> main \in {"read", "gone"}

\* When the session has ended every heartbeatLoop returns, also those that
\* wait on an s.closed nobody can close.
HeartbeatsEnd == main = "gone" ~> \A h \in Beats : hpc[h] = "none"

\* Nothing of a session stays under way for ever: a loss is resolved, and the
\* heartbeats do not outlive the session.
SessionSettles == LossResolved /\ HeartbeatsEnd
=============================================================================
