---------------------------- MODULE SessionProofs ----------------------------
(***************************************************************************)
(* The safety properties of Socket.IO and WebTransport sessions, proved    *)
(* for any number of Close calls, heartbeats, connections and streams, any *)
(* attempt limit and any capacities.                                       *)
(***************************************************************************)
EXTENDS SocketIO, WebTransport, GRPC, WTStream, TLAPS

-----------------------------------------------------------------------------
(* Socket.IO.  Three invariants are inductive on their own: TypeInv bounds *)
(* the attempt count by the place of the loop, LifeInv says for every      *)
(* place which connections are open and what fsm and state hold, and       *)
(* ClosedInv ties the history of Close to s.closed and s.skipReconnect.    *)

\* Before an attempt is counted there is room for it.
CountInv ==
    /\ MaxAttempts = 0 => attempts = 0
    /\ MaxAttempts > 0 /\ main \in {"loop", "sleep", "count"} => attempts < MaxAttempts
    /\ main \in Reading \cup Cleaning => attempts = 0

\* What is stored was dialled.
TypeInv == TypeOK /\ CountInv /\ (main = "store" => dialled # NoConn)

\* The session TypeOK describes is what NewSocketIOConn returns.
LEMMA TypeInit == Init => TypeInv
  <1> SUFFICES ASSUME Init PROVE TypeInv
    OBVIOUS
  <1>1. hpc \in [Beats -> {"none", "start", "select", "ping", "sent", "await"}]
    <2>1. PICK h \in Beats : hpc = [b \in Beats |-> IF b = h THEN "start" ELSE "none"]
      BY DEF Init
    <2> QED
      BY <2>1
  <1>2. hch \in [Beats -> {"cur", "shut", "dead"}] /\ cpc \in [Closers -> {"idle", "close"}]
    BY DEF Init
  <1>3. ws \in Conns /\ open \in SUBSET Conns
    BY DEF Init
  <1>4. shut \in BOOLEAN /\ skip \in BOOLEAN
    BY ZenonT(30) DEF Init
  <1> QED
    BY <1>1, <1>2, <1>3, <1>4, SocketIOAssumption DEF Init, TypeInv, TypeOK, CountInv,
       MainLabels, Reading, Cleaning

\* Every step keeps the types and the room for the next attempt.
LEMMA TypeStep == TypeInv /\ [Next]_vars => TypeInv'
  <1> SUFFICES ASSUME TypeInv, [Next]_vars PROVE TypeInv'
    OBVIOUS
  <1> USE SocketIOAssumption DEF TypeInv, TypeOK, CountInv, MainLabels, Reading,
          Cleaning, Retrying, Opening, app, chain, beats
  <1>1. CASE ReadEnds
    BY <1>1 DEF ReadEnds
  <1>2. CASE ReadPong
    BY <1>2 DEF ReadPong
  <1>3. CASE CleanupFSM
    BY <1>3 DEF CleanupFSM, Transition
  <1>4. CASE CleanupState
    BY <1>4 DEF CleanupState, LostState
  <1>5. CASE CleanupConn
    BY <1>5 DEF CleanupConn, Cleaned
  <1>6. CASE CleanupDecide
    BY <1>6 DEF CleanupDecide
  <1>7. CASE LoopCheck
    BY <1>7 DEF LoopCheck
  <1>8. CASE LoopSleep
    BY <1>8 DEF LoopSleep
  <1>9. CASE LoopCount
    BY <1>9 DEF LoopCount, Counted
  <1>10. CASE DialFail
    BY <1>10 DEF DialFail, HandleFailure, GivesUp
  <1>11. ASSUME NEW c \in Conns, DialOk(c) PROVE TypeInv'
    BY <1>11 DEF DialOk
  <1>12. CASE Store
    BY <1>12 DEF Store
  <1>13. CASE Reset
    <2>1. hch' \in [Beats -> {"cur", "shut", "dead"}]
      BY <1>13 DEF Reset
    <2> QED
      BY ZenonT(30), <1>13, <2>1 DEF Reset
  <1>14. CASE HandshakeFail
    BY <1>14 DEF HandshakeFail, HandleFailure, GivesUp
  <1>15. CASE HandshakeOk
    BY <1>15 DEF HandshakeOk
  <1>16. CASE FinalizeFSM
    BY <1>16 DEF FinalizeFSM, Transition
  <1>17. CASE FinalizeState
    BY <1>17 DEF FinalizeState
  <1>18. CASE FinalizeSpawn
    <2>1. hpc' \in [Beats -> {"none", "start", "select", "ping", "sent", "await"}]
      BY SMTT(30), <1>18 DEF FinalizeSpawn
    <2> QED
      BY SMTT(30), <1>18, <2>1 DEF FinalizeSpawn
  <1>19. ASSUME NEW h \in Beats, Beat(h) PROVE TypeInv'
    <2> USE DEF BeatGo, BeatEnd
    <2>1. CASE BeatEnter(h)
      BY <2>1 DEF BeatEnter
    <2>2. CASE BeatSent(h)
      BY SMTT(30), <2>2 DEF BeatSent
    <2>3. CASE BeatSelect(h)
      BY <2>3 DEF BeatSelect
    <2>4. CASE BeatPing(h)
      BY <2>4 DEF BeatPing, PingError
    <2>5. CASE BeatAwait(h)
      BY <2>5 DEF BeatAwait
    <2>6. CASE BeatTimeout(h)
      <3>1. shut' \in BOOLEAN
        BY <2>6, SMT DEF BeatTimeout
      <3> QED
        BY <2>6, <3>1 DEF BeatTimeout
    <2> QED
      BY ZenonT(60), <1>19, <2>1, <2>2, <2>3, <2>4, <2>5, <2>6 DEF Beat
  <1>20. ASSUME NEW k \in Closers, CloseMark(k) \/ CloseConn(k) PROVE TypeInv'
    <2>1. cpc' \in [Closers -> {"idle", "close"}]
      BY <1>20 DEF CloseMark, CloseConn
    <2>2. closes' \in SUBSET {"early", "returned"}
      BY ZenonT(30), <1>20 DEF CloseMark, CloseConn
    <2>3. shut' \in BOOLEAN /\ skip' \in BOOLEAN
      BY ZenonT(30), <1>20 DEF CloseMark, CloseConn
    <2> QED
      BY <1>20, <2>1, <2>2, <2>3 DEF CloseMark, CloseConn
  <1>21. CASE UNCHANGED vars
    BY <1>21 DEF vars
  <1> QED
    BY ZenonT(30), <1>1, <1>2, <1>3, <1>4, <1>5, <1>6, <1>7, <1>8, <1>9, <1>10, <1>11, <1>12,
       <1>13, <1>14, <1>15, <1>16, <1>17, <1>18, <1>19, <1>20, <1>21 DEF Next, Main

\* Every variable keeps its type, and the attempt count never passes the limit
\* (reconnectLoop counts before handleReconnectFailure compares).
THEOREM TypeCorrect == Spec => []TypeOK
  <1>1. Spec => []TypeInv
    BY TypeInit, TypeStep, PTL DEF Spec
  <1> QED
    BY <1>1, PTL DEF TypeInv

-----------------------------------------------------------------------------
\* What the place of the session's line of control says: which connections
\* are open, and what fsm and state hold.
LifeInv ==
    /\ open \subseteq {ws, dialled}
    /\ main # "store" => dialled = NoConn
    /\ NoConn \notin open
    /\ main \in {"decide", "loop", "sleep", "count", "dial", "store", "gone"} => ws \notin open
    /\ fsm = IF main \in {"openstate", "finish", "read", "fsm"} THEN "open" ELSE "closed"
    /\ state = IF main \in {"finish", "read", "fsm", "state"} THEN "open" ELSE "closed"

\* Every step keeps the connections and the two states in line with the place.
LEMMA LifeStep == TypeOK /\ LifeInv /\ [Next]_vars => LifeInv'
  <1> SUFFICES ASSUME TypeOK, LifeInv, [Next]_vars PROVE LifeInv'
    OBVIOUS
  <1> USE SocketIOAssumption DEF LifeInv, chain, beats, app
  <1>1. CASE ReadEnds \/ ReadPong
    BY <1>1 DEF ReadEnds, ReadPong
  <1>2. CASE CleanupFSM \/ CleanupState
    BY <1>2 DEF CleanupFSM, CleanupState, Transition, LostState
  <1>3. CASE CleanupConn \/ CleanupDecide
    BY <1>3 DEF CleanupConn, CleanupDecide, Cleaned
  <1>4. CASE LoopCheck \/ LoopSleep \/ LoopCount
    BY <1>4 DEF LoopCheck, LoopSleep, LoopCount
  <1>5. CASE DialFail \/ HandshakeFail
    BY <1>5 DEF DialFail, HandshakeFail, HandleFailure
  <1>6. ASSUME NEW c \in Conns, DialOk(c) PROVE LifeInv'
    BY <1>6 DEF DialOk
  <1>7. CASE Store
    BY <1>7 DEF Store
  <1>8. CASE Reset \/ HandshakeOk
    BY <1>8 DEF Reset, HandshakeOk
  <1>9. CASE FinalizeFSM \/ FinalizeState \/ FinalizeSpawn
    BY ZenonT(30), <1>9 DEF FinalizeFSM, FinalizeState, FinalizeSpawn, Transition
  <1>10. ASSUME NEW h \in Beats, Beat(h) PROVE LifeInv'
    BY ZenonT(30), <1>10 DEF Beat, BeatEnter, BeatSelect, BeatPing, BeatSent, BeatAwait, BeatTimeout
  <1>11. ASSUME NEW k \in Closers, CloseMark(k) \/ CloseConn(k) PROVE LifeInv'
    BY <1>11 DEF CloseMark, CloseConn
  <1>12. CASE UNCHANGED vars
    BY <1>12 DEF vars
  <1> QED
    BY ZenonT(30), <1>1, <1>2, <1>3, <1>4, <1>5, <1>6, <1>7, <1>8, <1>9, <1>10, <1>11, <1>12
       DEF Next, Main

\* The place of the session determines its connections and its two states.
LEMMA Life == Spec => []LifeInv
  <1>1. Init => LifeInv
    BY SocketIOAssumption DEF Init, LifeInv
  <1> QED
    BY <1>1, LifeStep, TypeCorrect, PTL DEF Spec

\* attemptReconnection leaks no connection: none but the current one and one
\* about to be stored is open.
THEOREM NoLeak == Spec => []OneSocket
  <1>1. LifeInv => OneSocket
    BY DEF LifeInv, OneSocket
  <1> QED
    BY <1>1, Life, PTL

\* s.fsm and s.state agree outside the windows between their two updates.
THEOREM StatesAgree == Spec => []FsmAgrees
  <1>1. LifeInv => FsmAgrees
    BY DEF LifeInv, FsmAgrees
  <1> QED
    BY <1>1, Life, PTL

\* A session that calls itself open has a readLoop.
THEOREM OpenIsRead == Spec => []OpenHasReader
  <1>1. LifeInv => OpenHasReader
    BY SMTT(30) DEF LifeInv, OpenHasReader
  <1> QED
    BY <1>1, Life, PTL

-----------------------------------------------------------------------------
\* A Close that counts as early leaves s.closed closed, and skipReconnect is
\* only set with it.
ClosedInv ==
    /\ skip => shut
    /\ "early" \in closes => shut /\ main \in Reading \cup Cleaning \cup {"loop", "gone"}
    /\ main = "gone" /\ ~shut /\ Reconnection => attempts = MaxAttempts /\ MaxAttempts > 0

\* Every step keeps s.closed closed after an early Close.
LEMMA ClosedStep == TypeInv /\ ClosedInv /\ [Next]_vars => ClosedInv'
  <1> SUFFICES ASSUME TypeInv, ClosedInv, [Next]_vars PROVE ClosedInv'
    OBVIOUS
  <1> USE SocketIOAssumption DEF ClosedInv, TypeInv, TypeOK, chain, beats, app, Reading,
          Cleaning
  <1>1. CASE ReadEnds \/ ReadPong
    BY <1>1 DEF ReadEnds, ReadPong
  <1>2. CASE CleanupFSM \/ CleanupState \/ CleanupConn
    BY SMTT(30), <1>2 DEF CleanupFSM, CleanupState, CleanupConn
  <1>3. CASE CleanupDecide
    BY ZenonT(30), <1>3 DEF CleanupDecide, WantsReconnect
  <1>4. CASE LoopCheck \/ LoopSleep \/ LoopCount
    BY SMTT(30), <1>4 DEF LoopCheck, LoopSleep, LoopCount, Stops
  <1>5. CASE DialFail \/ HandshakeFail
    BY <1>5 DEF DialFail, HandshakeFail, HandleFailure, GivesUp
  <1>6. ASSUME NEW c \in Conns, DialOk(c) PROVE ClosedInv'
    BY ZenonT(30), <1>6 DEF DialOk
  <1>7. CASE Store \/ Reset \/ HandshakeOk \/ FinalizeFSM \/ FinalizeState
    <2>1. /\ main' \in {"reset", "shake", "fsmopen", "openstate", "finish"} /\ closes' = closes
          /\ (skip' = skip /\ shut' = shut) \/ skip' = FALSE
          /\ main \in {"store", "reset", "shake", "fsmopen", "openstate"}
      BY ZenonT(30), <1>7 DEF Store, Reset, HandshakeOk, FinalizeFSM, FinalizeState
    <2>2. "early" \notin closes
      BY <2>1
    <2> QED
      BY <2>1, <2>2
  <1>8. CASE FinalizeSpawn
    <2>1. main = "finish" /\ main' = "read" /\ closes' = closes /\ skip' = skip /\ shut' = shut
      BY ZenonT(30), <1>8 DEF FinalizeSpawn
    <2> QED
      BY <2>1
  <1>9. ASSUME NEW h \in Beats, Beat(h) PROVE ClosedInv'
    <2>1. main' = main /\ closes' = closes /\ skip' = skip /\ attempts' = attempts /\ (shut => shut')
      BY ZenonT(30), <1>9 DEF Beat, BeatEnter, BeatSelect, BeatPing, BeatSent, BeatAwait, BeatTimeout
    <2> QED
      BY ZenonT(30), <2>1
  <1>10. ASSUME NEW k \in Closers, CloseMark(k) \/ CloseConn(k) PROVE ClosedInv'
    BY <1>10 DEF CloseMark, CloseConn
  <1>11. CASE UNCHANGED vars
    BY <1>11 DEF vars
  <1> QED
    BY ZenonT(60), <1>1, <1>2, <1>3, <1>4, <1>5, <1>6, <1>7, <1>8, <1>9, <1>10, <1>11 DEF Next, Main

\* The history of Close agrees with s.closed and s.skipReconnect.
LEMMA ClosedAlways == Spec => []ClosedInv
  <1>1. Init => ClosedInv
    BY DEF Init, ClosedInv
  <1>2. Spec => []TypeInv
    BY TypeInit, TypeStep, PTL DEF Spec
  <1> QED
    BY <1>1, <1>2, ClosedStep, PTL DEF Spec

\* A Close during the session or the cleanup of its loss ends the session.
THEOREM EarlyClose == Spec => []CloseEffective
  <1>1. ClosedInv => CloseEffective
    BY DEF ClosedInv, CloseEffective
  <1> QED
    BY <1>1, ClosedAlways, PTL

\* Without a closed s.closed the session ends only at the attempt limit.
THEOREM LimitKept == Spec => []AttemptLimit
  <1>1. ClosedInv => AttemptLimit
    BY DEF ClosedInv, AttemptLimit
  <1> QED
    BY <1>1, ClosedAlways, PTL

-----------------------------------------------------------------------------
(* WebTransport.  CloseOnce is not inductive: it has to be known too that  *)
(* before the compare-and-swap of s.closed nobody is closing and no        *)
(* channel is closed, and that a closer which has closed the channels      *)
(* recorded an error.  With that, a goroutine that saw closed as false     *)
(* under the read lock found open channels, and keeps them open as long as *)
(* it holds it.                                                            *)

\* The type invariant holds when NewSession returns.
LEMMA SessionTypeInit == SessionInit => SessionTypeOK
  <1> SUFFICES ASSUME SessionInit PROVE SessionTypeOK
    OBVIOUS
  <1> USE WebTransportAssumption DEF SessionInit, Procs, Errors
  <1>1. handler \in [Streams -> HandlerLabels]
    BY DEF HandlerLabels
  <1>2. pc \in [Procs -> CloserLabels \cup ControlLabels]
    BY DEF CloserLabels, ControlLabels
  <1>3. \A p \in SessionClosers : pc[p] \in CloserLabels
    BY DEF CloserLabels
  <1>4. code \in [Procs -> Errors]
    BY SMTT(30)
  <1>5. closed \in BOOLEAN /\ draining \in BOOLEAN /\ done \in BOOLEAN /\ chanClosed \in BOOLEAN
    BY ZenonT(30)
  <1> QED
    BY <1>1, <1>2, <1>3, <1>4, <1>5 DEF SessionTypeOK

\* The steps of CloseWithError keep the types.
LEMMA TypeClose ==
  ASSUME SessionTypeOK, NEW p \in Procs, NEW e \in Errors, CloseWithError(p, e) \/ Finish(p)
  PROVE  SessionTypeOK'
  <1> USE WebTransportAssumption DEF SessionTypeOK, flags, queues, procs, Procs, CloserLabels,
          ControlLabels, Goto
  <1>1. CASE CloseWithError(p, e)
    BY <1>1 DEF CloseWithError
  <1>2. CASE CloseLock(p)
    BY SMTT(30), <1>2 DEF CloseLock
  <1>3. CASE CloseChannels(p)
    BY <1>3 DEF CloseChannels
  <1>4. CASE CloseCancel(p)
    BY SMTT(30), <1>4 DEF CloseCancel, Cancelled
  <1>5. CASE CloseReturn(p)
    BY SMTT(30), <1>5 DEF CloseReturn, CloseControl
  <1> QED
    BY SMTT(30), <1>1, <1>2, <1>3, <1>4, <1>5 DEF Finish

\* Every step keeps the types.
LEMMA SessionTypeStep == SessionTypeOK /\ [SessionNext]_sessionVars => SessionTypeOK'
  <1> SUFFICES ASSUME SessionTypeOK, [SessionNext]_sessionVars PROVE SessionTypeOK'
    OBVIOUS
  <1> USE WebTransportAssumption DEF SessionTypeOK, flags, queues, procs
  <1>1. ASSUME NEW s \in Streams, Arrive(s) \/ Deliver(s) PROVE SessionTypeOK'
    <2> USE DEF HandlerLabels
    <2>1. CASE Arrive(s)
      BY SMTT(30), <2>1 DEF Arrive
    <2>2. CASE Enqueue(s)
      BY <2>2 DEF Enqueue
    <2>3. CASE EnqueueBidiStream(s)
      BY SMTT(30), <2>3 DEF EnqueueBidiStream
    <2>4. CASE EnqueueUniStream(s)
      BY <2>4 DEF EnqueueUniStream
    <2>5. CASE EnqueueCancelled(s)
      BY ZenonT(30), <2>5 DEF EnqueueCancelled
    <2> QED
      BY <1>1, <2>1, <2>2, <2>3, <2>4, <2>5 DEF Deliver
  <1>2. ASSUME NEW p \in Procs, Finish(p) PROVE SessionTypeOK'
    BY ZenonT(30), <1>2, TypeClose DEF Errors
  <1>3. ASSUME NEW p \in SessionClosers, CloserClose(p) PROVE SessionTypeOK'
    BY <1>3, TypeClose DEF CloserClose, Errors, Procs
  <1>4. CASE ControlEnd \/ ControlClose
    BY ZenonT(30), <1>4 DEF ControlEnd, ControlClose, Goto, Procs, ControlLabels
  <1>5. CASE ControlOn
    <2>1. CASE PeerLock \/ PeerError
      BY ZenonT(30), <2>1 DEF PeerLock, PeerError, Goto, Procs, ControlLabels, Errors
    <2>2. CASE ControlCloses
      <3>1. CASE CloseWithError(Control, NoCode)
        BY SMTT(30), <3>1, TypeClose DEF Errors, Procs
      <3> QED
        BY ZenonT(30), <2>2, <3>1 DEF ControlCloses, Goto, Procs, ControlLabels
    <2> QED
      BY ZenonT(30), <1>5, <2>1, <2>2 DEF ControlOn
  <1>6. CASE ControlDrain \/ ParentDone \/ Drain
    BY ZenonT(30), <1>6 DEF ControlDrain, ParentDone, Drain
  <1>7. CASE EnqueueDatagram \/ ReceiveDatagram
    BY SMTT(30), <1>7 DEF EnqueueDatagram, DatagramRoom, ReceiveDatagram
  <1>8. ASSUME NEW s \in Streams, AcceptStream(s) \/ AcceptUniStream(s) PROVE SessionTypeOK'
    BY <1>8 DEF AcceptStream, AcceptUniStream
  <1>9. CASE UNCHANGED sessionVars
    BY ZenonT(30), <1>9 DEF sessionVars
  <1> QED
    BY ZenonT(60), <1>1, <1>2, <1>3, <1>4, <1>5, <1>6, <1>7, <1>8, <1>9 DEF SessionNext, Receive

\* Every variable keeps its type; the datagram channel never overflows.
THEOREM SessionTypeCorrect == SessionSpec => []SessionTypeOK
  BY SessionTypeInit, SessionTypeStep, PTL DEF SessionSpec

-----------------------------------------------------------------------------
CloseInv ==
    /\ CloseOnce
    /\ NoSendOnClosed
    /\ ~closed => ~chanClosed /\ \A p \in Procs : ~Closing(p)
    /\ \A p \in Procs : pc[p] = "cancel" => chanClosed /\ closeErr # NoErr

\* The steps of CloseWithError keep the invariant of closing.
LEMMA ClosingStep ==
  ASSUME SessionTypeOK, CloseInv, NEW p \in Procs,
         \/ \E e \in Errors : pc[p] \in {"idle", "close"} /\ CloseWithError(p, e)
         \/ Finish(p)
  PROVE  CloseInv'
  <1> USE WebTransportAssumption DEF CloseInv, CloseOnce, NoSendOnClosed, Closing, SessionTypeOK,
          flags, queues, procs, Goto
  <1>1. ASSUME NEW e \in Errors, pc[p] \in {"idle", "close"}, CloseWithError(p, e)
        PROVE  CloseInv'
    BY ZenonT(30), <1>1 DEF CloseWithError, MayClose
  <1>2. CASE CloseLock(p)
    BY ZenonT(30), <1>2 DEF CloseLock
  <1>3. CASE CloseChannels(p)
    BY ZenonT(30), <1>3 DEF CloseChannels, Readers, Errors
  <1>4. CASE CloseCancel(p)
    BY ZenonT(30), <1>4 DEF CloseCancel, Cancelled
  <1>5. CASE CloseReturn(p)
    BY SMTT(30), <1>5 DEF CloseReturn
  <1> QED
    BY ZenonT(30), <1>1, <1>2, <1>3, <1>4, <1>5 DEF Finish

\* A step that touches neither the closing nor the closed channels.
LEMMA CloseUntouched ==
  ASSUME CloseInv, UNCHANGED <<closed, chanClosed, closeErr>>, done => done',
         \A p \in Procs : \A l \in {"lock", "wait", "cancel"} : pc'[p] = l <=> pc[p] = l,
         \A s \in Streams : handler'[s] = "select" => handler[s] = "select" \/ ~chanClosed
  PROVE  CloseInv'
  <1>1. CloseOnce' /\ NoSendOnClosed'
    BY ZenonT(30) DEF CloseInv, CloseOnce, NoSendOnClosed, Closing
  <1> QED
    BY ZenonT(30), <1>1 DEF CloseInv, Closing

\* Every step keeps the invariant of closing.
LEMMA CloseStep == SessionTypeOK /\ CloseInv /\ [SessionNext]_sessionVars => CloseInv'
  <1> SUFFICES ASSUME SessionTypeOK, CloseInv, [SessionNext]_sessionVars PROVE CloseInv'
    OBVIOUS
  <1>c. Control \in Procs /\ NoCode \in Errors
    BY DEF Procs, Errors
  <1>1. ASSUME NEW p \in Procs, Finish(p) PROVE CloseInv'
    BY <1>1, ClosingStep
  <1>2. ASSUME NEW p \in SessionClosers, CloserClose(p) PROVE CloseInv'
    BY ZenonT(30), <1>2, ClosingStep DEF CloserClose, Errors, Procs
  <1>3. CASE ControlCloses
    <2>1. CASE CloseWithError(Control, NoCode)
      BY ZenonT(30), <1>c, <2>1, <1>3, ClosingStep DEF ControlCloses
    <2>2. CASE pc[Control] = "close" /\ pc' = [pc EXCEPT ![Control] = "gone"]
                 /\ UNCHANGED <<closed, done, handler, closeErr, chanClosed>>
      <3>1. \A p \in Procs : \A l \in {"lock", "wait", "cancel"} : pc'[p] = l <=> pc[p] = l
        BY <2>2 DEF SessionTypeOK
      <3> QED
        BY ZenonT(30), <2>2, <3>1, CloseUntouched
    <2> QED
      BY ZenonT(30), <1>3, <2>1, <2>2 DEF ControlCloses, Goto, flags, queues
  <1>4. ASSUME NEW s \in Streams, Arrive(s) \/ Deliver(s) PROVE CloseInv'
    <2>1. UNCHANGED <<closed, chanClosed, closeErr, done, pc>>
      BY ZenonT(30), <1>4 DEF Arrive, Deliver, Enqueue, EnqueueBidiStream, EnqueueUniStream,
         EnqueueCancelled, flags, procs
    <2>2. PICK l : handler' = [handler EXCEPT ![s] = l] /\ (l = "select" => ~closed)
      <3>1. "deliver" # "select" /\ "none" # "select"
        OBVIOUS
      <3> QED
        BY ZenonT(30), <1>4, <3>1 DEF Arrive, Deliver, Enqueue, EnqueueBidiStream, EnqueueUniStream,
           EnqueueCancelled
    <2>3. \A t \in Streams : handler'[t] = handler[t] \/ handler'[t] = l
      BY <2>2 DEF SessionTypeOK
    <2>4. ~closed => ~chanClosed
      BY DEF CloseInv
    <2> QED
      BY ZenonT(30), <2>1, <2>2, <2>3, <2>4, CloseUntouched
  <1>5. CASE ControlDrain \/ ParentDone \/ Drain \/ EnqueueDatagram \/ Receive
    <2>1. UNCHANGED <<closed, chanClosed, closeErr, handler, pc>> /\ done' \in {done, TRUE}
      BY ZenonT(30), <1>5 DEF ControlDrain, ParentDone, Drain, EnqueueDatagram, Receive, AcceptStream,
         AcceptUniStream, ReceiveDatagram, flags, queues, procs
    <2>2. done => done'
      BY ZenonT(30), <2>1
    <2> QED
      BY ZenonT(30), <2>1, <2>2, CloseUntouched
  <1> USE WebTransportAssumption, <1>c DEF CloseInv, CloseOnce, NoSendOnClosed, Closing,
          SessionTypeOK, flags, queues, procs, Goto
  <1>6. CASE PeerLock
    BY ZenonT(30), <1>6 DEF PeerLock
  <1>7. CASE PeerError
    BY ZenonT(30), <1>7 DEF PeerError
  <1>8. CASE ControlEnd
    BY ZenonT(30), <1>8 DEF ControlEnd
  <1>9. CASE ControlClose
    BY ZenonT(30), <1>9 DEF ControlClose
  <1>10. CASE UNCHANGED sessionVars
    BY <1>10 DEF sessionVars
  <1> QED
    BY ZenonT(30), <1>1, <1>2, <1>3, <1>4, <1>5, <1>6, <1>7, <1>8, <1>9, <1>10 DEF SessionNext, ControlOn

\* The invariant of closing holds in every state.
LEMMA CloseAlways == SessionSpec => []CloseInv
  <1>1. SessionInit => CloseInv
    BY DEF SessionInit, CloseInv, CloseOnce, NoSendOnClosed, Closing
  <1> QED
    BY <1>1, CloseStep, SessionTypeCorrect, PTL DEF SessionSpec

\* EnqueueBidiStream and EnqueueUniStream never send on a closed channel.
THEOREM SendsAreSafe == SessionSpec => []NoSendOnClosed
  <1>1. CloseInv => NoSendOnClosed
    BY DEF CloseInv
  <1> QED
    BY <1>1, CloseAlways, PTL

\* CloseWithError closes the session once, and then completely.
THEOREM ClosesOnce == SessionSpec => []CloseOnce
  <1>1. CloseInv => CloseOnce
    BY DEF CloseInv
  <1> QED
    BY <1>1, CloseAlways, PTL

-----------------------------------------------------------------------------
(* gRPC.  A receiver gets past ensureConnected only with headers that      *)
(* pass, and once a Recv has met the end no other takes a frame any more.  *)

GRPCSpec == BidiInit /\ [][BidiNext]_grpcVars

Passed == ValidateInitialHeaders(resp) = "nil"

AtEnd == Recv(resp, frames) = "EOF"

RpcInv ==
    /\ resp \in Responses /\ DOMAIN callPC = RpcProcs /\ DOMAIN out = RpcProcs
    /\ connectErr # "EOF" /\ (once = "done" /\ connectErr = "nil" => Passed)
    /\ \A p \in Receivers :
          /\ callPC[p] \in {"lock", "read"} => Passed
          /\ out[p] = "EOF" => Passed /\ AtEnd

\* What the two checks accept.
LEMMA HeadersChecked == ASSUME NEW r PROVE /\ ValidateInitialHeaders(r) = "nil" => r.http = 200
                                           /\ ValidateInitialHeaders(r) # "EOF"
  BY ZenonT(30) DEF ValidateInitialHeaders, ParseGRPCStatus

LEMMA TrailersChecked == ASSUME NEW r PROVE /\ ValidateResponseTrailers(r) = "nil" => Effective(r) = "0"
                                            /\ ValidateResponseTrailers(r) # "EOF"
  BY ZenonT(30) DEF ValidateResponseTrailers, ParseGRPCStatus, Effective

\* Steps of senders, of the closer and of the request goroutine.
LEMMA ReceiversAlone ==
    ASSUME RpcInv, resp' = resp, frames' = frames, once' = once, connectErr' = connectErr,
           DOMAIN callPC' = RpcProcs, DOMAIN out' = RpcProcs,
           \A p \in Receivers : callPC'[p] = callPC[p] /\ out'[p] = out[p]
    PROVE  RpcInv'
  <1>1. Passed' = Passed /\ AtEnd' = AtEnd
    BY DEF Passed, AtEnd
  <1> QED
    BY ZenonT(30), <1>1 DEF RpcInv

\* Only p of the receivers moves.
Moves(p) ==
    /\ DOMAIN callPC' = RpcProcs /\ DOMAIN out' = RpcProcs
    /\ \A q \in Receivers : q # p => callPC'[q] = callPC[q] /\ out'[q] = out[q]

LEMMA ReceiverMoves ==
    ASSUME RpcInv, NEW p \in Receivers, Moves(p),
           resp' = resp, frames' = frames, once' = once, connectErr' = connectErr,
           callPC'[p] \in {"lock", "read"} => Passed, out'[p] = "EOF" => Passed /\ AtEnd
    PROVE  RpcInv'
  <1>1. Passed' = Passed /\ AtEnd' = AtEnd
    BY DEF Passed, AtEnd
  <1> QED
    BY ZenonT(30), <1>1 DEF RpcInv, Moves

\* A receiver moves on, or returns from its Recv.
LEMMA ReceiverKeeps ==
    ASSUME RpcInv, NEW p \in Receivers, RecvCheck(p) \/ RecvNext(p) \/ RecvRead(p)
    PROVE  RpcInv'
  <1>1. once' = once /\ connectErr' = connectErr /\ resp' = resp
    BY ZenonT(30) DEF RecvCheck, RecvNext, RecvConnected, RecvLock, RecvRead, reqVars, onceVars
  <1>2. p \in RpcProcs /\ Receivers \subseteq RpcProcs /\ DOMAIN callPC = RpcProcs /\ DOMAIN out = RpcProcs
    BY DEF RpcInv, RpcProcs
  <1>3. ASSUME NEW l, NEW x, callPC' = [callPC EXCEPT ![p] = l], out' = [out EXCEPT ![p] = x] \/ (out' = out /\ x = out[p])
        PROVE  Moves(p) /\ callPC'[p] = l /\ out'[p] = x
    BY <1>2, <1>3 DEF Moves
  <1>4. out[p] = "EOF" => Passed /\ AtEnd
    BY ZenonT(30) DEF RpcInv
  <1>5. CASE RecvCheck(p)
    <2>1. frames' = frames
      BY ZenonT(30), <1>5 DEF RecvCheck, reqVars
    <2>2. \/ callPC' = [callPC EXCEPT ![p] = "done"] /\ out' = [out EXCEPT ![p] = "closed"]
          \/ callPC' = [callPC EXCEPT ![p] = "ensure"] /\ out' = out
      BY ZenonT(30), <1>5 DEF RecvCheck, Returns, CallGoto
    <2>3. Moves(p) /\ callPC'[p] \in {"done", "ensure"} /\ out'[p] \in {"closed", out[p]}
      BY ZenonT(30), <1>3, <2>2
    <2>4. callPC'[p] \notin {"lock", "read"} /\ (out'[p] = "EOF" => Passed /\ AtEnd)
      BY ZenonT(30), <1>4, <2>3
    <2> QED
      BY ZenonT(30), <1>1, <2>1, <2>3, <2>4, ReceiverMoves
  <1>6. CASE RecvNext(p)
    <2>1. frames' = frames
      BY ZenonT(30), <1>6 DEF RecvNext, RecvConnected, RecvLock, reqVars
    <2>2. \/ callPC' = [callPC EXCEPT ![p] = "done"] /\ out' = [out EXCEPT ![p] = connectErr]
          \/ connectErr = "nil" /\ once = "done" /\ callPC' = [callPC EXCEPT ![p] = "lock"] /\ out' = out
          \/ callPC[p] = "lock" /\ callPC' = [callPC EXCEPT ![p] = "read"] /\ out' = out
      BY ZenonT(30), <1>6 DEF RecvNext, RecvConnected, RecvLock, Returns, CallGoto
    <2>3. /\ Moves(p) /\ out'[p] \in {connectErr, out[p]}
          /\ callPC'[p] \in {"lock", "read"} => (connectErr = "nil" /\ once = "done") \/ callPC[p] = "lock"
      BY ZenonT(30), <1>3, <2>2
    <2>4. (callPC'[p] \in {"lock", "read"} => Passed) /\ (out'[p] = "EOF" => Passed /\ AtEnd)
      BY ZenonT(30), <1>4, <2>3 DEF RpcInv
    <2> QED
      BY ZenonT(30), <1>1, <2>1, <2>3, <2>4, ReceiverMoves
  <1>7. CASE RecvRead(p)
    <2>1. PICK got : got = Recv(resp, frames)
      OBVIOUS
    <2>2. /\ callPC[p] = "read"
          /\ \/ /\ got = "message" /\ out' = [out EXCEPT ![p] = "message"] /\ callPC' = [callPC EXCEPT ![p] = "idle"]
             \/ /\ frames' = frames
                /\ callPC' = [callPC EXCEPT ![p] = "done"] /\ out' = [out EXCEPT ![p] = got]
             \/ /\ frames' = frames
                /\ callPC' = [callPC EXCEPT ![p] = "done"] /\ out' = [out EXCEPT ![p] = "read error"]
      BY ZenonT(30), <1>7, <2>1 DEF RecvRead, Returns, CallGoto
    <2>3. Passed
      BY ZenonT(30), <2>2 DEF RpcInv
    <2>4. got = "EOF" => AtEnd
      BY ZenonT(30), <2>1 DEF AtEnd
    <2>5. CASE frames' = frames /\ callPC' = [callPC EXCEPT ![p] = "done"]
      <3>1. Moves(p) /\ callPC'[p] = "done" /\ out'[p] \in {got, "read error", "message"}
        BY ZenonT(30), <1>3, <2>2, <2>5
      <3>2. callPC'[p] \notin {"lock", "read"} /\ (out'[p] = "EOF" => Passed /\ AtEnd)
        BY ZenonT(30), <2>3, <2>4, <3>1
      <3> QED
        BY ZenonT(30), <1>1, <2>5, <3>1, <3>2, ReceiverMoves
    <2>6. CASE got = "message" /\ out' = [out EXCEPT ![p] = "message"] /\ callPC' = [callPC EXCEPT ![p] = "idle"]
      <3>1. ~AtEnd /\ Passed'
        BY <1>1, <2>1, <2>3, <2>6 DEF AtEnd, Passed
      <3>2. \A q \in Receivers : out[q] # "EOF"
        BY ZenonT(30), <3>1 DEF RpcInv
      <3>3. Moves(p) /\ out'[p] = "message"
        BY ZenonT(30), <1>3, <2>6
      <3>4. \A q \in Receivers : out'[q] # "EOF"
        BY ZenonT(30), <3>2, <3>3 DEF Moves
      <3> QED
        BY ZenonT(30), <1>1, <3>1, <3>3, <3>4 DEF RpcInv, Moves
    <2> QED
      BY ZenonT(30), <2>2, <2>5, <2>6
  <1> QED
    BY <1>5, <1>6, <1>7

LEMMA RpcStep == RpcInv /\ [BidiNext]_grpcVars => RpcInv'
  <1> SUFFICES ASSUME RpcInv, [BidiNext]_grpcVars PROVE RpcInv'
    OBVIOUS
  <1>1. CASE UNCHANGED grpcVars
    BY ZenonT(30), <1>1, ReceiversAlone DEF grpcVars, reqVars, onceVars, RpcInv
  <1>2. CASE RequestReturns \/ CloseSend
    BY ZenonT(30), <1>2, ReceiversAlone DEF RequestReturns, CloseSend, reqVars, onceVars, RpcInv
  <1>3. ASSUME NEW p \in RpcProcs, p \notin Receivers, NEW l, NEW x, callPC' = [callPC EXCEPT ![p] = l],
               out' = [out EXCEPT ![p] = x] \/ out' = out, UNCHANGED reqVars \/ (resp' = resp /\ frames' = frames),
               once' = once, connectErr' = connectErr
        PROVE  RpcInv'
    <2>1. resp' = resp /\ frames' = frames
      BY ZenonT(30), <1>3 DEF reqVars
    <2>2. /\ DOMAIN callPC' = RpcProcs /\ DOMAIN out' = RpcProcs
          /\ \A q \in Receivers : callPC'[q] = callPC[q] /\ out'[q] = out[q]
      BY <1>3 DEF RpcInv, RpcProcs
    <2> QED
      BY ZenonT(30), <1>3, <2>1, <2>2, ReceiversAlone
  <1>4. CASE CloseStart \/ CloseNext
    <2>1. Closer \in RpcProcs /\ Closer \notin Receivers
      BY GRPCAssumption DEF RpcProcs
    <2> QED
      BY ZenonT(30), <1>3, <1>4, <2>1 DEF CloseStart, CloseNext, CancelCall, CloseBody, CallGoto, Returns, onceVars
  <1>5. ASSUME NEW p \in Senders, SendCheck(p) \/ SendLock(p) \/ SendWrite(p) \/ SendFails(p) PROVE RpcInv'
    <2>1. p \in RpcProcs /\ p \notin Receivers
      BY GRPCAssumption DEF RpcProcs
    <2>2. UNCHANGED reqVars /\ once' = once /\ connectErr' = connectErr
      BY ZenonT(30), <1>5 DEF SendCheck, SendLock, SendWrite, SendFails, onceVars
    <2>3. \E l, x : callPC' = [callPC EXCEPT ![p] = l] /\ (out' = [out EXCEPT ![p] = x] \/ out' = out)
      BY ZenonT(30), <1>5 DEF SendCheck, SendLock, SendWrite, SendFails, CallGoto, Returns
    <2> QED
      BY ZenonT(30), <1>3, <2>1, <2>2, <2>3
  <1>6. ASSUME NEW p \in Receivers, RecvCheck(p) \/ RecvNext(p) \/ RecvRead(p) PROVE RpcInv'
    BY <1>6, ReceiverKeeps
  <1>7. ASSUME NEW p \in Senders \cup Receivers, OnceNext(p) PROVE RpcInv'
    <2>1. resp' = resp /\ frames' = frames /\ callPC' = callPC /\ out' = out
      BY ZenonT(30), <1>7 DEF OnceNext, EnsureEnter, EnsureRuns, reqVars
    <2>2. Passed' = Passed /\ AtEnd' = AtEnd
      BY <2>1 DEF Passed, AtEnd
    <2>3. connectErr' # "EOF" /\ (once' = "done" /\ connectErr' = "nil" => Passed)
      <3>1. CASE EnsureEnter(p)
        BY ZenonT(30), <3>1, GRPCAssumption DEF EnsureEnter, RpcInv
      <3>2. CASE EnsureRuns(p)
        <4>1. connectErr' = IF req = "err" THEN "connect failed" ELSE ValidateInitialHeaders(resp)
          BY ZenonT(30), <3>2 DEF EnsureRuns
        <4> QED
          BY ZenonT(30), <4>1, HeadersChecked DEF Passed
      <3> QED
        BY <1>7, <3>1, <3>2 DEF OnceNext
    <2> QED
      BY ZenonT(30), <2>1, <2>2, <2>3 DEF RpcInv
  <1> QED
    BY ZenonT(30), <1>1, <1>2, <1>4, <1>5, <1>6, <1>7 DEF BidiNext

\* A unary call returns nil, and the Recv of any of a bidirectional stream's
\* receivers io.EOF, only when the server reported status 0.
THEOREM SuccessIsReported == GRPCSpec => []SuccessIsStatusZero
  <1>1. BidiInit => RpcInv
    <2> SUFFICES ASSUME BidiInit PROVE RpcInv
      OBVIOUS
    <2>1. Receivers \subseteq RpcProcs /\ once # "done"
      BY GRPCAssumption DEF BidiInit, RpcProcs
    <2>2. DOMAIN callPC = RpcProcs /\ DOMAIN out = RpcProcs /\ \A p \in Receivers : callPC[p] = "idle" /\ out[p] = "none"
      BY <2>1 DEF BidiInit
    <2> QED
      BY ZenonT(30), <2>1, <2>2 DEF BidiInit, RpcInv
  <1>2. RpcInv => SuccessIsStatusZero
    <2> SUFFICES ASSUME RpcInv PROVE SuccessIsStatusZero
      OBVIOUS
    <2>1. Invoke(resp) = "nil" => ValidateResponseTrailers(resp) = "nil"
      <3>1. UnmarshalFrame(resp.frames) # "nil"
        BY ZenonT(30) DEF UnmarshalFrame
      <3> QED
        BY ZenonT(30), <3>1 DEF Invoke
    <2>2. PICK a : a = Arrived(resp, frames)
      OBVIOUS
    <2>3. AtEnd => ValidateResponseTrailers(a) = "nil"
      BY ZenonT(30), <2>2, TrailersChecked DEF AtEnd, Recv
    <2>4. Passed => resp.http = 200
      BY ZenonT(30), HeadersChecked DEF Passed
    <2> QED
      BY ZenonT(30), <2>1, <2>2, <2>3, <2>4, TrailersChecked DEF RpcInv, SuccessIsStatusZero
  <1> QED
    BY <1>1, <1>2, RpcStep, PTL DEF GRPCSpec

-----------------------------------------------------------------------------
(* WebTransport streams and dials.  headerWritten is set in the step that  *)
(* lets a writer send the header, so nobody follows it there; and the      *)
(* CONNECT stream is opened in the last step but one of a dial.            *)

StreamSpec == WTInit /\ [][WTNext]_wtVars

DialInv ==
    /\ dial \in {"quic", "control", "settings", "connect"} => str = "none"
    /\ dial = "failed" => str # "open"

HeaderInv ==
    /\ DOMAIN wpc = Writers /\ wire \in Seq({"header", "data"}) /\ headerWritten \in BOOLEAN
    /\ ~headerWritten => (\A w \in Writers : wpc[w] # "header") /\ \A i \in DOMAIN wire : wire[i] # "header"
    /\ \A v, w \in Writers : wpc[v] = "header" /\ wpc[w] = "header" => v = w
    /\ \A i \in DOMAIN wire : wire[i] = "header" => \A w \in Writers : wpc[w] # "header"
    /\ \A i, j \in DOMAIN wire : wire[i] = "header" /\ wire[j] = "header" => i = j

LEMMA DialStep == DialInv /\ [WTNext]_wtVars => DialInv'
  <1> SUFFICES ASSUME DialInv, [WTNext]_wtVars PROVE DialInv'
    OBVIOUS
  <1>1. CASE dial' = dial /\ str' = str
    BY <1>1 DEF DialInv
  <1>2. CASE DialNext
    BY ZenonT(60), <1>2 DEF DialNext, DialQuic, OpenControl, WriteSettings, OpenConnect, Handshake, HandshakeFails, DialInv
  <1>3. CASE OpenStream \/ CloseStream \/ Cancel \/ ConnLost \/ DrainSession \/ UNCHANGED wtVars
    BY ZenonT(30), <1>1, <1>3 DEF OpenStream, CloseStream, Cancel, ConnLost, DrainSession, wtVars, dialVars
  <1>4. ASSUME NEW l \in Loops, LoopNext(l) PROVE DialInv'
    BY ZenonT(30), <1>1, <1>4 DEF LoopNext, AcceptFails, dialVars
  <1>5. ASSUME NEW i \in Incoming, NEW x, PeerOpens(i, x) \/ AcceptIncoming(i) \/ HandleIncoming(i, x) PROVE DialInv'
    BY ZenonT(30), <1>1, <1>5 DEF PeerOpens, AcceptIncoming, HandleIncoming, dialVars
  <1>6. ASSUME NEW w \in Writers, WriteCheck(w) \/ WriterNext(w) PROVE DialInv'
    BY ZenonT(30), <1>1, <1>6 DEF WriteCheck, WriterNext, WriteLock, WriteAgain, RawWrite, dialVars
  <1> QED
    BY ZenonT(30), <1>2, <1>3, <1>4, <1>5, <1>6 DEF WTNext

\* A Write of the one stream, up to its raw.Write.
LEMMA WriterKeeps ==
    ASSUME HeaderInv, NEW w \in Writers, WriteCheck(w) \/ WriterNext(w)
    PROVE  HeaderInv'
  <1>1. ASSUME NEW l, l # "header", wpc' = [wpc EXCEPT ![w] = l], wire' = wire,
               headerWritten' = headerWritten \/ headerWritten' = TRUE
        PROVE  HeaderInv'
    <2>1. DOMAIN wpc' = Writers /\ wpc'[w] = l /\ \A v \in Writers : v # w => wpc'[v] = wpc[v]
      BY <1>1 DEF HeaderInv
    <2>2. \A v \in Writers : wpc'[v] = "header" => wpc[v] = "header"
      BY <1>1, <2>1
    <2>3. headerWritten' \in BOOLEAN /\ (~headerWritten' => ~headerWritten)
      <3>1. headerWritten = TRUE \/ headerWritten = FALSE
        BY DEF HeaderInv
      <3>2. headerWritten' = TRUE \/ headerWritten' = FALSE
        BY ZenonT(30), <1>1, <3>1
      <3>3. headerWritten = TRUE => headerWritten' = TRUE
        BY ZenonT(30), <1>1
      <3> QED
        BY ZenonT(30), <3>1, <3>2, <3>3
    <2> QED
      BY ZenonT(60), <1>1, <2>1, <2>2, <2>3 DEF HeaderInv
  <1>2. CASE WriteCheck(w) \/ WriteLock(w)
    <2>1. wire' = wire /\ headerWritten' = headerWritten
      BY ZenonT(30), <1>2 DEF WriteCheck, WriteLock
    <2>2. \E l \in {"ErrStreamClosed", "data", "lock", "again"} : wpc' = [wpc EXCEPT ![w] = l]
      BY ZenonT(30), <1>2 DEF WriteCheck, WriteLock, WriterGoto
    <2> QED
      BY ZenonT(30), <1>1, <2>1, <2>2
  <1>3. CASE WriteAgain(w)
    <2>1. wire' = wire /\ headerWritten' = TRUE
      BY ZenonT(30), <1>3 DEF WriteAgain
    <2>2. CASE headerWritten
      <3>1. wpc' = [wpc EXCEPT ![w] = "data"]
        BY ZenonT(30), <1>3, <2>2 DEF WriteAgain, WriterGoto
      <3> QED
        BY ZenonT(30), <1>1, <2>1, <3>1
    <2>3. CASE ~headerWritten
      <3>1. wpc' = [wpc EXCEPT ![w] = "header"]
        BY ZenonT(30), <1>3, <2>3 DEF WriteAgain, WriterGoto
      <3>2. DOMAIN wpc' = Writers /\ \A v \in Writers : v # w => wpc'[v] = wpc[v]
        BY <3>1 DEF HeaderInv
      <3> QED
        BY ZenonT(30), <2>1, <2>3, <3>2 DEF HeaderInv
    <2> QED
      BY <2>2, <2>3
  <1>4. CASE RawWrite(w)
    <2>1. headerWritten' = headerWritten /\ wpc[w] \in {"header", "data"}
      BY ZenonT(30), <1>4 DEF RawWrite
    <2>2. \/ wire' = Append(wire, wpc[w]) /\ wpc' = [wpc EXCEPT ![w] = "nil"]
          \/ wire' = wire /\ wpc' = [wpc EXCEPT ![w] = "error"]
      BY ZenonT(30), <1>4 DEF RawWrite, WriterGoto
    <2>3. CASE wire' = wire /\ wpc' = [wpc EXCEPT ![w] = "error"]
      BY ZenonT(30), <1>1, <2>1, <2>3
    <2>4. CASE wire' = Append(wire, wpc[w]) /\ wpc' = [wpc EXCEPT ![w] = "nil"]
      <3>1. DOMAIN wpc' = Writers /\ wpc'[w] = "nil" /\ \A v \in Writers : v # w => wpc'[v] = wpc[v]
        BY <2>4 DEF HeaderInv
      <3>2. PICK h \in {"header", "data"} : h = wpc[w]
        BY <2>1
      <3>3. /\ wire' \in Seq({"header", "data"}) /\ Len(wire) \in Nat /\ DOMAIN wire = 1..Len(wire)
            /\ DOMAIN wire' = 1..(Len(wire) + 1) /\ wire'[Len(wire) + 1] = h
            /\ \A i \in DOMAIN wire : wire'[i] = wire[i]
        BY <2>4, <3>2 DEF HeaderInv
      <3>4. \A i \in DOMAIN wire' : i \in DOMAIN wire \/ i = Len(wire) + 1
        BY <3>3
      <3>5. PICK n : n = Len(wire) + 1
        OBVIOUS
      <3>6. CASE h = "header"
        BY ZenonT(60), <2>1, <3>1, <3>2, <3>3, <3>4, <3>5, <3>6 DEF HeaderInv
      <3>7. CASE h = "data"
        BY ZenonT(60), <2>1, <3>1, <3>2, <3>3, <3>4, <3>5, <3>7 DEF HeaderInv
      <3> QED
        BY <3>6, <3>7
    <2> QED
      BY <2>2, <2>3, <2>4
  <1> QED
    BY <1>2, <1>3, <1>4 DEF WriterNext

LEMMA HeaderStep == HeaderInv /\ [WTNext]_wtVars => HeaderInv'
  <1> SUFFICES ASSUME HeaderInv, [WTNext]_wtVars PROVE HeaderInv'
    OBVIOUS
  <1>1. CASE wpc' = wpc /\ wire' = wire /\ headerWritten' = headerWritten
    BY ZenonT(30), <1>1 DEF HeaderInv
  <1>2. CASE DialNext
    BY ZenonT(60), <1>1, <1>2 DEF DialNext, DialQuic, OpenControl, WriteSettings, OpenConnect, Handshake, strmVars
  <1>3. CASE OpenStream \/ CloseStream \/ Cancel \/ ConnLost \/ DrainSession \/ UNCHANGED wtVars
    BY ZenonT(30), <1>1, <1>3 DEF OpenStream, CloseStream, Cancel, ConnLost, DrainSession, wtVars, strmVars
  <1>4. ASSUME NEW l \in Loops, LoopNext(l) PROVE HeaderInv'
    BY ZenonT(30), <1>1, <1>4 DEF LoopNext, AcceptFails, strmVars
  <1>5. ASSUME NEW i \in Incoming, NEW x, PeerOpens(i, x) \/ AcceptIncoming(i) \/ HandleIncoming(i, x) PROVE HeaderInv'
    BY ZenonT(30), <1>1, <1>5 DEF PeerOpens, AcceptIncoming, HandleIncoming, strmVars
  <1>6. ASSUME NEW w \in Writers, WriteCheck(w) \/ WriterNext(w) PROVE HeaderInv'
    BY <1>6, WriterKeeps
  <1> QED
    BY ZenonT(30), <1>2, <1>3, <1>4, <1>5, <1>6 DEF WTNext

\* Any number of concurrent Write calls send a stream's header at most once, and
\* a dial that fails after it opened the CONNECT stream has closed it.
THEOREM StreamsAreSound == StreamSpec => []WebTransportSound
  <1>1. WTInit => DialInv /\ HeaderInv
    <2> SUFFICES ASSUME WTInit PROVE DialInv /\ HeaderInv
      OBVIOUS
    <2>1. wire \in Seq({"header", "data"}) /\ DOMAIN wire = {}
      BY DEF WTInit
    <2>2. DOMAIN wpc = Writers /\ \A w \in Writers : wpc[w] = "idle"
      BY DEF WTInit
    <2> QED
      BY ZenonT(30), <2>1, <2>2 DEF WTInit, DialInv, HeaderInv
  <1>2. DialInv /\ HeaderInv => WebTransportSound
    <2> SUFFICES ASSUME DialInv, HeaderInv PROVE WebTransportSound
      BY Zenon
    <2>1. HeaderOnce
      BY ZenonT(30) DEF HeaderInv, HeaderOnce
    <2> QED
      BY <2>1 DEF DialInv, WebTransportSound, FailedDialClosesRequest
  <1> QED
    BY <1>1, <1>2, DialStep, HeaderStep, PTL DEF StreamSpec
=============================================================================
