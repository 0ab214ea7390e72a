---------------------------- MODULE WebTransport ----------------------------
(***************************************************************************)
(* A WebTransport session: src/webtransport/session.go, fed by the         *)
(* goroutines of StartConnectionDispatcher in src/webtransport/dial.go.    *)
(*                                                                         *)
(* Every incoming stream has a goroutine that delivers it with             *)
(* EnqueueBidiStream or EnqueueUniStream, holding s.mu for reading while   *)
(* it waits for room in the channel.  controlLoop reads capsules, and      *)
(* several goroutines may call CloseWithError: the application's, the      *)
(* dispatcher's cleanup, and controlLoop itself.                           *)
(*                                                                         *)
(* s.mu prefers writers as sync.RWMutex does: once a writer has called     *)
(* Lock no new reader enters.  Stream identities are used again once the   *)
(* stream was accepted or closed.                                          *)
(*                                                                         *)
(* An operator XMut is a wrong variant of X; nothing refers to it.  The    *)
(* mutation tests put it in the place of X and expect a property to fail.  *)
(***************************************************************************)
EXTENDS Naturals, FiniteSets

CONSTANTS
    Bidi, Uni,       \* identities of incoming streams of either kind
    SessionClosers,         \* goroutines outside the session that call CloseWithError
    Control,         \* the controlLoop goroutine
    Codes,           \* the errors CloseWithError is called with
    NoCode,          \* SessionError{0, ""}, the error of Close()
    PeerCode,        \* the error in the peer's CLOSE capsule
    NoErr,           \* closeErr is nil
    QueueCap,        \* capacity of bidiStreams and of uniStreams (256 in the code)
    DatagramCap      \* capacity of datagrams (1024 in the code)

ASSUME WebTransportAssumption ==
    /\ Bidi \cap Uni = {}
    /\ Control \notin SessionClosers
    /\ NoErr \notin Codes \cup {NoCode, PeerCode}
    /\ QueueCap \in Nat \ {0} /\ DatagramCap \in Nat \ {0}

Streams == Bidi \cup Uni
Procs   == SessionClosers \cup {Control}
Errors  == Codes \cup {NoCode, PeerCode}

VARIABLES
    closed,      \* s.closed
    draining,    \* s.draining
    done,        \* s.ctx is cancelled
    closeErr,    \* s.closeErr
    chanClosed,  \* the three channels are closed
    bidi, uni,   \* the streams in the two channels
    datagrams,   \* number of datagrams in their channel
    handler,     \* where the goroutine of each incoming stream is
    waiting,     \* goroutines that have called s.mu.Lock()
    pc,          \* where each closer and controlLoop are
    code,        \* the error a running CloseWithError was called with
    control      \* the control stream: "open" or "closed" by us

flags  == <<closed, draining, done>>
queues == <<bidi, uni, datagrams, handler>>
procs  == <<pc, code>>
sessionVars   == <<flags, queues, procs, closeErr, chanClosed, waiting, control>>

HandlerLabels == {"none", "deliver", "select"}
CloserLabels  == {"idle", "lock", "wait", "cancel", "send"}
ControlLabels == {"read", "peerlock", "peerwait", "close", "gone"}

Goto(p, label) == pc' = [pc EXCEPT ![p] = label]

\* The goroutines that hold s.mu for reading.
ReadersMut == {}
Readers == {s \in Streams : handler[s] = "select"}

-----------------------------------------------------------------------------
(* Incoming streams and datagrams.                                         *)

Queued == bidi \cup uni

\* The dispatcher accepts a stream of this session.
Arrive(s) ==
    /\ handler[s] = "none" /\ s \notin Queued
    /\ handler' = [handler EXCEPT ![s] = "deliver"]
    /\ UNCHANGED <<flags, bidi, uni, datagrams, procs, closeErr, chanClosed,
                   waiting, control>>

\* RLock and the closed check; a stream for a closed session is closed.
Enqueue(s) ==
    /\ handler[s] = "deliver"
    /\ waiting = {}
    /\ handler' = [handler EXCEPT ![s] = IF closed THEN "none" ELSE "select"]
    /\ UNCHANGED <<flags, bidi, uni, datagrams, procs, closeErr, chanClosed,
                   waiting, control>>

HasRoomMut(queue) == Cardinality(queue) + 1 < QueueCap
HasRoom(queue) == Cardinality(queue) < QueueCap

\* The select, then RUnlock: into the channel, or the context ended and the
\* stream is closed.
EnqueueBidiStream(s) ==
    /\ handler[s] = "select" /\ s \in Bidi
    /\ HasRoom(bidi)
    /\ bidi' = bidi \cup {s}
    /\ handler' = [handler EXCEPT ![s] = "none"]
    /\ UNCHANGED <<flags, uni, datagrams, procs, closeErr, chanClosed, waiting, control>>

EnqueueUniStream(s) ==
    /\ handler[s] = "select" /\ s \in Uni
    /\ HasRoom(uni)
    /\ uni' = uni \cup {s}
    /\ handler' = [handler EXCEPT ![s] = "none"]
    /\ UNCHANGED <<flags, bidi, datagrams, procs, closeErr, chanClosed, waiting, control>>

AbandonedMut == FALSE
Abandoned == done

EnqueueCancelled(s) ==
    /\ handler[s] = "select"
    /\ Abandoned
    /\ handler' = [handler EXCEPT ![s] = "none"]
    /\ UNCHANGED <<flags, bidi, uni, datagrams, procs, closeErr, chanClosed,
                   waiting, control>>

DatagramRoomMut == datagrams <= DatagramCap
DatagramRoom == datagrams < DatagramCap

\* A datagram is dropped when the session is closed or the channel is full.
EnqueueDatagram ==
    /\ waiting = {} /\ ~closed
    /\ DatagramRoom
    /\ datagrams' = datagrams + 1
    /\ UNCHANGED <<flags, bidi, uni, handler, procs, closeErr, chanClosed,
                   waiting, control>>

\* The application receives; a closed channel still yields what it holds.
AcceptStream(s) ==
    /\ s \in bidi
    /\ bidi' = bidi \ {s}
    /\ UNCHANGED <<flags, uni, datagrams, handler, procs, closeErr, chanClosed,
                   waiting, control>>

AcceptUniStream(s) ==
    /\ s \in uni
    /\ uni' = uni \ {s}
    /\ UNCHANGED <<flags, bidi, datagrams, handler, procs, closeErr, chanClosed,
                   waiting, control>>

ReceiveDatagram ==
    /\ datagrams > 0
    /\ datagrams' = datagrams - 1
    /\ UNCHANGED <<flags, bidi, uni, handler, procs, closeErr, chanClosed,
                   waiting, control>>

-----------------------------------------------------------------------------
(* CloseWithError, run by a closer or by controlLoop.                      *)

\* The compare-and-swap of closed succeeds.
MayCloseMut == TRUE
MayClose == ~closed

CloseWithError(p, e) ==
    /\ MayClose
    /\ closed' = TRUE
    /\ code' = [code EXCEPT ![p] = e]
    /\ Goto(p, "lock")
    /\ UNCHANGED <<draining, done, queues, closeErr, chanClosed, waiting, control>>

CloserClose(p) == pc[p] = "idle" /\ \E e \in Codes \cup {NoCode} : CloseWithError(p, e)

\* s.mu.Lock() is called: from here on no reader enters.
CloseLock(p) ==
    /\ pc[p] = "lock"
    /\ waiting' = waiting \cup {p}
    /\ Goto(p, "wait")
    /\ UNCHANGED <<flags, queues, code, closeErr, chanClosed, control>>

\* The readers have left: the critical section.
CloseChannels(p) ==
    /\ pc[p] = "wait"
    /\ Readers = {}
    /\ closeErr' = code[p]
    /\ chanClosed' = TRUE
    /\ waiting' = waiting \ {p}
    /\ Goto(p, "cancel")
    /\ UNCHANGED <<flags, queues, code, control>>

CancelledMut == done
Cancelled == TRUE

CloseCancel(p) ==
    /\ pc[p] = "cancel"
    /\ done' = Cancelled
    /\ Goto(p, "send")
    /\ UNCHANGED <<closed, draining, queues, code, closeErr, chanClosed, waiting, control>>

\* The goroutine that writes the capsule and closes the control stream.
CloseControlMut == UNCHANGED control
CloseControl == control' = "closed"

CloseReturn(p) ==
    /\ pc[p] = "send"
    /\ CloseControl
    /\ Goto(p, IF p = Control THEN "gone" ELSE "idle")
    /\ UNCHANGED <<flags, queues, code, closeErr, chanClosed, waiting>>

-----------------------------------------------------------------------------
(* controlLoop.                                                            *)

\* The read fails or the capsule is malformed: only the context ends.
ControlEnd ==
    /\ pc[Control] = "read"
    /\ done' = TRUE
    /\ Goto(Control, "gone")
    /\ UNCHANGED <<closed, draining, queues, code, closeErr, chanClosed, waiting, control>>

ControlDrain ==
    /\ pc[Control] = "read" /\ control = "open"
    /\ draining' = TRUE
    /\ UNCHANGED <<closed, done, queues, procs, closeErr, chanClosed, waiting, control>>

\* A CLOSE capsule whose payload decodes, or does not.
ControlClose ==
    /\ pc[Control] = "read" /\ control = "open"
    /\ Goto(Control, "peerlock") \/ Goto(Control, "close")
    /\ UNCHANGED <<flags, queues, code, closeErr, chanClosed, waiting, control>>

PeerLock ==
    /\ pc[Control] = "peerlock"
    /\ waiting' = waiting \cup {Control}
    /\ Goto(Control, "peerwait")
    /\ UNCHANGED <<flags, queues, code, closeErr, chanClosed, control>>

PeerError ==
    /\ pc[Control] = "peerwait"
    /\ Readers = {}
    /\ closeErr' = PeerCode
    /\ waiting' = waiting \ {Control}
    /\ Goto(Control, "close")
    /\ UNCHANGED <<flags, queues, code, chanClosed, control>>

\* s.Close(), which does nothing on a closed session.
ControlCloses ==
    /\ pc[Control] = "close"
    /\ \/ CloseWithError(Control, NoCode)
       \/ /\ closed
          /\ Goto(Control, "gone")
          /\ UNCHANGED <<flags, queues, code, closeErr, chanClosed, waiting, control>>

\* The context the session was created with ends.
ParentDone ==
    /\ ~done
    /\ done' = TRUE
    /\ UNCHANGED <<closed, draining, queues, procs, closeErr, chanClosed, waiting, control>>

\* Drain by the application; the capsule it writes is not modelled.
Drain ==
    /\ ~closed /\ ~draining
    /\ draining' = TRUE
    /\ UNCHANGED <<closed, done, queues, procs, closeErr, chanClosed, waiting, control>>

-----------------------------------------------------------------------------
SessionInit ==
    /\ closed = FALSE /\ draining = FALSE /\ done = FALSE
    /\ closeErr = NoErr /\ chanClosed = FALSE
    /\ bidi = {} /\ uni = {} /\ datagrams = 0
    /\ handler = [s \in Streams |-> "none"]
    /\ waiting = {}
    /\ pc = [p \in Procs |-> IF p = Control THEN "read" ELSE "idle"]
    /\ code = [p \in Procs |-> NoCode]
    /\ control = "open"

Deliver(s) == Enqueue(s) \/ EnqueueBidiStream(s) \/ EnqueueUniStream(s) \/ EnqueueCancelled(s)
Finish(p)  == CloseLock(p) \/ CloseChannels(p) \/ CloseCancel(p) \/ CloseReturn(p)
ControlOn  == PeerLock \/ PeerError \/ ControlCloses
Receive    == (\E s \in Streams : AcceptStream(s) \/ AcceptUniStream(s)) \/ ReceiveDatagram

SessionNext ==
    \/ \E s \in Streams : Arrive(s) \/ Deliver(s)
    \/ \E p \in Procs : Finish(p)
    \/ \E p \in SessionClosers : CloserClose(p)
    \/ ControlEnd \/ ControlDrain \/ ControlClose \/ ControlOn
    \/ EnqueueDatagram \/ Receive \/ ParentDone \/ Drain

SessionSpec == SessionInit /\ [][SessionNext]_sessionVars

\* Goroutines that can take a step eventually do; a select whose branches stay
\* ready takes one; a read on a control stream we closed returns.  Nothing is
\* assumed of the peer, and nothing of the application: it may never accept.
SessionFairSpec ==
    /\ SessionSpec
    /\ \A s \in Streams : WF_sessionVars(Deliver(s))
    /\ \A p \in Procs : WF_sessionVars(Finish(p))
    /\ WF_sessionVars(ControlOn) /\ WF_sessionVars(ControlEnd /\ control = "closed")

-----------------------------------------------------------------------------
(* Properties.                                                             *)

SessionTypeOK ==
    /\ closed \in BOOLEAN /\ draining \in BOOLEAN /\ done \in BOOLEAN
    /\ closeErr \in Errors \cup {NoErr} /\ chanClosed \in BOOLEAN
    /\ bidi \in SUBSET Bidi /\ uni \in SUBSET Uni /\ datagrams \in 0..DatagramCap
    /\ handler \in [Streams -> HandlerLabels]
    /\ waiting \in SUBSET Procs
    /\ pc \in [Procs -> CloserLabels \cup ControlLabels]
    /\ \A p \in SessionClosers : pc[p] \in CloserLabels
    /\ code \in [Procs -> Errors]
    /\ control \in {"open", "closed"}

\* Nobody sends on a closed channel, which would panic: while a goroutine is
\* in the select of EnqueueBidiStream or EnqueueUniStream the channels are
\* open, although its closed check may be long past.
NoSendOnClosed == \A s \in Streams : handler[s] = "select" => ~chanClosed

\* Closing(p): p is between the compare-and-swap of closed and the cancel.
Closing(p) == pc[p] \in {"lock", "wait", "cancel"}

\* The channels are closed once, and then all of the session is closed: of
\* all the goroutines that close it one gets past the compare-and-swap, and
\* when it is through, accepters find the channels closed, the context ended
\* and an error to return.
CloseOnce ==
    /\ \A p, q \in Procs : Closing(p) /\ Closing(q) => p = q
    /\ \A p \in Procs : pc[p] \in {"lock", "wait"} => ~chanClosed
    /\ closed /\ (\A p \in Procs : ~Closing(p)) => chanClosed /\ done /\ closeErr # NoErr

\* The only thing Close can wait for is room in a channel: a Close that is
\* under way gets past its lock unless the application lets a channel fill up.
CloseWaitsForRoom ==
    \A p \in Procs :
        pc[p] = "lock" ~> \/ pc[p] \notin {"lock", "wait"}
                          \/ QueueCap \in {Cardinality(bidi), Cardinality(uni)}

\* When the context has ended no goroutine stays blocked on a full channel
\* that nobody reads any more.
DeliveriesEnd ==
    \A s \in Streams : done /\ handler[s] = "select" ~> handler[s] # "select"

\* A Close that gets past its lock also ends controlLoop, by closing the
\* control stream under its read.
ControlLoopEnds == chanClosed ~> pc[Control] = "gone"

\* A closed session lets go of its own goroutines.
SessionGoroutinesEnd == DeliveriesEnd /\ ControlLoopEnds
=============================================================================
