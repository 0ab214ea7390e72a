----------------------------- MODULE SIOTraffic -----------------------------
(***************************************************************************)
(* The traffic of a Socket.IO session: Emit and EmitWithAck of             *)
(* src/socketio/client.go, the dispatch of packets in                      *)
(* src/socketio/engineio.go and the reassembly of binary events in         *)
(* src/socketio/packet.go, over a connection that drops and comes back.    *)
(*                                                                         *)
(* The server is external: it answers what it has read in full, and writes *)
(* a binary event's header and attachments one after the other.            *)
(***************************************************************************)
EXTENDS Naturals, Sequences, FiniteSets

LOCAL INSTANCE Functions

CONSTANTS
    Emitters,   \* goroutines that call EmitWithAck once each
    Binary,     \* those whose arguments hold two buffers
    Events,     \* the server's binary events
    Sizes,      \* per event: the sizes of its attachments
    MaxBinaryBufferSize,
    MaxDrops,   \* bound: how often the connection is lost
    NoEvent       \* s.binaryBuf is nil

VARIABLES
    open,       \* s.state is open and the connection is up
    drops,
    sent,       \* history: the packets written, in order
    acks,       \* the ids with a job in s.ackMgr
    expired,    \* the ids whose job has timed out
    chan,       \* the emitters whose result channel is full
    epc,        \* per emitter: its step, then what the call returned
    answered,   \* the ids the server has acknowledged
    arrived,    \* history: the ids whose ack was read while the call and its
                \* job waited
    toClient,   \* packets on their way from the server
    binaryBuf,  \* the event under reassembly
    dispatched  \* history: the events given to handlers, with their buffers

ASSUME TrafficAssumption == Sizes \in [Events -> Seq(Nat)]

emitVars == <<sent, acks, expired, chan, epc>>
arrivalVars == <<arrived, binaryBuf, dispatched>>
trafficVars == <<open, drops, emitVars, answered, toClient, arrivalVars>>

TrafficInit ==
    /\ open = TRUE /\ drops = 0 /\ sent = <<>> /\ acks = {} /\ expired = {} /\ chan = {}
    /\ epc = [e \in Emitters |-> "idle"]
    /\ answered = {} /\ arrived = {} /\ toClient = <<>>
    /\ binaryBuf = NoEvent /\ dispatched = {}

Goto(e, l) == epc' = [epc EXCEPT ![e] = l]

---------------------------------------------------------------------------
(* emitWithAckNS: the state check, the job, the writes, the wait.          *)

EmitWithAck(e) ==
    /\ epc[e] = "idle"
    /\ Goto(e, IF open THEN "register" ELSE "ErrNotConnected")
    /\ UNCHANGED <<open, drops, sent, acks, expired, chan, answered, toClient, arrivalVars>>

RegisterAckJobMut(e) ==
    /\ epc[e] = "register" /\ Goto(e, "write")
    /\ UNCHANGED <<open, drops, sent, acks, expired, chan, answered, toClient, arrivalVars>>
RegisterAckJob(e) ==
    /\ epc[e] = "register" /\ Goto(e, "write")
    /\ acks' = acks \cup {e}
    /\ UNCHANGED <<open, drops, sent, expired, chan, answered, toClient, arrivalVars>>

\* Each packet is one writeEIOPacket under writeMu; a binary event takes three.
NextStep(l) == CASE l = "write" -> "first" [] l = "first" -> "second" [] l = "second" -> "wait"
Write(e) ==
    /\ epc[e] \in {"write", "first", "second"}
    /\ IF open
         THEN /\ sent' = Append(sent, [by |-> e, part |-> epc[e]])
              /\ Goto(e, IF e \in Binary THEN NextStep(epc[e]) ELSE "wait")
         ELSE Goto(e, "writeError") /\ UNCHANGED sent
    /\ UNCHANGED <<open, drops, acks, expired, chan, answered, toClient, arrivalVars>>

\* The select: the result, or ctx, s.closed or the timer.
EmitReturns(e) ==
    /\ epc[e] = "wait"
    /\ \/ e \in chan /\ Goto(e, "result") /\ chan' = chan \ {e}
       \/ Goto(e, "gaveUp") /\ UNCHANGED chan
    /\ UNCHANGED <<open, drops, sent, acks, expired, answered, toClient, arrivalVars>>

\* The 30 s of the job run from its registration, those of the select from
\* the end of the writes; an expired job does not call the function.
JobExpires(e) ==
    /\ e \in acks
    /\ acks' = acks \ {e} /\ expired' = expired \cup {e}
    /\ UNCHANGED <<open, drops, sent, chan, epc, answered, toClient, arrivalVars>>

---------------------------------------------------------------------------
(* The server and the network. *)

ServerAcks(e) ==
    /\ open /\ e \notin answered
    /\ \E i \in DOMAIN sent :
         sent[i] = [by |-> e, part |-> IF e \in Binary THEN "second" ELSE "write"]
    /\ answered' = answered \cup {e}
    /\ toClient' = Append(toClient, [t |-> "ack", id |-> e])
    /\ UNCHANGED <<open, drops, emitVars, arrivalVars>>

ServerSends(ev) ==
    /\ open /\ toClient = <<>>
    /\ \A d \in dispatched : d.ev # ev
    /\ toClient' = Append(toClient, [t |-> "header", ev |-> ev])
                     \o [i \in 1..Len(Sizes[ev]) |-> [t |-> "att", ev |-> ev, num |-> i]]
    /\ UNCHANGED <<open, drops, emitVars, answered, arrivalVars>>

\* What was under way is lost; s.binaryBuf and the jobs are not touched.
Drop ==
    /\ open /\ drops < MaxDrops
    /\ open' = FALSE /\ drops' = drops + 1 /\ toClient' = <<>>
    /\ UNCHANGED <<emitVars, answered, arrivalVars>>

Reconnect ==
    /\ ~open /\ open' = TRUE
    /\ UNCHANGED <<drops, emitVars, answered, toClient, arrivalVars>>

---------------------------------------------------------------------------
(* readLoop: one packet at a time. *)

Sum(s) == FoldFunction(LAMBDA x, y : x + y, 0, s)

\* handleAck resolves the job of the id, whose function fills the channel.
HandleAck(e) ==
    /\ arrived' = IF epc[e] = "wait" /\ e \notin expired THEN arrived \cup {e} ELSE arrived
    /\ IF e \in acks THEN acks' = acks \ {e} /\ chan' = chan \cup {e} ELSE UNCHANGED <<acks, chan>>
    /\ UNCHANGED <<binaryBuf, dispatched>>

\* A binary header replaces what was under reassembly.
NewBinaryReconstructorMut(ev) ==
    IF binaryBuf # NoEvent THEN binaryBuf ELSE [ev |-> ev, need |-> Len(Sizes[ev]), got |-> <<>>]
NewBinaryReconstructor(ev) == [ev |-> ev, need |-> Len(Sizes[ev]), got |-> <<>>]

\* addBuffer is done when the sizes exceed the limit or enough have come;
\* reconstruct then refuses a wrong number.
AddBuffer(p) == [binaryBuf EXCEPT !.got = Append(@, p)]
Done(b) ==
    \/ Sum([i \in DOMAIN b.got |-> Sizes[b.got[i].ev][b.got[i].num]]) > MaxBinaryBufferSize
    \/ Len(b.got) >= b.need
Reconstruct(b) == IF Len(b.got) = b.need THEN {[ev |-> b.ev, buffers |-> b.got]} ELSE {}

Attachment(p) ==
    /\ IF binaryBuf = NoEvent THEN UNCHANGED <<binaryBuf, dispatched>>
       ELSE LET b == AddBuffer(p)
            IN  IF Done(b)
                  THEN binaryBuf' = NoEvent /\ dispatched' = dispatched \cup Reconstruct(b)
                  ELSE binaryBuf' = b /\ UNCHANGED dispatched
    /\ UNCHANGED <<acks, chan, arrived>>

HandlePacket ==
    /\ open /\ toClient # <<>>
    /\ toClient' = Tail(toClient)
    /\ LET p == Head(toClient)
       IN  CASE p.t = "ack" -> HandleAck(p.id)
             [] p.t = "header" -> /\ binaryBuf' = NewBinaryReconstructor(p.ev)
                                  /\ UNCHANGED <<acks, chan, arrived, dispatched>>
             [] OTHER -> Attachment([ev |-> p.ev, num |-> p.num])
    /\ UNCHANGED <<open, drops, sent, expired, epc, answered>>

---------------------------------------------------------------------------

TrafficNext ==
    \/ Drop \/ Reconnect \/ HandlePacket
    \/ \E ev \in Events : ServerSends(ev)
    \/ \E e \in Emitters : EmitWithAck(e) \/ RegisterAckJob(e) \/ Write(e) \/ EmitReturns(e)
                             \/ JobExpires(e) \/ ServerAcks(e)

---------------------------------------------------------------------------
(* Properties. *)

\* An ack read while its EmitWithAck and the job of 30 s wait reaches that
\* call: the job was registered before the first byte went out, and a lost
\* connection leaves it in place, so the result stays in the channel until the
\* call takes it.
AckReachesCaller == \A e \in arrived : e \in chan \/ epc[e] \in {"result", "gaveUp"}

\* A handler is given a binary event with all of its own attachments, in the
\* order the server numbered them, although reassembly state survives a lost
\* connection and attachments over the size limit end it early.
EventIntact ==
    \A d \in dispatched :
        d.buffers = [i \in 1..Len(Sizes[d.ev]) |-> [ev |-> d.ev, num |-> i]]

\* The packets of one binary event are written with nothing between them, as
\* the reassembly at the other end requires.  Two emitters break this: header
\* and attachments are separate writes and writeMu covers one of them at a time.
BinaryContiguous ==
    \A i \in DOMAIN sent : sent[i].part = "second" =>
        i > 2 /\ sent[i-1] = [by |-> sent[i].by, part |-> "first"]
=============================================================================
