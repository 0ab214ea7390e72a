------------------------------- MODULE Raptor -------------------------------
(***************************************************************************)
(* The forward-error-correcting datagram wrapper, src/raptor/wrapper.go:   *)
(* SendDatagram with its block and repair symbols, a lossy and reordering  *)
(* network, readLoop and ReceiveDatagram.  The coder is external: a repair *)
(* symbol stands for the block it was made from, and a decoder that has    *)
(* all of a block but one recovers that one.                               *)
(***************************************************************************)
EXTENDS Naturals, Sequences, FiniteSets

CONSTANTS
    N,          \* raptor.N, the symbols of a block
    MaxDatagrams,   \* bound: the datagrams the application sends, 1, 2, ...
    ChanCap     \* capacity of recvChan

VARIABLES
    sendSeq, block,
    accepted,   \* history: the payloads SendDatagram took, in order
    net,        \* datagrams under way
    fed,        \* what readLoop has given the decoder
    holding,    \* the datagram readLoop is about to put into recvChan
    recvChan, recovered, errChan,
    reader      \* readLoop: "run" or "gone"

ASSUME RaptorAssumption == N \in Nat \ {0}

datagramVars == <<sendSeq, block, accepted>>
loopVars == <<fed, holding, reader>>
chanVars == <<recvChan, recovered, errChan>>
raptorVars == <<datagramVars, net, loopVars, chanVars>>

Nothing == {}

RaptorInit ==
    /\ sendSeq = 0 /\ block = <<>> /\ accepted = <<>> /\ net = {} /\ fed = {}
    /\ holding = Nothing /\ recvChan = <<>> /\ recovered = {} /\ errChan = FALSE
    /\ reader = "run"

DataSymbol(seq, p) == [repair |-> FALSE, seq |-> seq, data |-> <<p>>]
RepairSymbol(seq, b) == [repair |-> TRUE, seq |-> seq, data |-> b]

---------------------------------------------------------------------------
(* SendDatagram, under sendMu. *)

\* A datagram the transport refuses counts for nothing.
UnsentMut(seq) == seq + 1
Unsent(seq) == seq

\* The block a taken payload leads to, and the repair symbol of a full one.
SendDatagram(p, ok, lost, lostRepair) ==
    /\ p = Len(accepted) + 1
    /\ IF ~ok THEN sendSeq' = Unsent(sendSeq) /\ UNCHANGED <<block, accepted, net>>
       ELSE LET b == Append(block, p)
                sent == IF lost THEN {} ELSE {DataSymbol(sendSeq, p)}
            IN  /\ sendSeq' = sendSeq + 1
                /\ accepted' = Append(accepted, p)
                /\ block' = IF Len(b) = N THEN <<>> ELSE b
                /\ net' = net \cup sent \cup
                     IF Len(b) = N /\ ~lostRepair THEN {RepairSymbol(sendSeq + 1, b)} ELSE {}
    /\ UNCHANGED <<loopVars, chanVars>>

---------------------------------------------------------------------------
(* readLoop. *)

\* A data datagram goes to recvChan first, and blocks there when it is full.
TakeDatagram(d) ==
    /\ reader = "run" /\ holding = Nothing
    /\ net' = net \ {d}
    /\ IF d.repair THEN fed' = fed \cup {d} /\ UNCHANGED holding
                   ELSE holding' = {d} /\ UNCHANGED fed
    /\ UNCHANGED <<datagramVars, reader, chanVars>>

Pass ==
    /\ holding # Nothing /\ Len(recvChan) < ChanCap
    /\ \E d \in holding : recvChan' = Append(recvChan, d.data[1])
    /\ fed' = fed \cup holding
    /\ holding' = Nothing
    /\ UNCHANGED <<datagramVars, net, reader, recovered, errChan>>

TransportFails ==
    /\ reader = "run" /\ holding = Nothing
    /\ reader' = "gone" /\ errChan' = TRUE
    /\ UNCHANGED <<datagramVars, net, fed, holding, recvChan, recovered>>

\* The decoder (external): the symbols of the block before seq.
Missing(r) == {i \in 1..N : DataSymbol(r.seq - N + i - 1, r.data[i]) \notin fed}
Decode(r) ==
    /\ r \in fed /\ r.repair /\ Cardinality(Missing(r)) = 1
    /\ LET i == CHOOSE j \in Missing(r) : TRUE
       IN  /\ recovered' = recovered \cup {r.data[i]}
           /\ fed' = (fed \ {r}) \cup {DataSymbol(r.seq - N + i - 1, r.data[i])}
    /\ UNCHANGED <<datagramVars, net, holding, reader, recvChan, errChan>>

---------------------------------------------------------------------------
(* ReceiveDatagram: whichever channel is ready. *)

ReceiveDatagram ==
    /\ \/ recvChan # <<>> /\ recvChan' = Tail(recvChan) /\ UNCHANGED <<recovered, errChan>>
       \/ \E p \in recovered : recovered' = recovered \ {p} /\ UNCHANGED <<recvChan, errChan>>
       \/ errChan /\ errChan' = FALSE /\ UNCHANGED <<recvChan, recovered>>
    /\ UNCHANGED <<datagramVars, net, loopVars>>

---------------------------------------------------------------------------

RaptorNext ==
    \/ Pass \/ TransportFails \/ ReceiveDatagram
    \/ \E p \in 1..MaxDatagrams, ok, lost, lostRepair \in BOOLEAN : SendDatagram(p, ok, lost, lostRepair)
    \/ \E d \in net : TakeDatagram(d)
    \/ \E r \in fed : Decode(r)

---------------------------------------------------------------------------
(* Properties. *)

\* A repair symbol with sequence number s protects exactly the N payloads that
\* went out as s-N .. s-1, also when sends failed in between: this is what the
\* receiver's decoder relies on to put a lost datagram back in its place.
RepairNamesItsBlock ==
    \A d \in net \cup fed : d.repair =>
        \A i \in 1..N : /\ d.seq - N + i \in DOMAIN accepted
                         /\ accepted[d.seq - N + i] = d.data[i]
=============================================================================
