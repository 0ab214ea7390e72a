---------------------------- MODULE MCConnector ----------------------------
(* Instances of Connector for TLC. *)
EXTENDS Connector, TLC

\* Identities are only compared: permuting any of the pools is sound.
Symmetry == Permutations(Callers) \cup Permutations(Loops) \cup Permutations(Conns)

-----------------------------------------------------------------------------
(* An application that connects once and then leaves the rest to the       *)
(* connector.                                                              *)

ConnectOnce ==
    \/ \E p \in Callers, e \in Endpoints :
           CallConnect(p, e) /\ target[p] = ZeroEndpoint /\ e # ZeroEndpoint
    \/ \E p \in Callers : Finish(p)
    \/ \E l \in Loops : ReconnectLoop(l) \/ Connect(l)
    \/ \E c \in Conns : ReadLoop(c)
    \/ Consume

SpecConnectOnce == Init /\ [][ConnectOnce]_vars

\* The connector "maintains active socket connection states and executes
\* automatic reconnections on transport failures": once a first connection
\* was established, and without a limit on the attempts, there is a current
\* connection or some goroutine that is on its way to one.
NeverStranded ==
    lastEndpoint # ZeroEndpoint /\ ~closed =>
        \/ conn # NoConn
        \/ \E p \in Callers : pc[p] # "idle"
        \/ \E l \in Loops : pc[l] # "free"
        \/ \E c \in Conns : rl[c] # "none"

\* Known not to hold: WaitForConnection returns "[ErrDisconnected] if the dial
\* fails without connection" (connector.go:268): a waiter about to return it, having read isConnecting as
\* false, is not returning it while the connector is connected.
WaitErrorIsTruthful ==
    \A p \in Callers : pc[p] = "recheck" /\ ~isConnecting => ~IsConnected
=============================================================================
