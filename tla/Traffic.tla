------------------------------- MODULE Traffic -------------------------------
(***************************************************************************)
(* What is put together again at the receiving end: the acks and binary    *)
(* events of a Socket.IO session, and the blocks of the datagram wrapper.  *)
(* The two share no state.                                                 *)
(***************************************************************************)
EXTENDS SIOTraffic, Raptor

\* An ack that is read while its EmitWithAck waits reaches that call, a binary
\* event its handlers with its own attachments, and a repair symbol protects the
\* payloads its sequence number stands for.
TrafficIntact == AckReachesCaller /\ EventIntact /\ RepairNamesItsBlock
=============================================================================
