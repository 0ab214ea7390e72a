----------------------------- MODULE MCSocketIO -----------------------------
(* Instances of SocketIO for TLC. *)
EXTENDS SocketIO, TLC

\* Identities are only compared: permuting any of the pools is sound.
Symmetry == Permutations(Closers) \cup Permutations(Beats) \cup Permutations(Conns)

-----------------------------------------------------------------------------
\* Known not to hold: "Close closes the Socket.IO session cleanly without
\* triggering auto-reconnections" (client.go:269): when a Close that took effect has returned, the
\* session is not reading from an open connection.
CloseIsFinal == "returned" \in closes => ~(main = "read" /\ ws \in open)

\* Known not to hold: the tests wait for the "ping timeout reconnection"
\* (socketio_test.go:1448): with reconnection
\* enabled, no limit on the attempts and no Close, the session does not end.
PingTimeoutReconnects == main = "gone" => skip
=============================================================================
