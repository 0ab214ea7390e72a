--------------------------- MODULE ConnectionSlot ---------------------------
(***************************************************************************)
(* What a connector promises about its connections, without its locks,     *)
(* flags and goroutines: connections come to life one by one; a slot holds *)
(* at most one of them, the current one; a connection that takes the slot  *)
(* retires the one before it in the same step; the current connection is   *)
(* never closed while it is in the slot; and a connection outside the slot *)
(* either gets into it or is closed.                                       *)
(***************************************************************************)
CONSTANTS Conns, NoConn

VARIABLES
    slot,  \* the current connection or NoConn
    live   \* the connections that are not closed

vars == <<slot, live>>

Init == slot = NoConn /\ live = {}

Dial(c) == c \notin live /\ live' = live \cup {c} /\ UNCHANGED slot

Enter(c) == c \in live /\ c # slot /\ slot' = c /\ live' = live \ {slot}

Leave == slot # NoConn /\ slot' = NoConn /\ UNCHANGED live

Retire(c) == c \in live /\ c # slot /\ live' = live \ {c} /\ UNCHANGED slot

Next == Leave \/ \E c \in Conns : Dial(c) \/ Enter(c) \/ Retire(c)

Safety == Init /\ [][Next]_vars

Spec == Safety /\ \A c \in Conns : WF_vars(Enter(c) \/ Retire(c))
=============================================================================
