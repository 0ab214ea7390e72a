------------------------------- MODULE Wintun -------------------------------
(***************************************************************************)
(* The Windows TUN adapter, src/tunnel/tun/tun_windows.go: readers and     *)
(* writers of the ring buffer and a Close that ends the session and the    *)
(* adapter without waiting for them.  wintun.dll is external.              *)
(***************************************************************************)
EXTENDS Naturals, FiniteSets

CONSTANTS Readers, Writers, Packets, None

VARIABLES
    adapter,   \* the adapter handle: "none", "open" or "closed"
    session,   \* the session handle: "none", "live" or "ended"
    closed,
    ring,      \* received packets waiting in the ring
    held,      \* per reader: the ring slice it has not released
    rpc,       \* per reader: its step in Read
    wpc,       \* per writer: its step in SendPacket
    cpc,       \* the step of Close
    late       \* history: a call of the dll was given an ended session

tunVars == <<adapter, session, closed, ring, held, rpc, wpc, cpc, late>>

WintunInit ==
    /\ adapter = "none" /\ session = "none" /\ closed = FALSE /\ ring = {}
    /\ held = [r \in Readers |-> None] /\ rpc = [r \in Readers |-> "idle"]
    /\ wpc = [w \in Writers |-> "idle"] /\ cpc = "new" /\ late = FALSE

\* A call of the dll with the session handle.
UseSession == late' = (late \/ session = "ended")

---------------------------------------------------------------------------
(* NewWintunAdapter: the adapter, then the session; a session that does not *)
(* start closes the adapter.                                                *)

CreateAdapter ==
    /\ cpc = "new"
    /\ \/ adapter' = "open" /\ cpc' = "start"
       \/ cpc' = "failed" /\ UNCHANGED adapter
    /\ UNCHANGED <<session, closed, ring, held, rpc, wpc, late>>

StartSession ==
    /\ cpc = "start"
    /\ \/ session' = "live" /\ cpc' = "open"
       \/ cpc' = "close" /\ UNCHANGED session
    /\ UNCHANGED <<adapter, closed, ring, held, rpc, wpc, late>>

PacketArrives(p) ==
    /\ session = "live" /\ p \notin ring /\ \A r \in Readers : held[r] # p
    /\ ring' = ring \cup {p}
    /\ UNCHANGED <<adapter, session, closed, held, rpc, wpc, cpc, late>>

---------------------------------------------------------------------------
(* Read: ReceivePacket's loop, the copy, the deferred release.             *)

Goto(r, l) == rpc' = [rpc EXCEPT ![r] = l]

ReadCheck(r) ==
    /\ session # "none" /\ rpc[r] \in {"idle", "check"}
    /\ Goto(r, IF closed THEN "EOF" ELSE "receive")
    /\ UNCHANGED <<adapter, session, closed, ring, held, wpc, cpc, late>>

\* An empty ring is waited on for 100 ms, then the flag is read again.
NextTryMut == "receive"
NextTry == "check"
ReceivePacket(r) ==
    /\ rpc[r] = "receive" /\ UseSession
    /\ \/ \E p \in ring : /\ ring' = ring \ {p} /\ held' = [held EXCEPT ![r] = p]
                          /\ Goto(r, "copy")
       \/ ring = {} /\ Goto(r, NextTry) /\ UNCHANGED <<ring, held>>
    /\ UNCHANGED <<adapter, session, closed, wpc, cpc>>

\* The copy reads the ring's memory, or the packet does not fit and is lost.
Copy(r) ==
    /\ rpc[r] = "copy" /\ UseSession /\ Goto(r, "release")
    /\ UNCHANGED <<adapter, session, closed, ring, held, wpc, cpc>>

ReleaseCheck(r) ==
    /\ rpc[r] = "release"
    /\ IF closed THEN Goto(r, "idle") /\ held' = [held EXCEPT ![r] = None]
                 ELSE Goto(r, "free") /\ UNCHANGED held
    /\ UNCHANGED <<adapter, session, closed, ring, wpc, cpc, late>>

ReleaseReceivePacket(r) ==
    /\ rpc[r] = "free" /\ UseSession
    /\ held' = [held EXCEPT ![r] = None] /\ Goto(r, "idle")
    /\ UNCHANGED <<adapter, session, closed, ring, wpc, cpc>>

---------------------------------------------------------------------------
(* SendPacket: the check, the allocation, the copy with the send.          *)

SendCheck(w) ==
    /\ session # "none" /\ wpc[w] = "idle"
    /\ wpc' = [wpc EXCEPT ![w] = IF closed THEN "done" ELSE "allocate"]
    /\ UNCHANGED <<adapter, session, closed, ring, held, rpc, cpc, late>>

AllocateSendPacket(w) ==
    /\ wpc[w] = "allocate" /\ UseSession
    /\ \E l \in {"send", "done"} : wpc' = [wpc EXCEPT ![w] = l]
    /\ UNCHANGED <<adapter, session, closed, ring, held, rpc, cpc>>

SendPacket(w) ==
    /\ wpc[w] = "send" /\ UseSession
    /\ wpc' = [wpc EXCEPT ![w] = "done"]
    /\ UNCHANGED <<adapter, session, closed, ring, held, rpc, cpc>>

---------------------------------------------------------------------------
(* Close. *)

CloseFlag ==
    /\ cpc \in {"open", "close"} /\ closed' = TRUE /\ cpc' = "end"
    /\ UNCHANGED <<adapter, session, ring, held, rpc, wpc, late>>

EndSession ==
    /\ cpc = "end" /\ cpc' = "adapter"
    /\ session' = IF session = "live" THEN "ended" ELSE session
    /\ UNCHANGED <<adapter, closed, ring, held, rpc, wpc, late>>

CloseAdapter ==
    /\ cpc = "adapter" /\ cpc' = "done" /\ adapter' = "closed"
    /\ UNCHANGED <<session, closed, ring, held, rpc, wpc, late>>

---------------------------------------------------------------------------

ReaderNext(r) ==
    ReadCheck(r) \/ ReceivePacket(r) \/ Copy(r) \/ ReleaseCheck(r) \/ ReleaseReceivePacket(r)
WriterNext(w) == SendCheck(w) \/ AllocateSendPacket(w) \/ SendPacket(w)
CloseNext == EndSession \/ CloseAdapter

WintunNext ==
    \/ CreateAdapter \/ StartSession \/ CloseFlag \/ CloseNext
    \/ \E p \in Packets : PacketArrives(p)
    \/ \E r \in Readers : ReaderNext(r)
    \/ \E w \in Writers : WriterNext(w)

---------------------------------------------------------------------------
(* Properties. *)

\* After Close every reader that loops over Read comes to io.EOF, wherever it
\* was: in the wait of 100 ms on an empty ring, with a packet in hand, or about
\* to release it.
ReadersEnd == \A r \in Readers : closed /\ rpc[r] # "idle" ~> rpc[r] \in {"EOF", "idle"}

\* "Close gracefully ends Wintun session": no call is given a session that has
\* ended.  Close waits for nobody, so a reader or writer past its check does.
NoUseAfterEnd == ~late
=============================================================================
