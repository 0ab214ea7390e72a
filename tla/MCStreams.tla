------------------------------ MODULE MCStreams ------------------------------
(***************************************************************************)
(* gRPC calls and streams, WebTransport dials and streams, and the Wintun  *)
(* adapter, checked side by side: the initial state picks one part and the *)
(* others stand still, so the states are the sum of the parts' states.     *)
(***************************************************************************)
EXTENDS GRPC, WTStream

CONSTANTS Readers, Packets, None

VARIABLES part, adapter, session, tunClosed, ring, held, rpc, sendPC, cpc, late

Response(http, ct, head, fs, trailer) ==
    [http |-> http, ct |-> ct, head |-> head, frames |-> fs, trailer |-> trailer]

\* Every pair of statuses after a body of one of five forms; a wrong HTTP
\* status and a wrong content type.
MCResponses ==
    {Response(200, "grpc", h, f, t) :
       h \in {"", "0", "5"}, t \in {"", "0", "5", "junk"},
       f \in {<<>>, <<"plain">>, <<"gzip", "cut">>, <<"gzipcut">>, <<"badproto">>}}
    \cup {Response(503, "grpc", "0", <<"plain">>, "0"), Response(200, "other", "", <<"badgzip">>, "0")}

A == INSTANCE Wintun WITH closed <- tunClosed, wpc <- sendPC

tunVars == <<adapter, session, tunClosed, ring, held, rpc, sendPC, cpc, late>>
vars == <<part, grpcVars, wtVars, tunVars>>

Init ==
    /\ part \in {"grpc", "webtransport", "wintun"}
    /\ BidiInit /\ WTInit /\ A!WintunInit
    /\ part # "grpc" => resp = Response(503, "grpc", "0", <<"plain">>, "0")

Rpc(X) ==
    /\ part = "grpc" /\ X
    /\ UNCHANGED <<part, wtVars, tunVars>>
WebTransport(X) ==
    /\ part = "webtransport" /\ X
    /\ UNCHANGED <<part, grpcVars, tunVars>>
Tun(X) ==
    /\ part = "wintun" /\ X
    /\ UNCHANGED <<part, grpcVars, wtVars>>

Next == Rpc(BidiNext) \/ WebTransport(WTNext) \/ Tun(A!WintunNext)

\* Goroutines that can run do.  A cancelled request and a read of its body
\* return; nothing else that waits for a peer has to.
Fairness ==
    /\ WF_vars(Rpc(cancelled /\ RequestReturns)) /\ WF_vars(Rpc(CloseNext))
    /\ \A p \in Senders : WF_vars(Rpc(SendNext(p))) /\ WF_vars(Rpc(OnceNext(p)))
    /\ \A p \in Receivers :
         /\ WF_vars(Rpc(RecvNext(p))) /\ WF_vars(Rpc(OnceNext(p)))
         /\ WF_vars(Rpc(cancelled /\ RecvRead(p)))
    /\ \A l \in {"bidi", "uni", "datagrams"} : WF_vars(WebTransport(LoopNext(l)))
    /\ \A r \in Readers : WF_vars(Tun(A!ReaderNext(r)))

Spec == Init /\ [][Next]_vars /\ Fairness

---------------------------------------------------------------------------
(* Properties of the parts. *)

\* What is closed lets its users go: Close of a gRPC stream every caller, a lost
\* connection or an ended dial context the WebTransport session, Close of the
\* adapter every reader.
StreamsEnd == CloseUnblocks /\ SessionFollowsConnection /\ A!ReadersEnd

\* Known not to hold: the adapter is not used after its session ended
\* (tun_windows.go:201).
NoUseAfterEnd == A!NoUseAfterEnd
=============================================================================
