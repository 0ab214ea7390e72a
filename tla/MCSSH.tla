-------------------------------- MODULE MCSSH --------------------------------
(***************************************************************************)
(* The parts of ssh/ checked side by side: the initial state picks one and *)
(* the others stand still, so the states are the sum of the parts' states. *)
(***************************************************************************)
EXTENDS Transfer, SSHClient, KnownHosts, Tunnel

CONSTANTS o1, o2
VARIABLE part

Job(kindOf, total, chunk, workers, avail) ==
    [kind |-> kindOf, total |-> total, chunk |-> chunk, workers |-> workers,
     avail |-> avail]

\* Several chunks per worker, chunks that fill the queue, chunks longer than a
\* buffer, a short last chunk, an empty file, a wrong chunk size, the default
\* number of workers.
MCJobs ==
    {Job("uploadPar", 7, 3, 2, 0), Job("downloadPar", 5, 1, 1, 0),
     Job("downloadPar", 4, 2, 2, 0), Job("uploadPar", 0, 1, 2, 0),
     Job("downloadPar", 0, 1, 2, 0), Job("uploadPar", 2, 0, 2, 0),
     Job("uploadPar", 2, 1, 0, 0), Job("upload", 2, 0, 0, 0),
     Job("download", 2, 0, 0, 0), Job("scp", 2, 0, 0, 3), Job("scp", 0, 0, 0, 0)}

MCKinds ==
    {[o \in Ops |-> "sftp"]} \cup
    {[o \in Ops |-> IF o = o1 THEN k ELSE "none"] : k \in {"dial", "command", "stream"}}

vars == <<part, transferVars, clientVars, hostVars, tunnelVars>>

Init ==
    /\ part \in {"transfer", "client", "hosts", "socks", "reverse"}
    /\ TransferInit /\ ClientInit /\ HostsInit /\ TunnelInit
    /\ part # "transfer" => job = Job("scp", 0, 0, 0, 0)
    /\ part # "client" => kind = [o \in Ops |-> "sftp"]

OnTransfer(A) ==
    /\ part = "transfer" /\ A
    /\ UNCHANGED <<part, clientVars, hostVars, tunnelVars>>
OnClient(A) ==
    /\ part = "client" /\ A
    /\ UNCHANGED <<part, transferVars, hostVars, tunnelVars>>
OnHosts(A) ==
    /\ part = "hosts" /\ A
    /\ UNCHANGED <<part, transferVars, clientVars, tunnelVars>>
OnSocks(A) ==
    /\ part = "socks" /\ A
    /\ UNCHANGED <<part, transferVars, clientVars, hostVars>>
OnReverse(A) ==
    /\ part = "reverse" /\ A
    /\ UNCHANGED <<part, transferVars, clientVars, hostVars>>

Next ==
    \/ OnTransfer(TransferNext) \/ OnClient(ClientNext) \/ OnHosts(HostsNext)
    \/ OnSocks(SocksSide) \/ OnReverse(ReverseSide)

\* Each goroutine that can run does; calls return, except those that wait for a
\* server that hangs. Nobody has to call, cancel or close, and a session or a
\* peer need not end; Stream's own timeout does pass.
TransferFairness ==
    /\ WF_vars(OnTransfer(MainNext))
    /\ WF_vars(OnTransfer(ProducerNext))
    /\ WF_vars(OnTransfer(CopierStep))
    /\ \A w \in 1 .. 4 : WF_vars(OnTransfer(w \in Workers /\ WorkerStep(w)))

ClientFairness ==
    /\ WF_vars(OnClient(DialNext)) /\ WF_vars(OnClient(KeepAliveNext))
    /\ \A k \in Closers : WF_vars(OnClient(CloseNext(k)))
    /\ \A o \in Ops :
         /\ WF_vars(OnClient(CallNext(o))) /\ WF_vars(OnClient(HelperNext(o)))
         /\ WF_vars(OnClient(kind[o] = "stream" /\ Expire(o)))
         /\ \A p \in {"out", "err"} : WF_vars(OnClient(ScannerNext(o, p)))

TunnelFairness ==
    /\ WF_vars(OnSocks(ServeNext)) /\ WF_vars(OnReverse(ReverseNext))
    /\ WF_vars(OnReverse(ctx /\ SessionStop))
    /\ \A c \in Socks : WF_vars(OnSocks(HandlerNext(c)))
    /\ \A c \in Forwards : WF_vars(OnReverse(HandlerNext(c)))

Spec == Init /\ [][Next]_vars /\ TransferFairness /\ ClientFairness /\ TunnelFairness

---------------------------------------------------------------------------
(* Properties of all parts. *)

\* Calls come back and goroutines end: a transfer, a closed client as long as
\* the server answers, a Stream whatever server and reader do, tunnel handlers,
\* the SOCKS5 loop and ExposeLocal, when its handshakes end.
SSHCallsEnd ==
    /\ part = "transfer" => TransferEnds
    /\ ShutdownCompletes /\ StreamEnds
    /\ PipesEnd
    /\ part = "socks" => ServeEnds
    /\ part = "reverse" => ExposeEnds
=============================================================================
