----------------------------- MODULE Dispatcher -----------------------------
(***************************************************************************)
(* Request/response correlation of src/socket/dispatcher/dispatcher.go fed *)
(* by the worker pool of src/socket/processor/processor.go.                *)
(*                                                                         *)
(* Callers run SendSync; workers take frames from the channel of inbound   *)
(* frames, decode them and run Dispatch.  The peer answers requests late,  *)
(* twice or never, and sends packets nobody asked for.  task.Manager is    *)
(* external: a table of callbacks whose operations are atomic; Resolve     *)
(* removes the entry before it runs the callback, Add refuses an entry     *)
(* beyond MaxJobs.                                                         *)
(*                                                                         *)
(* Job ids come from NextJobID and are never used twice; Jobs is a pool of *)
(* identities, and an id nobody can meet again is given back.              *)
(*                                                                         *)
(* An operator XMut is a wrong variant of X; nothing refers to it.  The    *)
(* mutation tests put it in the place of X and expect a property to fail.  *)
(***************************************************************************)
EXTENDS Naturals, Sequences, FiniteSets

CONSTANTS
    Callers,    \* goroutines that run SendSync
    Workers,    \* goroutines of the processor
    Jobs,       \* job ids
    MaxJobs,    \* cfg.MaxJobs
    Capacity,   \* frames on their way: capacity of the input channel
    Handlers,   \* what the application registers: "method", "opcode"
    NoJob, NoCaller

ASSUME DispatcherAssumption ==
    /\ NoJob \notin Jobs
    /\ NoCaller \notin Callers
    /\ MaxJobs \in Nat \ {0}
    /\ Capacity \in Nat
    /\ Handlers \subseteq {"method", "opcode"}

\* What a packet is to the dispatcher: the job it answers, or none.
Packets == Jobs \cup {NoJob}

Cancelled == NoJob   \* a result with task.ErrTaskCancelled and no packet

VARIABLES
    closed,      \* d.closed
    closer,      \* where Close is: "no", "cancel" (before CancelAll), "done"
    handlers,    \* which of the "method" and "opcode" handlers are registered
    tasks,       \* d.tasks: the caller whose callback waits for a job
    pc, job,     \* where each caller is in SendSync, and its job id
    resCh,       \* resCh of each caller: the results in it, at most one
    expired,     \* callers whose ctx has ended
    asked,       \* jobs whose request the peer has received
    input,       \* packets in the input channel of the processor
    wpc, wpkt,   \* where each worker is, and the packet it works on
    procDone,    \* p.ctx is cancelled
    stop,        \* where Stop is: "no", "wait", "done"
    whole        \* Start had spawned the whole pool when Stop began

calls == <<pc, job, expired>>
pool  == <<wpc, wpkt, procDone, stop, whole>>
wire  == <<asked, input>>
vars  == <<closed, closer, handlers, tasks, resCh, calls, pool, wire>>

CallerLabels == {"idle", "add", "send", "wait", "resolve"}
WorkerLabels == {"unborn", "select", "job", "method", "opcode", "gone"}

-----------------------------------------------------------------------------
(* task.Manager.                                                           *)

Pending == {j \in Jobs : tasks[j] # NoCaller}

\* Resolve of one job with a result r: the callback sends r to resCh.
ResolveMut(j, r) ==
    /\ resCh' = [k \in Callers |-> IF tasks[j] = k THEN resCh[k] \cup {r} ELSE resCh[k]]
    /\ UNCHANGED tasks

Resolve(j, r) ==
    /\ resCh' = [k \in Callers |-> IF tasks[j] = k THEN resCh[k] \cup {r} ELSE resCh[k]]
    /\ tasks' = [tasks EXCEPT ![j] = NoCaller]

CancelAll ==
    /\ tasks' = [j \in Jobs |-> NoCaller]
    /\ resCh' = [k \in Callers |-> IF \E j \in Jobs : tasks[j] = k
                                   THEN resCh[k] \cup {Cancelled} ELSE resCh[k]]

-----------------------------------------------------------------------------
(* SendSync.                                                               *)

\* No caller, task, request or packet mentions j any more.
Fresh(j) ==
    /\ tasks[j] = NoCaller /\ j \notin asked
    /\ \A k \in Callers : job[k] # j
    /\ \A i \in DOMAIN input : input[i] # j
    /\ \A w \in Workers : wpkt[w] # j

\* SendSync with an id of NextJobID; the closed check comes first.  The wrong
\* variant writes the request before it registers the callback.
SendSyncMut(k, j) ==
    /\ pc[k] = "idle" /\ ~closed
    /\ Fresh(j)
    /\ job' = [job EXCEPT ![k] = j]
    /\ pc' = [pc EXCEPT ![k] = "add"]
    /\ asked' = asked \cup {j}
    /\ UNCHANGED <<closed, closer, handlers, tasks, resCh, expired, pool, input>>

SendSync(k, j) ==
    /\ pc[k] = "idle" /\ ~closed
    /\ Fresh(j)
    /\ job' = [job EXCEPT ![k] = j]
    /\ pc' = [pc EXCEPT ![k] = "add"]
    /\ UNCHANGED <<closed, closer, handlers, tasks, resCh, expired, pool, wire>>

\* tasks.Add, which a full table refuses; SendSync drops the error.
AddedMut(k) == tasks
Added(k) == IF Cardinality(Pending) < MaxJobs
            THEN [tasks EXCEPT ![job[k]] = k] ELSE tasks

Add(k) ==
    /\ pc[k] = "add"
    /\ tasks' = Added(k)
    /\ pc' = [pc EXCEPT ![k] = "send"]
    /\ UNCHANGED <<closed, closer, handlers, resCh, job, expired, pool, wire>>

\* writer.Send succeeds, or fails and SendSync returns.
Send(k) ==
    /\ pc[k] = "send"
    /\ \/ /\ pc' = [pc EXCEPT ![k] = "wait"]
          /\ asked' = asked \cup {job[k]}
       \/ /\ pc' = [pc EXCEPT ![k] = "resolve"]
          /\ UNCHANGED asked
    /\ UNCHANGED <<closed, closer, handlers, tasks, resCh, job, expired, pool, input>>

\* What the select waits for: ctx ends, or a result arrives.
ReadyMut(k) == resCh[k] # {}
Ready(k) == k \in expired \/ resCh[k] # {}

Wait(k) ==
    /\ pc[k] = "wait"
    /\ Ready(k)
    /\ pc' = [pc EXCEPT ![k] = "resolve"]
    /\ UNCHANGED <<closed, closer, handlers, tasks, resCh, job, expired, pool, wire>>

\* The deferred Resolve, which removes an entry that is still there; what its
\* callback sends is garbage together with resCh.
DeferMut(k) == tasks

Defer(k) == [tasks EXCEPT ![job[k]] = NoCaller]

Return(k) ==
    /\ pc[k] = "resolve"
    /\ tasks' = Defer(k)
    /\ resCh' = [resCh EXCEPT ![k] = {}]
    /\ pc' = [pc EXCEPT ![k] = "idle"]
    /\ job' = [job EXCEPT ![k] = NoJob]
    /\ expired' = expired \ {k}
    /\ UNCHANGED <<closed, closer, handlers, pool, wire>>

\* ctx of a caller ends (external).
Expire(k) ==
    /\ pc[k] # "idle" /\ k \notin expired
    /\ expired' = expired \cup {k}
    /\ UNCHANGED <<closed, closer, handlers, tasks, resCh, pc, job, pool, wire>>

\* task.WithContext: the manager cancels a task whose context ended.
ExpireTask(k) ==
    /\ k \in expired
    /\ \E j \in Pending : tasks[j] = k /\ Resolve(j, Cancelled)
    /\ UNCHANGED <<closed, closer, handlers, calls, pool, wire>>

-----------------------------------------------------------------------------
(* Handlers, and Close.                                                    *)

\* RegisterHandler and RegisterMethodHandler with a handler, or with nil.
RegisterHandler(h) ==
    /\ handlers' \in {handlers \cup {h}, handlers \ {h}}
    /\ UNCHANGED <<closed, closer, tasks, resCh, calls, pool, wire>>

ClearHandlers ==
    /\ handlers' = {}
    /\ UNCHANGED <<closed, closer, tasks, resCh, calls, pool, wire>>

\* closed.Swap(true)
SwapClosedMut == UNCHANGED closed
SwapClosed == closed' = TRUE

\* A second Close returns at once.
Close ==
    /\ ~closed
    /\ SwapClosed /\ closer' = "cancel"
    /\ UNCHANGED <<handlers, tasks, resCh, calls, pool, wire>>

CloseCancelAll ==
    /\ closer = "cancel"
    /\ CancelAll
    /\ closer' = "done"
    /\ UNCHANGED <<closed, handlers, calls, pool, wire>>

-----------------------------------------------------------------------------
(* The processor.                                                          *)

\* Start spawns the workers one after the other; sync.Once makes it happen
\* once.
Start(w) ==
    /\ wpc[w] = "unborn"
    /\ wpc' = [wpc EXCEPT ![w] = "select"]
    /\ UNCHANGED <<closed, closer, handlers, tasks, resCh, calls, wire, wpkt,
                   procDone, stop, whole>>

Stop ==
    /\ stop = "no"
    /\ procDone' = TRUE /\ stop' = "wait"
    /\ whole' = \A w \in Workers : wpc[w] # "unborn"
    /\ UNCHANGED <<closed, closer, handlers, tasks, resCh, calls, wire, wpc, wpkt>>

\* wg.Wait() returns when no spawned worker is left.
RunningMut == {w \in Workers : wpc[w] = "select"}
RunningUnbornMut == {w \in Workers : wpc[w] # "gone"}
Running == {w \in Workers : wpc[w] \notin {"unborn", "gone"}}

StopWait ==
    /\ stop = "wait" /\ Running = {}
    /\ stop' = "done"
    /\ UNCHANGED <<closed, closer, handlers, tasks, resCh, calls, wire, wpc, wpkt,
                   procDone, whole>>

WorkerGo(w, label) == wpc' = [wpc EXCEPT ![w] = label]

\* The select of worker: either branch when both are ready.  A frame that was
\* taken is decoded; when that fails it is dropped.
Select(w) ==
    /\ wpc[w] = "select"
    /\ \/ /\ procDone
          /\ WorkerGo(w, "gone")
          /\ UNCHANGED <<input, wpkt>>
       \/ /\ input # <<>>
          /\ input' = Tail(input)
          /\ \/ /\ wpkt' = [wpkt EXCEPT ![w] = Head(input)]
                /\ WorkerGo(w, IF Head(input) = NoJob THEN "method" ELSE "job")
             \/ UNCHANGED <<wpc, wpkt>>
    /\ UNCHANGED <<closed, closer, handlers, tasks, resCh, calls, asked, procDone,
                   stop, whole>>

\* Dispatch returns; the frame buffer is released.
Finish(w) ==
    /\ WorkerGo(w, "select")
    /\ wpkt' = [wpkt EXCEPT ![w] = NoJob]

\* d.tasks.Resolve(jobID, packet, nil): Dispatch returns if there was a task.
DispatchJob(w) ==
    /\ wpc[w] = "job"
    /\ \/ /\ wpkt[w] \in Pending
          /\ Resolve(wpkt[w], wpkt[w])
          /\ Finish(w)
       \/ /\ wpkt[w] \notin Pending
          /\ WorkerGo(w, "method")
          /\ UNCHANGED <<tasks, resCh, wpkt>>
    /\ UNCHANGED <<closed, closer, handlers, calls, wire, procDone, stop, whole>>

\* The method table, for a packet with a method name, then the opcode table,
\* each under its own lock; the handlers belong to the application.
DispatchHandler(w) ==
    /\ \/ /\ wpc[w] = "method"
          /\ \/ "method" \in handlers /\ Finish(w)
             \/ WorkerGo(w, "opcode") /\ UNCHANGED wpkt
       \/ wpc[w] = "opcode" /\ Finish(w)
    /\ UNCHANGED <<closed, closer, handlers, tasks, resCh, calls, wire, procDone,
                   stop, whole>>

Worker(w) == Select(w) \/ DispatchJob(w) \/ DispatchHandler(w)

-----------------------------------------------------------------------------
(* The peer (external): it answers a request it has received any number of *)
(* times, forgets it, or sends a packet of its own.                        *)

PeerSend(p) ==
    /\ Len(input) < Capacity
    /\ p \in asked \cup {NoJob}
    /\ input' = Append(input, p)
    /\ UNCHANGED <<closed, closer, handlers, tasks, resCh, calls, pool, asked>>

PeerForget(j) ==
    /\ j \in asked
    /\ asked' = asked \ {j}
    /\ UNCHANGED <<closed, closer, handlers, tasks, resCh, calls, pool, input>>

-----------------------------------------------------------------------------
Init ==
    /\ closed = FALSE /\ closer = "no"
    /\ handlers = {}
    /\ tasks = [j \in Jobs |-> NoCaller]
    /\ pc = [k \in Callers |-> "idle"]
    /\ job = [k \in Callers |-> NoJob]
    /\ resCh = [k \in Callers |-> {}]
    /\ expired = {} /\ asked = {} /\ input = <<>>
    /\ wpc = [w \in Workers |-> "unborn"]
    /\ wpkt = [w \in Workers |-> NoJob]
    /\ procDone = FALSE /\ stop = "no" /\ whole = FALSE

CallerNext(k) == Add(k) \/ Send(k) \/ Wait(k) \/ Return(k)

Next ==
    \/ \E k \in Callers : CallerNext(k) \/ Expire(k) \/ ExpireTask(k)
    \/ \E k \in Callers, j \in Jobs : SendSync(k, j)
    \/ \E h \in Handlers : RegisterHandler(h)
    \/ ClearHandlers \/ Close \/ CloseCancelAll \/ Stop \/ StopWait
    \/ \E w \in Workers : Start(w) \/ Worker(w)
    \/ \E p \in Packets : PeerSend(p)
    \/ \E j \in Jobs : PeerForget(j)

Spec == Init /\ [][Next]_vars

\* Every goroutine that can take a step eventually does; a select whose
\* ctx.Done() branch is ready again and again takes it in the end, because Go
\* picks among the ready branches at random.  The peer and the application
\* owe nothing.
FairSpec ==
    /\ Spec
    /\ WF_vars(CloseCancelAll) /\ WF_vars(StopWait)
    /\ \A k \in Callers : WF_vars(CallerNext(k))
    /\ \A w \in Workers : WF_vars(Worker(w)) /\ SF_vars(Select(w) /\ wpc'[w] = "gone")

-----------------------------------------------------------------------------
(* Properties.                                                             *)

TypeOK ==
    /\ closer \in {"no", "cancel", "done"} /\ closed = (closer # "no")
    /\ handlers \in SUBSET {"method", "opcode"}
    /\ tasks \in [Jobs -> Callers \cup {NoCaller}]
    /\ pc \in [Callers -> CallerLabels]
    /\ job \in [Callers -> Jobs \cup {NoJob}]
    /\ \A k \in Callers : pc[k] # "idle" <=> job[k] # NoJob
    /\ resCh \in [Callers -> SUBSET Packets]
    /\ expired \in SUBSET Callers
    /\ asked \in SUBSET Jobs
    /\ input \in Seq(Packets) /\ Len(input) <= Capacity
    /\ wpc \in [Workers -> WorkerLabels]
    /\ wpkt \in [Workers -> Packets]
    /\ procDone \in BOOLEAN /\ stop \in {"no", "wait", "done"} /\ whole \in BOOLEAN

\* A callback is registered only while the SendSync that registered it runs,
\* and under that call's own job id: no entry outlives its caller, whose
\* resCh the callback writes to.
TasksOwned ==
    \A j \in Jobs, k \in Callers :
        tasks[j] = k => job[k] = j /\ pc[k] \in {"send", "wait", "resolve"}

\* The callback of a call runs at most once, whoever resolves the job
\* (Dispatch on a reply or on its duplicate, the context, Close): while it is
\* registered resCh, which has room for one result, is empty.
CallbackOnce ==
    \A k \in Callers :
        /\ (\E j \in Jobs : tasks[j] = k) => resCh[k] = {}
        /\ \A r, q \in resCh[k] : r = q

\* A packet a caller finds in resCh answers the request of that very call:
\* replies that are late, duplicated or reordered by the workers never reach
\* another caller.
Correlated ==
    \A k \in Callers : \A r \in resCh[k] : r # Cancelled => r = job[k]

\* Dispatch hands a reply to the handlers only when its caller does not wait
\* for it any more, and not because it overtook the registration: a job that
\* Dispatch has found not pending does not become pending later.
NoEarlyReply ==
    \A w \in Workers :
        wpc[w] \in {"method", "opcode"} => wpkt[w] \notin Pending

\* A caller blocked in the select has its callback registered or its result
\* in resCh, as long as there is room in the table for every caller: SendSync
\* never waits for an answer that nobody can deliver.
WaitIsServed ==
    \A k \in Callers :
        pc[k] = "wait" => tasks[job[k]] = k \/ resCh[k] # {}

\* When Stop returns, and Start had spawned the pool before it was called, no
\* worker is left: no packet is dispatched after Stop.
StopQuiesces ==
    stop = "done" /\ whole => \A w \in Workers : wpc[w] = "gone"

\* SendSync returns once its context ended or its result arrived.
SendSyncReturns ==
    \A k \in Callers : (k \in expired \/ resCh[k] # {}) ~> pc[k] = "idle"

\* Stop returns, although frames keep arriving and workers may be in the
\* middle of one.
StopReturns == stop = "wait" ~> stop = "done"
=============================================================================
