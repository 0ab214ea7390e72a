------------------------------ MODULE Telemetry ------------------------------
(***************************************************************************)
(* The OpenTelemetry client (otel/): the middleware that starts a span per *)
(* call and ends it, the recycled Span objects, the tracer with its        *)
(* sampler, and the exporters with their worker, queue and Shutdown.       *)
(***************************************************************************)
EXTENDS Naturals, Sequences

CONSTANTS
    Calls,      \* calls of the middleware's Do; also the ids of their spans
    Results,    \* of next.Do: [err, some, grpc, code], some FALSE for a nil response
    Closers,    \* goroutines that call Tracer.Shutdown
    QueueCap,   \* capacity of the exporter's queue (2048)
    BatchSize,  \* most snapshots per request (128)
    Remote,     \* the ids of a propagated remote parent
    Nil         \* the zero id, the nil pointer

ASSUME ResultsAssumption ==
    Results \subseteq [err : BOOLEAN, some : BOOLEAN, grpc : STRING, code : Nat]

VARIABLES
    kind,       \* the configured exporter
    sampler,    \* the configured sampler
    span,       \* the contents of the Span objects made so far
    free,       \* the objects in spanStorage
    pc, obj,    \* per call: its step, and the span it started
    par,        \* per call: what Start has read of the parent
    outcome,    \* per call: the result of next.Do
    snap,       \* per call: the snapshot Export holds
    closed,     \* Tracer.closed
    kpc,        \* per closer: its step in Shutdown
    done,       \* OTLPHTTPExporter.done is closed
    queue,      \* OTLPHTTPExporter.queue
    wpc, batch, \* the worker's step and its batch
    memory,     \* MemoryExporter.spans
    posted,     \* what the collector has received
    failed,     \* calls whose batch could not be posted
    late        \* calls that queued a snapshot after done was closed

tracerVars == <<kind, sampler, closed>>
spanVars == <<span, free>>
callVars == <<pc, obj, par, outcome, snap>>
exporterVars == <<done, queue, wpc, batch, memory, posted, failed, late>>
vars == <<tracerVars, spanVars, callVars, kpc, exporterVars>>

---------------------------------------------------------------------------
(* Span contexts and samplers. *)

ZeroContext == [trace |-> Nil, id |-> Nil, sampled |-> FALSE]

IsValid(sc) == sc.trace # Nil /\ sc.id # Nil

\* The answers the sampler may give: a ratio follows a valid parent, and
\* depends on the random trace id otherwise.
ShouldSample(parent) ==
    CASE sampler = "always" -> {TRUE}
      [] sampler = "never"  -> {FALSE}
      [] sampler = "ratio"  -> IF IsValid(parent) THEN {parent.sampled} ELSE BOOLEAN

---------------------------------------------------------------------------
(* Span objects. *)

\* acquireSpan overwrites every field of a recycled object.  Attributes and
\* events are abstracted to the calls that wrote them, the parent's context
\* to its span id, Nil when the context is not valid.
AcquiredMut(sc, parent, notes) ==
    [tracer |-> TRUE, ctx |-> sc, parent |-> IF IsValid(parent) THEN parent.id ELSE Nil,
     status |-> "ok", notes |-> notes, ended |-> FALSE]
Acquired(sc, parent, notes) ==
    [tracer |-> TRUE, ctx |-> sc, parent |-> IF IsValid(parent) THEN parent.id ELSE Nil,
     status |-> "unset", notes |-> notes, ended |-> FALSE]

\* releaseSpan leaves status and ended as they are.
Released(s) ==
    [s EXCEPT !.tracer = FALSE, !.ctx = ZeroContext, !.parent = Nil, !.notes = {}]

ReleaseSpan(s) ==
    /\ span' = [span EXCEPT ![s] = Released(@)]
    /\ free' = free \cup {s}

\* Nothing is written to a span that has ended.
SetStatus(s, code) == IF s.ended THEN s ELSE [s EXCEPT !.status = code]
SetAttributes(s, c) == IF s.ended THEN s ELSE [s EXCEPT !.notes = @ \cup {c}]
AddEvent(s, c) == IF s.ended THEN s ELSE [s EXCEPT !.notes = @ \cup {c}]
RecordError(s, c) == SetStatus(AddEvent(s, c), "error")

---------------------------------------------------------------------------
(* The middleware's Do, around one request. *)

\* The filter rejects the request: no span is made for it.
Bypass(c) ==
    /\ pc[c] = "idle"
    /\ pc' = [pc EXCEPT ![c] = "bypassed"]
    /\ UNCHANGED <<tracerVars, spanVars, obj, par, outcome, snap, kpc, exporterVars>>

\* Tracer.Start, the parent: the span in ctx if there is one, else a remote
\* context.  ctx may carry the span of a call that is still running or that
\* has returned, since Do leaves it in the request.  SpanContext() takes no
\* lock, so the fields it copies may be of different moments: the trace id
\* is read here, the rest in Start.
StartParent(c) ==
    /\ pc[c] = "idle"
    /\ pc' = [pc EXCEPT ![c] = "start"]
    /\ \/ \E d \in Calls :
             /\ obj[d] # Nil
             /\ par' = [par EXCEPT ![c] = [from |-> obj[d], ctx |-> span[obj[d]].ctx]]
       \/ \E sc \in {ZeroContext} \cup [trace : {Remote}, id : {Remote}, sampled : BOOLEAN] :
             par' = [par EXCEPT ![c] = [from |-> Nil, ctx |-> sc]]
    /\ UNCHANGED <<tracerVars, spanVars, obj, outcome, snap, kpc, exporterVars>>

\* The parent context once its second half has been read.
ParentContext(c) ==
    IF par[c].from # Nil
    THEN [span[par[c].from].ctx EXCEPT !.trace = par[c].ctx.trace]
    ELSE par[c].ctx

\* The trace of a new span: its parent's when that is valid, else a new one.
TraceOf(c, parent) == IF IsValid(parent) THEN parent.trace ELSE c

\* The rest of Tracer.Start and the request's own attributes: a Span object
\* is taken from the pool, or made, and filled in.
Start(c) ==
    /\ pc[c] = "start"
    /\ pc' = [pc EXCEPT ![c] = "do"]
    /\ \E s \in free \cup {Len(span) + 1}, yes \in ShouldSample(ParentContext(c)) :
          LET sc == [trace |-> TraceOf(c, ParentContext(c)), id |-> c, sampled |-> yes]
          IN /\ free' = free \ {s}
             /\ obj' = [obj EXCEPT ![c] = s]
             /\ span' = [i \in DOMAIN span \cup {s} |->
                           IF i = s THEN Acquired(sc, ParentContext(c), {c}) ELSE span[i]]
    /\ par' = [par EXCEPT ![c] = Nil]
    /\ UNCHANGED <<tracerVars, outcome, snap, kpc, exporterVars>>

\* What next.Do leads to: an error, a gRPC status other than 0 and an HTTP status
\* of 400 or more are errors, and without a response nothing is set.
ResponseStatus(r) == IF r.grpc \notin {"", "0"} \/ r.code >= 400 THEN "error" ELSE "ok"
Recorded(s, r, c) ==
    IF r.err THEN SetStatus(SetAttributes(RecordError(s, c), c), "error")
    ELSE IF r.some THEN SetStatus(SetAttributes(s, c), ResponseStatus(r))
    ELSE s

Do(c, r) ==
    /\ pc[c] = "do"
    /\ pc' = [pc EXCEPT ![c] = "end"]
    /\ outcome' = [outcome EXCEPT ![c] = r]
    /\ span' = [span EXCEPT ![obj[c]] = Recorded(@, r, c)]
    /\ UNCHANGED <<tracerVars, free, obj, par, snap, kpc, exporterVars>>

\* processSpan reads closed and decides what becomes of a span.
ProcessSpan(s) == IF closed \/ kind = "none" \/ ~s.ctx.sampled THEN "release" ELSE "export"

\* The deferred span.End: EndWithTime marks the span under its lock.
End(c) ==
    /\ pc[c] = "end"
    /\ span' = [span EXCEPT ![obj[c]].ended = TRUE]
    /\ pc' = [pc EXCEPT ![c] = IF span[obj[c]].ended \/ ~span[obj[c]].tracer THEN "returned"
                               ELSE ProcessSpan(span[obj[c]])]
    /\ UNCHANGED <<tracerVars, free, obj, par, outcome, snap, kpc, exporterVars>>

\* The span is not exported and only goes back to the pool.
Discard(c) ==
    /\ pc[c] = "release"
    /\ ReleaseSpan(obj[c])
    /\ pc' = [pc EXCEPT ![c] = "returned"]
    /\ UNCHANGED <<tracerVars, obj, par, outcome, snap, kpc, exporterVars>>

Snapshot(s) ==
    [ctx |-> s.ctx, parent |-> s.parent, status |-> s.status, notes |-> s.notes]

\* OTLPHTTPExporter.Export copies the span and recycles it, then queues the
\* copy without blocking.
Export(c) ==
    /\ pc[c] = "export" /\ kind = "otlp"
    /\ snap' = [snap EXCEPT ![c] = Snapshot(span[obj[c]])]
    /\ ReleaseSpan(obj[c])
    /\ pc' = [pc EXCEPT ![c] = "enqueue"]
    /\ UNCHANGED <<tracerVars, obj, par, outcome, kpc, exporterVars>>

ExportEnqueue(c) ==
    /\ pc[c] = "enqueue"
    /\ IF Len(queue) < QueueCap
       THEN /\ queue' = Append(queue, snap[c])
            /\ late' = IF done THEN late \cup {c} ELSE late
       ELSE UNCHANGED <<queue, late>>
    /\ snap' = [snap EXCEPT ![c] = Nil]
    /\ pc' = [pc EXCEPT ![c] = "returned"]
    /\ UNCHANGED <<tracerVars, spanVars, obj, par, outcome, kpc,
                   done, wpc, batch, memory, posted, failed>>

\* MemoryExporter.Export does it all under its lock.
ExportMemory(c) ==
    /\ pc[c] = "export" /\ kind = "memory"
    /\ memory' = Append(memory, Snapshot(span[obj[c]]))
    /\ ReleaseSpan(obj[c])
    /\ pc' = [pc EXCEPT ![c] = "returned"]
    /\ UNCHANGED <<tracerVars, obj, par, outcome, snap, kpc,
                   done, queue, wpc, batch, posted, failed, late>>

---------------------------------------------------------------------------
(* The OTLP exporter's worker. *)

\* The select, or the drain loop, takes a snapshot from the queue and sends
\* the batch when it is full.
WorkerTake ==
    /\ kind = "otlp" /\ wpc \in {"select", "drain"}
    /\ queue # <<>>
    /\ batch' = Append(batch, Head(queue))
    /\ queue' = Tail(queue)
    /\ wpc' = IF Len(batch') < BatchSize THEN wpc
              ELSE IF wpc = "select" THEN "post" ELSE "post, drain"
    /\ UNCHANGED <<tracerVars, spanVars, callVars, kpc, done, memory, posted, failed, late>>

\* The ticker fires: flush, which does nothing for an empty batch.
WorkerTick ==
    /\ kind = "otlp" /\ wpc = "select" /\ batch # <<>>
    /\ wpc' = "post"
    /\ UNCHANGED <<tracerVars, spanVars, callVars, kpc,
                   done, queue, batch, memory, posted, failed, late>>

\* The select sees done.
WorkerDone ==
    /\ kind = "otlp" /\ wpc = "select" /\ done
    /\ wpc' = "drain"
    /\ UNCHANGED <<tracerVars, spanVars, callVars, kpc,
                   done, queue, batch, memory, posted, failed, late>>

\* The drain loop finds the queue empty: a last flush, and the worker ends.
WorkerDrainedMut ==
    /\ wpc = "drain" /\ queue = <<>>
    /\ wpc' = "exited"
    /\ UNCHANGED <<tracerVars, spanVars, callVars, kpc,
                   done, queue, batch, memory, posted, failed, late>>
WorkerDrained ==
    /\ wpc = "drain" /\ queue = <<>>
    /\ wpc' = IF batch = <<>> THEN "exited" ELSE "post, exit"
    /\ UNCHANGED <<tracerVars, spanVars, callVars, kpc,
                   done, queue, batch, memory, posted, failed, late>>

\* One span of the OTLP request: the parent is named only when it is valid.
OTLPSpan(s) ==
    [id |-> s.ctx.id, parent |-> s.parent, status |-> s.status, notes |-> s.notes]

BuildOTLPJSON(b) == {OTLPSpan(b[i]) : i \in DOMAIN b}

\* sendBatch returns: the collector has the batch, or the request failed and
\* the batch is given up.
WorkerPostMut ==
    /\ wpc \in {"post", "post, drain", "post, exit"}
    /\ \/ posted' = posted \cup BuildOTLPJSON(batch) /\ UNCHANGED failed
       \/ failed' = failed \cup {batch[i].ctx.id : i \in DOMAIN batch} /\ UNCHANGED posted
    /\ batch' = IF failed' = failed THEN <<>> ELSE batch
    /\ wpc' = CASE wpc = "post" -> "select"
                [] wpc = "post, drain" -> "drain"
                [] wpc = "post, exit" -> "exited"
    /\ UNCHANGED <<tracerVars, spanVars, callVars, kpc, done, queue, memory, late>>
WorkerPost ==
    /\ wpc \in {"post", "post, drain", "post, exit"}
    /\ \/ posted' = posted \cup BuildOTLPJSON(batch) /\ UNCHANGED failed
       \/ failed' = failed \cup {batch[i].ctx.id : i \in DOMAIN batch} /\ UNCHANGED posted
    /\ batch' = <<>>
    /\ wpc' = CASE wpc = "post" -> "select"
                [] wpc = "post, drain" -> "drain"
                [] wpc = "post, exit" -> "exited"
    /\ UNCHANGED <<tracerVars, spanVars, callVars, kpc, done, queue, memory, late>>

---------------------------------------------------------------------------
(* Shutdown. *)

\* Tracer.Shutdown sets closed and calls the exporter's Shutdown, if any.
TracerShutdown(k) ==
    /\ kpc[k] = "idle"
    /\ closed' = TRUE
    /\ kpc' = [kpc EXCEPT ![k] = IF kind = "none" THEN "returned" ELSE kind]
    /\ UNCHANGED <<kind, sampler, spanVars, callVars, exporterVars>>

\* MemoryExporter.Shutdown: Reset.
MemoryShutdown(k) ==
    /\ kpc[k] = "memory"
    /\ memory' = <<>>
    /\ kpc' = [kpc EXCEPT ![k] = "returned"]
    /\ UNCHANGED <<tracerVars, spanVars, callVars, done, queue, wpc, batch, posted, failed, late>>

\* OTLPHTTPExporter.Shutdown: a closed done ends it at once; otherwise done
\* is closed in a second step, which panics when another call was faster.
ShutdownCheck(k) ==
    /\ kpc[k] = "otlp"
    /\ kpc' = [kpc EXCEPT ![k] = IF done THEN "returned" ELSE "close"]
    /\ UNCHANGED <<tracerVars, spanVars, callVars, exporterVars>>

ShutdownClose(k) ==
    /\ kpc[k] = "close"
    /\ kpc' = [kpc EXCEPT ![k] = IF done THEN "panic" ELSE "wait"]
    /\ done' = TRUE
    /\ UNCHANGED <<tracerVars, spanVars, callVars,
                   queue, wpc, batch, memory, posted, failed, late>>

ShutdownWaitMut(k) ==
    /\ kpc[k] = "wait"
    /\ kpc' = [kpc EXCEPT ![k] = "flushed"]
    /\ UNCHANGED <<tracerVars, spanVars, callVars, exporterVars>>
ShutdownWait(k) ==
    /\ kpc[k] = "wait" /\ wpc = "exited"
    /\ kpc' = [kpc EXCEPT ![k] = "flushed"]
    /\ UNCHANGED <<tracerVars, spanVars, callVars, exporterVars>>

---------------------------------------------------------------------------
Init ==
    /\ kind \in {"otlp", "memory", "none"} /\ sampler \in {"always", "never", "ratio"}
    /\ span = <<>> /\ free = {}
    /\ pc = [c \in Calls |-> "idle"] /\ obj = [c \in Calls |-> Nil]
    /\ par = [c \in Calls |-> Nil] /\ outcome = [c \in Calls |-> Nil]
    /\ snap = [c \in Calls |-> Nil]
    /\ closed = FALSE /\ kpc = [k \in Closers |-> "idle"]
    /\ done = FALSE /\ queue = <<>> /\ wpc = "select" /\ batch = <<>>
    /\ memory = <<>> /\ posted = {} /\ failed = {} /\ late = {}

CallNext(c) ==
    \/ Bypass(c) \/ StartParent(c) \/ Start(c) \/ (\E r \in Results : Do(c, r))
    \/ End(c) \/ Discard(c) \/ Export(c) \/ ExportEnqueue(c) \/ ExportMemory(c)

CloserNext(k) ==
    \/ TracerShutdown(k) \/ MemoryShutdown(k)
    \/ ShutdownCheck(k) \/ ShutdownClose(k) \/ ShutdownWait(k)

WorkerNext == WorkerTake \/ WorkerTick \/ WorkerDone \/ WorkerDrained \/ WorkerPost

\* A panic ends the process.
Running == \A k \in Closers : kpc[k] # "panic"

Next ==
    /\ Running
    /\ \/ \E c \in Calls : CallNext(c)
       \/ \E k \in Closers : CloserNext(k)
       \/ WorkerNext

Spec == Init /\ [][Next]_vars

\* The scheduler runs the worker; its ticker fires again and again.  A call to
\* Shutdown goes on.
Fairness ==
    /\ WF_vars(Running /\ (WorkerTake \/ WorkerPost \/ WorkerDone \/ WorkerDrained))
    /\ WF_vars(Running /\ WorkerTick)
    /\ \A k \in Closers :
          WF_vars(Running /\ (ShutdownCheck(k) \/ ShutdownClose(k) \/ ShutdownWait(k)))

FairSpec == Spec /\ Fairness

---------------------------------------------------------------------------
(* Properties. *)

\* The copies of spans that wait in the exporter.
Held == queue \o batch \o memory

Buffered == {Held[i].ctx.id : i \in DOMAIN Held}

Delivered == {p.id : p \in posted}

StatusOf(r) ==
    IF r.err THEN "error" ELSE IF ~r.some THEN "unset"
    ELSE IF r.grpc \in {"", "0"} /\ r.code < 400 THEN "ok" ELSE "error"

\* Every exported record tells the story of one call: the attributes, events
\* and status in it are those its own call wrote, never those of another call
\* whose Span object was recycled (acquireSpan, releaseSpan, Export).
RecordIsOwn ==
    /\ \A i \in DOMAIN Held : LET h == Held[i] IN
          /\ h.ctx.id \in Calls /\ h.ctx.sampled
          /\ h.notes = {h.ctx.id} /\ h.status = StatusOf(outcome[h.ctx.id])
    /\ \A p \in posted : p.notes = {p.id} /\ p.status = StatusOf(outcome[p.id])

\* When the Shutdown that closed done returns, the worker has ended with an
\* empty batch, and all that is left in the queue came after done was closed.
ShutdownFlushes ==
    (\E k \in Closers : kpc[k] = "flushed") =>
        /\ wpc = "exited" /\ batch = <<>>
        /\ \A i \in DOMAIN queue : queue[i].ctx.id \in late

\* A span that was queued while the exporter was open leaves it: the worker
\* posts it, on a full batch, on a tick or while it drains the queue.
QueuedIsPosted ==
    \A c \in Calls :
        (kind = "otlp" /\ c \in Buffered \ late) ~> (c \in Delivered \cup failed \/ ~Running)

\* Where the span of call c is.
FateOf(c) ==
    IF c \in Delivered THEN "delivered"
    ELSE IF c \in failed THEN "lost"
    ELSE IF c \in Buffered THEN "buffered"
    ELSE IF pc[c] = "returned" THEN "lost"
    ELSE IF pc[c] \in {"idle", "start", "bypassed"} THEN "idle"
    ELSE "recording"

Fate == INSTANCE SpanFate WITH fate <- [c \in Calls |-> FateOf(c)]

\* The pipeline implements SpanFate: one delivery or one loss per span.
SpanFateSpec == Fate!FateSpec
=============================================================================
