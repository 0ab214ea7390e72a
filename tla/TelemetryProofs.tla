-------------------------- MODULE TelemetryProofs --------------------------
(***************************************************************************)
(* Proofs about Telemetry for any number of calls and closers, every       *)
(* capacity of the queue and every size of batch: who may touch a recycled *)
(* Span object.  Between Start and the copy made by Export a call owns its *)
(* object, which is neither in spanStorage nor another call's.  What is    *)
(* exported is then a call's own, Shutdown flushes, and no span is         *)
(* delivered or lost twice.                                                *)
(***************************************************************************)
EXTENDS Telemetry, TLAPS

---------------------------------------------------------------------------
(* Types. *)

Ids == Calls \cup {Remote, Nil}
Context == [trace : Ids, id : Ids, sampled : BOOLEAN]
Status == {"unset", "ok", "error"}
SpanObject == [tracer : BOOLEAN, ctx : Context, parent : Ids, status : Status,
               notes : SUBSET Calls, ended : BOOLEAN]
Copy == [ctx : Context, parent : Ids, status : Status, notes : SUBSET Calls]
Record == [id : Ids, parent : Ids, status : Status, notes : SUBSET Calls]
Parent == [from : Nat \cup {Nil}, ctx : Context]

CallSteps == {"idle", "bypassed", "start", "do", "end", "release", "export", "enqueue", "returned"}
WorkerSteps == {"select", "drain", "post", "post, drain", "post, exit", "exited"}
CloserSteps == {"idle", "returned", "otlp", "memory", "close", "panic", "wait", "flushed"}

SpanTypes ==
    /\ span \in Seq(SpanObject) /\ free \subseteq DOMAIN span
    /\ obj \in [Calls -> Nat \cup {Nil}] /\ par \in [Calls -> Parent \cup {Nil}]
    /\ \A c \in Calls : obj[c] # Nil => obj[c] \in DOMAIN span
    /\ \A c \in Calls : pc[c] = "start" =>
          par[c] \in Parent /\ (par[c].from # Nil => par[c].from \in DOMAIN span)

TypeOK ==
    /\ kind \in {"otlp", "memory", "none"} /\ sampler \in {"always", "never", "ratio"}
    /\ pc \in [Calls -> CallSteps] /\ outcome \in [Calls -> Results \cup {Nil}]
    /\ snap \in [Calls -> Copy \cup {Nil}] /\ kpc \in [Closers -> CloserSteps]
    /\ closed \in BOOLEAN /\ done \in BOOLEAN /\ wpc \in WorkerSteps
    /\ queue \in Seq(Copy) /\ batch \in Seq(Copy) /\ memory \in Seq(Copy)
    /\ posted \subseteq Record /\ failed \subseteq Ids /\ late \subseteq Calls
    /\ SpanTypes

---------------------------------------------------------------------------
(* Ownership of the Span objects. *)

Owns(c) == pc[c] \in {"do", "end", "release", "export"}

Ownership ==
    /\ \A c \in Calls : Owns(c) => obj[c] \in DOMAIN span /\ obj[c] \notin free
    /\ \A c, d \in Calls : Owns(c) /\ Owns(d) /\ obj[c] = obj[d] => c = d

\* What the object of a call holds: its own attributes and, after next.Do, the
\* status of its own outcome.
Contents(c, s) ==
    /\ s.tracer = TRUE /\ s.ctx.id = c /\ s.notes = {c}
    /\ s.status = IF pc[c] = "do" THEN "unset" ELSE StatusOf(outcome[c])
    /\ pc[c] \in {"do", "end"} => s.ended = FALSE
    /\ pc[c] = "export" => s.ctx.sampled = TRUE

OwnInv == Ownership /\ \A c \in Calls : Owns(c) => Contents(c, span[obj[c]])

\* The copy that Export and MemoryExporter.Export make of the call's own object.
Snapped(c, h) ==
    /\ h \in Copy /\ h.ctx.id = c /\ h.ctx.sampled = TRUE
    /\ h.notes = {c} /\ h.status = StatusOf(outcome[c])

\* The copy a call holds between Export's copying and its queueing.
SnapInv == \A c \in Calls : pc[c] = "enqueue" => kind = "otlp" /\ Snapped(c, snap[c])

ObjInv == TypeOK /\ OwnInv /\ SnapInv

---------------------------------------------------------------------------
(* The initial state, and what a step leaves alone. *)

LEMMA OwnedSpan ==
    ASSUME TypeOK, OwnInv, NEW c \in Calls, Owns(c)
    PROVE  obj[c] \in DOMAIN span /\ span[obj[c]] \in SpanObject /\ Contents(c, span[obj[c]])
  <1>1. obj[c] \in DOMAIN span /\ Contents(c, span[obj[c]])
    BY ZenonT(30) DEF OwnInv, Ownership
  <1> QED
    BY <1>1 DEF TypeOK, SpanTypes

LEMMA InitObjects == Init => ObjInv
  <1> SUFFICES ASSUME Init PROVE ObjInv
    OBVIOUS
  <1>1. TypeOK
    <2>1. span = <<>> /\ span \in Seq(SpanObject) /\ free \subseteq DOMAIN span
      BY DEF Init
    <2>2. SpanTypes
      BY <2>1 DEF Init, SpanTypes
    <2>3. queue \in Seq(Copy) /\ batch \in Seq(Copy) /\ memory \in Seq(Copy)
      BY DEF Init
    <2> QED
      BY ZenonT(30), <2>2, <2>3 DEF Init, TypeOK, CallSteps, WorkerSteps, CloserSteps
  <1>2. OwnInv
    BY DEF Init, OwnInv, Ownership, Owns
  <1>3. SnapInv
    BY ZenonT(30) DEF Init, SnapInv
  <1> QED
    BY <1>1, <1>2, <1>3 DEF ObjInv

LEMMA OwnFrame ==
    ASSUME OwnInv, UNCHANGED <<span, free, obj, outcome>>,
           \A d \in Calls : pc'[d] = pc[d] \/ (~Owns(d) /\ ~Owns(d)')
    PROVE  OwnInv'
  BY DEF OwnInv, Ownership, Owns, Contents

\* A step that makes no copy keeps the copies that calls hold.
LEMMA SnapFrame ==
    ASSUME TypeOK, SnapInv, NEW c \in Calls, NEW l \in CallSteps \ {"enqueue"},
           pc' = [pc EXCEPT ![c] = l], kind' = kind,
           \A d \in Calls : d # c => outcome'[d] = outcome[d] /\ snap'[d] = snap[d]
    PROVE  SnapInv'
  <1>1. pc'[c] = l /\ \A d \in Calls : d # c => pc'[d] = pc[d]
    BY DEF TypeOK
  <1>2. ASSUME NEW d \in Calls, pc'[d] = "enqueue" PROVE kind' = "otlp" /\ Snapped(d, snap[d])'
    BY ZenonT(30), <1>1, <1>2 DEF SnapInv, Snapped
  <1> QED
    BY ZenonT(30), <1>2 DEF SnapInv

---------------------------------------------------------------------------
(* The steps of a call. *)

LEMMA BypassKeeps == ASSUME ObjInv, NEW c \in Calls, Bypass(c) PROVE ObjInv'
  <1> USE DEF ObjInv
  <1>1. TypeOK'
    BY DEF Bypass, TypeOK, SpanTypes, CallSteps, tracerVars, spanVars, exporterVars
  <1>2. OwnInv'
    BY OwnFrame DEF Bypass, TypeOK, Owns, spanVars
  <1>3. SnapInv'
    BY ZenonT(30), SnapFrame DEF Bypass, CallSteps, exporterVars, tracerVars
  <1> QED
    BY <1>1, <1>2, <1>3

LEMMA RemoteContext ==
    ASSUME NEW sc \in {ZeroContext} \cup [trace : {Remote}, id : {Remote}, sampled : BOOLEAN]
    PROVE  sc \in Context
  <1>1. CASE sc = ZeroContext
    BY <1>1 DEF Context, ZeroContext, Ids
  <1>2. CASE sc \in [trace : {Remote}, id : {Remote}, sampled : BOOLEAN]
    BY SMTT(30), <1>2 DEF Context, Ids
  <1> QED
    BY <1>1, <1>2

LEMMA StartParentKeeps == ASSUME ObjInv, NEW c \in Calls, StartParent(c) PROVE ObjInv'
  <1> USE DEF ObjInv
  <1>1. TypeOK'
    <2>1. PICK p \in Parent : /\ par' = [par EXCEPT ![c] = p]
                              /\ p.from # Nil => p.from \in DOMAIN span
      <3>1. CASE \E d \in Calls : /\ obj[d] # Nil
                                   /\ par' = [par EXCEPT ![c] = [from |-> obj[d], ctx |-> span[obj[d]].ctx]]
        <4>1. PICK d \in Calls : /\ obj[d] # Nil
                                 /\ par' = [par EXCEPT ![c] = [from |-> obj[d], ctx |-> span[obj[d]].ctx]]
          BY ZenonT(30), <3>1
        <4>2. obj[d] \in DOMAIN span /\ obj[d] \in Nat \cup {Nil}
          BY <4>1 DEF TypeOK, SpanTypes
        <4>3. span[obj[d]] \in SpanObject
          BY <4>2 DEF TypeOK, SpanTypes
        <4>4. [from |-> obj[d], ctx |-> span[obj[d]].ctx] \in Parent
          BY <4>2, <4>3 DEF Parent, SpanObject
        <4> QED
          BY ZenonT(30), <4>1, <4>2, <4>4
      <3>2. CASE \E sc \in {ZeroContext} \cup [trace : {Remote}, id : {Remote}, sampled : BOOLEAN] :
                    par' = [par EXCEPT ![c] = [from |-> Nil, ctx |-> sc]]
        <4>1. PICK sc \in {ZeroContext} \cup [trace : {Remote}, id : {Remote}, sampled : BOOLEAN] :
                    par' = [par EXCEPT ![c] = [from |-> Nil, ctx |-> sc]]
          BY ZenonT(30), <3>2
        <4>2. sc \in Context
          BY RemoteContext
        <4>3. [from |-> Nil, ctx |-> sc] \in Parent
          BY <4>2 DEF Parent
        <4> QED
          BY ZenonT(30), <4>1, <4>3
      <3> QED
        BY <3>1, <3>2 DEF StartParent
    <2> QED
      BY SMTT(30), <2>1 DEF StartParent, TypeOK, SpanTypes, CallSteps, tracerVars, spanVars, exporterVars
  <1>2. OwnInv'
    BY SMTT(30), OwnFrame DEF StartParent, TypeOK, Owns, spanVars
  <1>3. SnapInv'
    BY ZenonT(30), SnapFrame DEF StartParent, CallSteps, exporterVars, tracerVars
  <1> QED
    BY <1>1, <1>2, <1>3

LEMMA SpanTable ==
    ASSUME NEW S, NEW t \in Seq(S), NEW i \in DOMAIN t \cup {Len(t) + 1}, NEW e \in S
    PROVE  LET u == [j \in DOMAIN t \cup {i} |-> IF j = i THEN e ELSE t[j]]
           IN  /\ u \in Seq(S) /\ DOMAIN u = DOMAIN t \cup {i} /\ u[i] = e
               /\ \A j \in DOMAIN t : j # i => u[j] = t[j]
  <1> DEFINE u == [j \in DOMAIN t \cup {i} |-> IF j = i THEN e ELSE t[j]]
  <1>1. Len(t) \in Nat /\ DOMAIN t = 1 .. Len(t)
    OBVIOUS
  <1>2. PICK n \in Nat : DOMAIN t \cup {i} = 1 .. n
    <2>1. CASE i \in DOMAIN t
      BY <1>1, <2>1
    <2>2. CASE i = Len(t) + 1
      BY <1>1, <2>2
    <2> QED
      BY <2>1, <2>2
  <1>3. \A j \in 1 .. n : u[j] \in S
    BY <1>1, <1>2
  <1>4. u \in [1 .. n -> S]
    BY <1>2, <1>3
  <1>5. DOMAIN u = DOMAIN t \cup {i} /\ u[i] = e /\ \A j \in DOMAIN t : j # i => u[j] = t[j]
    OBVIOUS
  <1>6. u \in Seq(S)
    <2> HIDE DEF u
    <2> QED
      BY <1>4
  <1> QED
    BY ZenonT(30), <1>5, <1>6

LEMMA ParentTyped ==
    ASSUME TypeOK, NEW c \in Calls, pc[c] = "start"
    PROVE  ParentContext(c) \in Context
  <1>1. par[c] \in Parent /\ (par[c].from # Nil => par[c].from \in DOMAIN span)
    BY DEF TypeOK, SpanTypes
  <1>2. par[c].ctx \in Context
    BY <1>1 DEF Parent
  <1>3. CASE par[c].from # Nil
    <2>1. span[par[c].from] \in SpanObject
      BY <1>1, <1>3 DEF TypeOK, SpanTypes
    <2>2. span[par[c].from].ctx \in Context
      BY <2>1 DEF SpanObject
    <2> QED
      BY <1>2, <1>3, <2>2 DEF ParentContext, Context
  <1>4. CASE par[c].from = Nil
    BY <1>2, <1>4 DEF ParentContext
  <1> QED
    BY <1>3, <1>4

\* What acquireSpan makes of an object.
NewSpan(c, parent, yes) ==
    Acquired([trace |-> TraceOf(c, parent), id |-> c, sampled |-> yes], parent, {c})

Fresh(c, s) ==
    /\ s \in SpanObject /\ s.tracer = TRUE /\ s.ctx.id = c /\ s.notes = {c}
    /\ s.status = "unset" /\ s.ended = FALSE

LEMMA AcquiredFields ==
    ASSUME NEW c \in Calls, NEW parent \in Context, NEW A, A \subseteq BOOLEAN, NEW yes \in A
    PROVE  Fresh(c, NewSpan(c, parent, yes))
  <1> DEFINE sc == [trace |-> TraceOf(c, parent), id |-> c, sampled |-> yes]
             pid == IF IsValid(parent) THEN parent.id ELSE Nil
  <1>1. TraceOf(c, parent) \in Ids /\ pid \in Ids
    BY DEF TraceOf, Ids, Context
  <1>2. sc \in Context /\ sc.id = c
    BY <1>1 DEF Context, Ids
  <1> HIDE DEF sc, pid
  <1>3. NewSpan(c, parent, yes) =
          [tracer |-> TRUE, ctx |-> sc, parent |-> pid, status |-> "unset", notes |-> {c}, ended |-> FALSE]
    BY DEF NewSpan, Acquired, pid, sc
  <1>4. [tracer |-> TRUE, ctx |-> sc, parent |-> pid, status |-> "unset", notes |-> {c}, ended |-> FALSE]
          \in SpanObject
    BY <1>1, <1>2 DEF SpanObject, Status
  <1> QED
    BY <1>2, <1>3, <1>4 DEF Fresh

LEMMA StartKeeps == ASSUME ObjInv, NEW c \in Calls, Start(c) PROVE ObjInv'
  <1> USE DEF ObjInv
  <1> DEFINE parent == ParentContext(c)
  <1>1. parent \in Context /\ ShouldSample(parent) \subseteq BOOLEAN
    <2>1. parent \in Context
      BY ParentTyped DEF Start
    <2> QED
      BY ZenonT(30), <2>1 DEF ShouldSample, TypeOK, Context
  <1>2. PICK s \in free \cup {Len(span) + 1}, yes \in ShouldSample(parent) :
          /\ free' = free \ {s} /\ obj' = [obj EXCEPT ![c] = s]
          /\ span' = [i \in DOMAIN span \cup {s} |->
                        IF i = s THEN NewSpan(c, parent, yes) ELSE span[i]]
    BY ZenonT(30) DEF Start, NewSpan
  <1> DEFINE new == NewSpan(c, parent, yes)
  <1>3. /\ new \in SpanObject /\ new.tracer = TRUE /\ new.ctx.id = c /\ new.notes = {c}
        /\ new.status = "unset" /\ new.ended = FALSE
    <2>1. Fresh(c, new)
      <3> HIDE DEF parent
      <3> QED
        BY <1>1, AcquiredFields
    <2> HIDE DEF new
    <2> QED
      BY <2>1 DEF Fresh
  <1>4. span' = [i \in DOMAIN span \cup {s} |-> IF i = s THEN new ELSE span[i]]
    BY <1>2
  <1> HIDE DEF new, parent
  <1>5. s \in DOMAIN span \cup {Len(span) + 1} /\ span \in Seq(SpanObject) /\ s \in Nat
    BY DEF TypeOK, SpanTypes
  <1>6. /\ span' \in Seq(SpanObject) /\ DOMAIN span' = DOMAIN span \cup {s} /\ span'[s] = new
        /\ \A j \in DOMAIN span : j # s => span'[j] = span[j]
    BY SMTT(30), <1>3, <1>4, <1>5, SpanTable
  <1>7. /\ pc' = [pc EXCEPT ![c] = "do"] /\ par' = [par EXCEPT ![c] = Nil]
        /\ outcome' = outcome /\ snap' = snap /\ kpc' = kpc /\ kind' = kind /\ pc[c] = "start"
    BY DEF Start, tracerVars
  <1>8. SpanTypes'
    <2>1. free' \subseteq DOMAIN span' /\ obj' \in [Calls -> Nat \cup {Nil}]
      BY <1>2, <1>5, <1>6 DEF TypeOK, SpanTypes
    <2>2. par' \in [Calls -> Parent \cup {Nil}]
      BY <1>7 DEF TypeOK, SpanTypes
    <2>3. ASSUME NEW d \in Calls, obj'[d] # Nil PROVE obj'[d] \in DOMAIN span'
      BY <1>2, <1>6, <2>3 DEF TypeOK, SpanTypes
    <2>4. ASSUME NEW d \in Calls, pc'[d] = "start"
          PROVE  par'[d] \in Parent /\ (par'[d].from # Nil => par'[d].from \in DOMAIN span')
      <3>1. d # c /\ pc[d] = "start" /\ par'[d] = par[d]
        BY <1>7, <2>4 DEF TypeOK, SpanTypes
      <3> QED
        BY <3>1, <1>6 DEF TypeOK, SpanTypes
    <2> QED
      BY <1>6, <2>1, <2>2, <2>3, <2>4 DEF SpanTypes
  <1>9. TypeOK'
    BY SMTT(30), <1>7, <1>8 DEF Start, TypeOK, CallSteps, tracerVars, exporterVars
  <1>10. OwnInv'
    <2>1. Owns(c)' /\ obj'[c] = s /\ s \in DOMAIN span' /\ s \notin free'
      BY SMTT(30), <1>2, <1>6, <1>7 DEF Owns, TypeOK, SpanTypes
    <2>2. ASSUME NEW d \in Calls, d # c, Owns(d)'
          PROVE  /\ Owns(d) /\ obj'[d] = obj[d] /\ obj[d] \in DOMAIN span /\ obj[d] \notin free /\ obj[d] # s
                 /\ pc'[d] = pc[d]
      <3>1. Owns(d) /\ obj'[d] = obj[d] /\ pc'[d] = pc[d]
        BY SMTT(30), <1>2, <1>7, <2>2 DEF Owns, TypeOK, SpanTypes
      <3>2. obj[d] \in DOMAIN span /\ obj[d] \notin free
        BY SMTT(30), <3>1 DEF OwnInv, Ownership
      <3> QED
        BY SMTT(30), <3>1, <3>2, <1>5
    <2>3. Ownership'
      BY SMTT(30), <2>1, <2>2, <1>2, <1>6 DEF OwnInv, Ownership
    <2>4. Contents(c, span[obj[c]])'
      BY ZenonT(30), <2>1, <1>3, <1>6, <1>7 DEF Contents, TypeOK
    <2>5. ASSUME NEW d \in Calls, d # c, Owns(d)' PROVE Contents(d, span[obj[d]])'
      BY <2>2, <2>5, <1>6, <1>7 DEF Contents, OwnInv
    <2> QED
      BY SMTT(30), <2>3, <2>4, <2>5 DEF OwnInv
  <1>11. SnapInv'
    BY ZenonT(30), <1>7, SnapFrame DEF Start, CallSteps, exporterVars, tracerVars
  <1> QED
    BY <1>9, <1>10, <1>11

LEMMA ObjectUpdate ==
    ASSUME TypeOK, OwnInv, NEW c \in Calls, Owns(c), NEW e \in SpanObject, NEW l \in CallSteps \ {"start"},
           span' = [span EXCEPT ![obj[c]] = e], free' \subseteq free \cup {obj[c]},
           pc' = [pc EXCEPT ![c] = l], UNCHANGED <<obj, par>>,
           \A d \in Calls : d # c => outcome'[d] = outcome[d],
           Owns(c)' => free' = free /\ Contents(c, e)'
    PROVE  SpanTypes' /\ OwnInv'
  <1>1. obj[c] \in DOMAIN span /\ obj[c] \notin free /\ span \in Seq(SpanObject)
    BY ZenonT(30) DEF OwnInv, Ownership, TypeOK, SpanTypes
  <1>2. /\ span' \in Seq(SpanObject) /\ DOMAIN span' = DOMAIN span /\ span'[obj[c]] = e
        /\ \A j \in DOMAIN span : j # obj[c] => span'[j] = span[j]
    BY SMTT(30), <1>1
  <1>3. \A d \in Calls : d # c => pc'[d] = pc[d]
    BY ZenonT(30) DEF TypeOK
  <1>4. SpanTypes'
    <2>1. ASSUME NEW d \in Calls, pc'[d] = "start" PROVE pc[d] = "start"
      BY SMTT(30), <2>1, <1>3 DEF TypeOK
    <2> QED
      BY <1>1, <1>2, <2>1 DEF TypeOK, SpanTypes
  <1>5. ASSUME NEW d \in Calls, d # c, Owns(d)'
        PROVE  Owns(d) /\ obj[d] \in DOMAIN span /\ obj[d] \notin free /\ obj[d] # obj[c] /\ pc'[d] = pc[d]
    BY SMTT(30), <1>3, <1>5 DEF Owns, OwnInv, Ownership
  <1>6. Ownership'
    BY SMTT(30), <1>1, <1>2, <1>5 DEF OwnInv, Ownership
  <1>7. ASSUME NEW d \in Calls, d # c, Owns(d)' PROVE Contents(d, span[obj[d]])'
    BY SMTT(30), <1>2, <1>5, <1>7 DEF Contents, OwnInv
  <1>8. Owns(c)' => Contents(c, span[obj[c]])'
    BY <1>2 DEF Contents
  <1> QED
    BY ZenonT(30), <1>4, <1>6, <1>7, <1>8 DEF OwnInv

\* A span of call c that is being recorded, with a status.
Recording(c, s, st) ==
    /\ s \in SpanObject /\ s.tracer = TRUE /\ s.ctx.id = c /\ s.notes = {c}
    /\ s.status = st /\ s.ended = FALSE

LEMMA StatusSet ==
    ASSUME NEW c, NEW s, Recording(c, s, "unset"), NEW st \in Status
    PROVE  Recording(c, [s EXCEPT !.status = st], st)
  BY DEF SpanObject, Recording

LEMMA NotesKept ==
    ASSUME NEW c, NEW s, NEW st, Recording(c, s, st)
    PROVE  AddEvent(s, c) = s /\ SetAttributes(s, c) = s /\ [s EXCEPT !.status = st] = s
  <1>1. [s EXCEPT !.notes = @ \cup {c}] = s /\ [s EXCEPT !.status = st] = s
    BY DEF SpanObject, Recording
  <1> QED
    BY <1>1 DEF AddEvent, SetAttributes, Recording

LEMMA ResponseStatusOf ==
    ASSUME NEW r \in Results, ~r.err, r.some
    PROVE  ResponseStatus(r) \in Status /\ StatusOf(r) = ResponseStatus(r)
  <1>1. r.code \in Nat
    BY ResultsAssumption
  <1>2. r.code >= 400 <=> ~(r.code < 400)
    BY <1>1
  <1> QED
    BY ZenonT(30), <1>2 DEF ResponseStatus, StatusOf, Status

LEMMA RecordedFields ==
    ASSUME NEW c, NEW s, NEW r \in Results, Recording(c, s, "unset")
    PROVE  Recording(c, Recorded(s, r, c), StatusOf(r))
  <1>1. s.ended = FALSE
    BY DEF Recording
  <1>2. CASE r.err
    <2>1. SetStatus(s, "error") = [s EXCEPT !.status = "error"]
      BY <1>1 DEF SetStatus
    <2> DEFINE n == [s EXCEPT !.status = "error"]
    <2>2. Recording(c, n, "error")
      BY ZenonT(30), StatusSet DEF Status
    <2>3. RecordError(s, c) = n
      BY <2>1, NotesKept DEF RecordError
    <2> HIDE DEF n
    <2>4. SetAttributes(n, c) = n /\ SetStatus(n, "error") = n
      BY <2>2, NotesKept DEF SetStatus
    <2>5. Recorded(s, r, c) = n /\ StatusOf(r) = "error"
      BY <1>2, <2>3, <2>4 DEF Recorded, StatusOf
    <2> QED
      BY ZenonT(30), <2>2, <2>5
  <1>3. CASE ~r.err /\ r.some
    <2>1. Recorded(s, r, c) = [s EXCEPT !.status = ResponseStatus(r)]
      BY <1>1, <1>3, NotesKept DEF Recorded, SetStatus
    <2>2. PICK st \in Status : st = ResponseStatus(r) /\ StatusOf(r) = st
      BY <1>3, ResponseStatusOf
    <2>3. Recording(c, [s EXCEPT !.status = st], st)
      BY StatusSet
    <2> QED
      BY ZenonT(30), <2>1, <2>2, <2>3
  <1>4. CASE ~r.err /\ ~r.some
    BY ZenonT(30), <1>4 DEF Recorded, StatusOf
  <1> QED
    BY ZenonT(30), <1>2, <1>3, <1>4

LEMMA DoKeeps == ASSUME ObjInv, NEW c \in Calls, NEW r \in Results, Do(c, r) PROVE ObjInv'
  <1> USE DEF ObjInv
  <1>1. /\ pc[c] = "do" /\ pc' = [pc EXCEPT ![c] = "end"] /\ outcome' = [outcome EXCEPT ![c] = r]
        /\ obj' = obj /\ par' = par /\ snap' = snap /\ free' = free /\ kpc' = kpc /\ kind' = kind
    BY SMTT(30) DEF Do, tracerVars
  <1>2. Owns(c) /\ obj[c] \in DOMAIN span /\ span[obj[c]] \in SpanObject /\ Contents(c, span[obj[c]])
    BY ZenonT(30), <1>1, OwnedSpan DEF Owns
  <1>3. Recording(c, span[obj[c]], "unset")
    BY <1>1, <1>2 DEF Recording, Contents
  <1>4. PICK new : new = Recorded(span[obj[c]], r, c)
    OBVIOUS
  <1>5. Recording(c, new, StatusOf(r))
    BY ZenonT(30), <1>3, <1>4, RecordedFields
  <1>6. span' = [span EXCEPT ![obj[c]] = new]
    BY ZenonT(30), <1>4 DEF Do
  <1>7. new \in SpanObject
    BY SMTT(30), <1>5 DEF Recording
  <1>8. Contents(c, new)'
    <2>1. pc'[c] = "end" /\ outcome'[c] = r
      BY <1>1 DEF TypeOK
    <2> QED
      BY <1>5, <2>1 DEF Contents, Recording
  <1>9. "end" \in CallSteps \ {"start"} /\ \A d \in Calls : d # c => outcome'[d] = outcome[d]
    BY <1>1 DEF CallSteps, TypeOK
  <1>10. SpanTypes' /\ OwnInv'
    BY ZenonT(30), <1>1, <1>2, <1>6, <1>7, <1>8, <1>9, ObjectUpdate
  <1>11. TypeOK'
    BY <1>1, <1>10 DEF Do, TypeOK, CallSteps, tracerVars, exporterVars
  <1>12. SnapInv'
    BY ZenonT(30), <1>1, <1>9, SnapFrame DEF Do, CallSteps, exporterVars, tracerVars
  <1> QED
    BY <1>10, <1>11, <1>12

LEMMA EndKeeps == ASSUME ObjInv, NEW c \in Calls, End(c) PROVE ObjInv'
  <1> USE DEF ObjInv
  <1>1. /\ pc[c] = "end" /\ outcome' = outcome
        /\ obj' = obj /\ par' = par /\ snap' = snap /\ free' = free /\ kpc' = kpc /\ kind' = kind
    BY DEF End, tracerVars
  <1>2. PICK s : s = span[obj[c]]
    BY ZenonT(30)
  <1>3. Owns(c) /\ obj[c] \in DOMAIN span /\ s \in SpanObject /\ Contents(c, s)
    BY SMTT(30), <1>1, <1>2 DEF Owns, OwnInv, Ownership, TypeOK, SpanTypes
  <1>4. s.ended = FALSE /\ s.tracer = TRUE
    BY ZenonT(30), <1>1, <1>3 DEF Contents
  <1>5. PICK l : l = ProcessSpan(s)
    OBVIOUS
  <1>6. l \in {"release", "export"} /\ (l = "export" => s.ctx.sampled = TRUE)
    BY <1>3, <1>5 DEF ProcessSpan, SpanObject, Context
  <1>7. pc' = [pc EXCEPT ![c] = l]
    BY ZenonT(30), <1>2, <1>4, <1>5 DEF End
  <1>8. PICK new : new = [s EXCEPT !.ended = TRUE]
    BY ZenonT(30)
  <1>9. span' = [span EXCEPT ![obj[c]] = new]
    BY <1>2, <1>8 DEF End
  <1>10. /\ new \in SpanObject /\ new.tracer = s.tracer /\ new.ctx = s.ctx /\ new.notes = s.notes
         /\ new.status = s.status
    BY ZenonT(30), <1>3, <1>8 DEF SpanObject
  <1>11. Contents(c, new)'
    <2>1. pc'[c] = l
      BY <1>7 DEF TypeOK
    <2> QED
      BY <1>1, <1>3, <1>6, <1>10, <2>1 DEF Contents
  <1>12. l \in CallSteps \ {"start", "enqueue"}
    BY <1>6 DEF CallSteps
  <1>13. SpanTypes' /\ OwnInv'
    BY ZenonT(30), <1>1, <1>3, <1>7, <1>9, <1>10, <1>11, <1>12, ObjectUpdate
  <1>14. TypeOK'
    BY <1>1, <1>7, <1>12, <1>13 DEF End, TypeOK, CallSteps, tracerVars, exporterVars
  <1>15. SnapInv'
    BY ZenonT(30), <1>1, <1>7, <1>12, SnapFrame DEF End, exporterVars, tracerVars
  <1> QED
    BY <1>13, <1>14, <1>15

LEMMA SnapshotFields ==
    ASSUME NEW c, NEW s \in SpanObject, pc[c] = "export", Contents(c, s)
    PROVE  Snapped(c, Snapshot(s))
  BY DEF Snapped, Snapshot, SpanObject, Copy, Contents

LEMMA ReleasedTyped ==
    ASSUME NEW s \in SpanObject PROVE Released(s) \in SpanObject
  <1>1. ZeroContext \in Context
    BY RemoteContext
  <1> QED
    BY ZenonT(30), <1>1 DEF SpanObject, Released, Ids

LEMMA ReleaseKeeps ==
    ASSUME TypeOK, OwnInv, NEW c \in Calls, pc[c] \in {"release", "export"},
           NEW l \in {"enqueue", "returned"}, pc' = [pc EXCEPT ![c] = l],
           ReleaseSpan(obj[c]), UNCHANGED <<obj, par, outcome>>
    PROVE  SpanTypes' /\ OwnInv'
  <1>1. Owns(c) /\ obj[c] \in DOMAIN span /\ span[obj[c]] \in SpanObject
    BY ZenonT(30), OwnedSpan DEF Owns
  <1>2. PICK new : new = Released(span[obj[c]])
    OBVIOUS
  <1>3. new \in SpanObject
    BY ZenonT(30), <1>1, <1>2, ReleasedTyped
  <1>4. span' = [span EXCEPT ![obj[c]] = new] /\ free' \subseteq free \cup {obj[c]}
    BY <1>2 DEF ReleaseSpan
  <1>5. l \in CallSteps \ {"start"} /\ ~Owns(c)'
    BY DEF CallSteps, Owns, TypeOK
  <1> QED
    BY ZenonT(30), <1>1, <1>3, <1>4, <1>5, ObjectUpdate

LEMMA DiscardKeeps == ASSUME ObjInv, NEW c \in Calls, Discard(c) PROVE ObjInv'
  <1> USE DEF ObjInv
  <1>1. /\ pc[c] = "release" /\ pc' = [pc EXCEPT ![c] = "returned"] /\ ReleaseSpan(obj[c]) /\ outcome' = outcome
        /\ obj' = obj /\ par' = par /\ snap' = snap /\ kpc' = kpc /\ kind' = kind
    BY DEF Discard, tracerVars
  <1>2. SpanTypes' /\ OwnInv'
    BY ZenonT(30), <1>1, ReleaseKeeps
  <1>3. TypeOK'
    BY <1>1, <1>2 DEF Discard, TypeOK, CallSteps, tracerVars, exporterVars
  <1>4. SnapInv'
    BY ZenonT(30), <1>1, SnapFrame DEF Discard, CallSteps, exporterVars, tracerVars
  <1> QED
    BY <1>2, <1>3, <1>4

LEMMA ExportKeeps == ASSUME ObjInv, NEW c \in Calls, Export(c) PROVE ObjInv'
  <1> USE DEF ObjInv
  <1>1. /\ pc[c] = "export" /\ kind = "otlp" /\ pc' = [pc EXCEPT ![c] = "enqueue"] /\ ReleaseSpan(obj[c]) /\ outcome' = outcome
        /\ obj' = obj /\ par' = par /\ kpc' = kpc /\ kind' = kind
        /\ queue' = queue /\ batch' = batch /\ memory' = memory /\ posted' = posted /\ failed' = failed
    BY DEF Export, tracerVars, exporterVars
  <1>2. SpanTypes' /\ OwnInv'
    BY ZenonT(30), <1>1, ReleaseKeeps
  <1>3. span[obj[c]] \in SpanObject /\ Contents(c, span[obj[c]])
    BY ZenonT(30), <1>1, OwnedSpan DEF Owns
  <1>4. PICK h : h = Snapshot(span[obj[c]])
    OBVIOUS
  <1>5. Snapped(c, h)
    BY ZenonT(30), <1>1, <1>3, <1>4, SnapshotFields
  <1>6. snap' = [snap EXCEPT ![c] = h] /\ h \in Copy
    BY SMTT(30), <1>4, <1>5 DEF Export, Snapped
  <1>7. TypeOK'
    BY ZenonT(30), <1>1, <1>2, <1>6 DEF Export, TypeOK, CallSteps, tracerVars, exporterVars
  <1>8. SnapInv'
    <2>1. pc'[c] = "enqueue" /\ snap'[c] = h
      BY <1>1, <1>6 DEF TypeOK
    <2>2. \A d \in Calls : d # c => pc'[d] = pc[d] /\ snap'[d] = snap[d]
      BY <1>1, <1>6 DEF TypeOK
    <2>3. ASSUME NEW d \in Calls, pc'[d] = "enqueue" PROVE kind' = "otlp" /\ Snapped(d, snap[d])'
      <3>1. CASE d = c
        BY <1>1, <1>5, <2>1, <3>1 DEF Snapped
      <3>2. CASE d # c
        BY ZenonT(30), <1>1, <2>2, <2>3, <3>2 DEF SnapInv, Snapped
      <3> QED
        BY <3>1, <3>2
    <2> QED
      BY ZenonT(30), <2>3 DEF SnapInv
  <1> QED
    BY <1>2, <1>7, <1>8

LEMMA ExportEnqueueKeeps == ASSUME ObjInv, NEW c \in Calls, ExportEnqueue(c) PROVE ObjInv'
  <1> USE DEF ObjInv
  <1>1. /\ pc[c] = "enqueue" /\ pc' = [pc EXCEPT ![c] = "returned"] /\ outcome' = outcome
        /\ snap' = [snap EXCEPT ![c] = Nil] /\ span' = span /\ free' = free
        /\ obj' = obj /\ par' = par /\ kpc' = kpc /\ kind' = kind /\ sampler' = sampler /\ closed' = closed
        /\ batch' = batch /\ memory' = memory /\ posted' = posted /\ failed' = failed
        /\ done' = done /\ wpc' = wpc
    BY DEF ExportEnqueue, tracerVars, spanVars
  <1>2. pc'[c] = "returned" /\ \A d \in Calls : d # c => pc'[d] = pc[d] /\ snap'[d] = snap[d]
    BY ZenonT(30), <1>1 DEF TypeOK
  <1>3. snap[c] \in Copy
    BY <1>1 DEF SnapInv, Snapped
  <1>4. queue' \in Seq(Copy) /\ late' \subseteq Calls
    <2>1. queue \in Seq(Copy) /\ late \subseteq Calls
      BY DEF TypeOK
    <2>2. queue' = queue \/ queue' = Append(queue, snap[c])
      BY DEF ExportEnqueue
    <2>3. late' = late \/ late' = late \cup {c}
      BY SMTT(30) DEF ExportEnqueue
    <2> QED
      BY <1>3, <2>1, <2>2, <2>3
  <1>5. SpanTypes'
    BY <1>1, <1>2 DEF TypeOK, SpanTypes
  <1>6. TypeOK'
    BY <1>1, <1>4, <1>5 DEF TypeOK, CallSteps
  <1>7. OwnInv'
    <2>1. \A d \in Calls : pc'[d] = pc[d] \/ (~Owns(d) /\ ~Owns(d)')
      BY <1>1, <1>2 DEF Owns
    <2> QED
      BY ZenonT(30), <1>1, <2>1, OwnFrame
  <1>8. SnapInv'
    BY ZenonT(30), <1>1, <1>2, SnapFrame DEF CallSteps
  <1> QED
    BY <1>6, <1>7, <1>8

LEMMA ExportMemoryKeeps == ASSUME ObjInv, NEW c \in Calls, ExportMemory(c) PROVE ObjInv'
  <1> USE DEF ObjInv
  <1>1. /\ pc[c] = "export" /\ pc' = [pc EXCEPT ![c] = "returned"] /\ outcome' = outcome
        /\ snap' = snap /\ ReleaseSpan(obj[c])
        /\ obj' = obj /\ par' = par /\ kpc' = kpc /\ kind' = kind /\ sampler' = sampler /\ closed' = closed
        /\ queue' = queue /\ batch' = batch /\ posted' = posted /\ failed' = failed
        /\ done' = done /\ wpc' = wpc /\ late' = late
    BY DEF ExportMemory, tracerVars
  <1>2. SpanTypes' /\ OwnInv'
    BY ZenonT(30), <1>1, ReleaseKeeps
  <1>3. span[obj[c]] \in SpanObject /\ Contents(c, span[obj[c]])
    BY ZenonT(30), <1>1, OwnedSpan DEF Owns
  <1>4. Snapshot(span[obj[c]]) \in Copy
    BY ZenonT(30), <1>1, <1>3, SnapshotFields DEF Snapped
  <1>5. memory' \in Seq(Copy)
    BY <1>4 DEF ExportMemory, TypeOK
  <1>6. TypeOK'
    BY <1>1, <1>2, <1>5 DEF TypeOK, CallSteps
  <1>7. SnapInv'
    BY ZenonT(30), <1>1, SnapFrame DEF CallSteps
  <1> QED
    BY <1>2, <1>6, <1>7

---------------------------------------------------------------------------
(* The worker and Shutdown touch no call. *)

LEMMA CallsFrame ==
    ASSUME OwnInv, SpanTypes, SnapInv, UNCHANGED <<spanVars, callVars>>, kind' = kind
    PROVE  OwnInv' /\ SpanTypes' /\ SnapInv' /\ pc' = pc /\ outcome' = outcome /\ snap' = snap
  <1>1. /\ span' = span /\ free' = free /\ pc' = pc /\ obj' = obj /\ par' = par /\ outcome' = outcome
        /\ snap' = snap
    BY ZenonT(30) DEF spanVars, callVars
  <1>2. OwnInv'
    BY ZenonT(30), <1>1, OwnFrame
  <1>3. SpanTypes'
    BY ZenonT(30), <1>1 DEF SpanTypes
  <1>4. SnapInv'
    BY ZenonT(30), <1>1 DEF SnapInv, Snapped
  <1> QED
    BY ZenonT(30), <1>1, <1>2, <1>3, <1>4

\* What sendBatch makes of a batch.
LEMMA RecordTypes ==
    ASSUME NEW b \in Seq(Copy)
    PROVE  BuildOTLPJSON(b) \subseteq Record /\ {b[i].ctx.id : i \in DOMAIN b} \subseteq Ids
  <1>1. ASSUME NEW h \in Copy PROVE OTLPSpan(h) \in Record /\ h.ctx.id \in Ids
    BY DEF OTLPSpan, Copy, Record, Context
  <1>2. \A i \in DOMAIN b : b[i] \in Copy
    OBVIOUS
  <1> QED
    BY ZenonT(30), <1>1, <1>2 DEF BuildOTLPJSON

LEMMA WorkerKeeps == ASSUME ObjInv, WorkerNext PROVE ObjInv'
  <1> USE DEF ObjInv
  <1>1. /\ kpc' = kpc /\ kind' = kind /\ sampler' = sampler /\ closed' = closed /\ UNCHANGED <<spanVars, callVars>>
        /\ memory' = memory /\ done' = done /\ late' = late
    BY ZenonT(30) DEF WorkerNext, WorkerTake, WorkerTick, WorkerDone, WorkerDrained, WorkerPost, tracerVars
  <1>2. OwnInv' /\ SpanTypes' /\ SnapInv' /\ pc' = pc /\ outcome' = outcome /\ snap' = snap
    BY ZenonT(30), <1>1, CallsFrame DEF TypeOK
  <1>3. queue \in Seq(Copy) /\ batch \in Seq(Copy) /\ posted \subseteq Record /\ failed \subseteq Ids /\ wpc \in WorkerSteps
    BY DEF TypeOK
  <1>4. wpc' \in WorkerSteps
    BY ZenonT(30), <1>3 DEF WorkerNext, WorkerTake, WorkerTick, WorkerDone, WorkerDrained, WorkerPost, WorkerSteps
  <1>5. queue' \in Seq(Copy) /\ batch' \in Seq(Copy) /\ posted' \subseteq Record /\ failed' \subseteq Ids
    <2>1. CASE WorkerTake
      <3>1. queue' = Tail(queue) /\ batch' = Append(batch, Head(queue)) /\ queue # <<>> /\ posted' = posted /\ failed' = failed
        BY ZenonT(30), <2>1 DEF WorkerTake
      <3>2. Tail(queue) \in Seq(Copy) /\ Head(queue) \in Copy
        BY <1>3, <3>1
      <3> QED
        BY <1>3, <3>1, <3>2
    <2>2. CASE WorkerTick \/ WorkerDone \/ WorkerDrained
      BY ZenonT(30), <1>3, <2>2 DEF WorkerTick, WorkerDone, WorkerDrained
    <2>3. CASE WorkerPost
      <3>1. /\ queue' = queue /\ batch' = <<>>
            /\ \/ posted' = posted \cup BuildOTLPJSON(batch) /\ failed' = failed
               \/ failed' = failed \cup {batch[i].ctx.id : i \in DOMAIN batch} /\ posted' = posted
        BY ZenonT(30), <2>3 DEF WorkerPost
      <3>2. BuildOTLPJSON(batch) \subseteq Record /\ {batch[i].ctx.id : i \in DOMAIN batch} \subseteq Ids
        BY ZenonT(30), <1>3, RecordTypes
      <3>3. batch' \in Seq(Copy)
        BY <3>1
      <3> QED
        BY ZenonT(30), <1>3, <3>1, <3>2, <3>3
    <2> QED
      BY ZenonT(30), <2>1, <2>2, <2>3 DEF WorkerNext
  <1>6. TypeOK'
    BY ZenonT(30), <1>1, <1>2, <1>4, <1>5 DEF TypeOK
  <1> QED
    BY ZenonT(30), <1>2, <1>6

LEMMA CloserKeeps == ASSUME ObjInv, NEW k \in Closers, CloserNext(k) PROVE ObjInv'
  <1> USE DEF ObjInv
  <1>1. /\ kind' = kind /\ sampler' = sampler /\ closed' \in BOOLEAN /\ UNCHANGED <<spanVars, callVars>>
        /\ queue' = queue /\ batch' = batch /\ posted' = posted /\ failed' = failed
        /\ late' = late /\ wpc' = wpc /\ (done' = done \/ done' = TRUE)
        /\ (memory' = memory \/ memory' = <<>>)
    BY ZenonT(30) DEF CloserNext, TracerShutdown, MemoryShutdown, ShutdownCheck, ShutdownClose, ShutdownWait,
           tracerVars, exporterVars, TypeOK
  <1>2. PICK l \in CloserSteps : kpc' = [kpc EXCEPT ![k] = l]
    <2>1. CASE TracerShutdown(k)
      BY ZenonT(30), <2>1 DEF TracerShutdown, TypeOK, CloserSteps
    <2>2. CASE MemoryShutdown(k)
      BY <2>2 DEF MemoryShutdown, CloserSteps
    <2>3. CASE ShutdownCheck(k)
      BY ZenonT(30), <2>3 DEF ShutdownCheck, CloserSteps
    <2>4. CASE ShutdownClose(k)
      BY ZenonT(30), <2>4 DEF ShutdownClose, CloserSteps
    <2>5. CASE ShutdownWait(k)
      BY <2>5 DEF ShutdownWait, CloserSteps
    <2> QED
      BY <2>1, <2>2, <2>3, <2>4, <2>5 DEF CloserNext
  <1>3. OwnInv' /\ SpanTypes' /\ SnapInv' /\ pc' = pc /\ outcome' = outcome /\ snap' = snap
    BY ZenonT(30), <1>1, CallsFrame DEF TypeOK
  <1>4. memory' \in Seq(Copy) /\ done' \in BOOLEAN /\ kpc' \in [Closers -> CloserSteps]
    <2>1. <<>> \in Seq(Copy)
      OBVIOUS
    <2> QED
      BY ZenonT(30), <1>1, <1>2, <2>1 DEF TypeOK
  <1>5. TypeOK'
    BY ZenonT(30), <1>1, <1>3, <1>4 DEF TypeOK
  <1> QED
    BY ZenonT(30), <1>3, <1>5

---------------------------------------------------------------------------
(* The invariant. *)

LEMMA ObjStep == ObjInv /\ [Next]_vars => ObjInv'
  <1> SUFFICES ASSUME ObjInv, [Next]_vars PROVE ObjInv'
    OBVIOUS
  <1>1. CASE UNCHANGED vars
    <2>1. /\ UNCHANGED <<spanVars, callVars>>
          /\ kind' = kind /\ sampler' = sampler /\ closed' = closed /\ kpc' = kpc
          /\ queue' = queue /\ batch' = batch /\ memory' = memory /\ posted' = posted /\ failed' = failed
          /\ wpc' = wpc /\ done' = done /\ late' = late
      BY ZenonT(30), <1>1 DEF vars, tracerVars, exporterVars, callVars
    <2>2. OwnInv' /\ SpanTypes' /\ SnapInv' /\ pc' = pc /\ outcome' = outcome /\ snap' = snap
      BY ZenonT(30), <2>1, CallsFrame DEF ObjInv, TypeOK
    <2>3. TypeOK'
      BY ZenonT(30), <2>1, <2>2 DEF ObjInv, TypeOK
    <2> QED
      BY ZenonT(30), <2>2, <2>3 DEF ObjInv
  <1>2. ASSUME NEW c \in Calls, CallNext(c) PROVE ObjInv'
    BY ZenonT(30), <1>2, BypassKeeps, StartParentKeeps, StartKeeps, DoKeeps, EndKeeps, DiscardKeeps, ExportKeeps,
       ExportEnqueueKeeps, ExportMemoryKeeps DEF CallNext
  <1>3. ASSUME NEW k \in Closers, CloserNext(k) PROVE ObjInv'
    BY ZenonT(30), <1>3, CloserKeeps
  <1>4. CASE WorkerNext
    BY ZenonT(30), <1>4, WorkerKeeps
  <1> QED
    BY ZenonT(30), <1>1, <1>2, <1>3, <1>4 DEF Next

LEMMA Objects == Spec => []ObjInv
  BY InitObjects, ObjStep, PTL DEF Spec

THEOREM TypeCorrect == Spec => []TypeOK
  <1>1. ObjInv => TypeOK
    BY DEF ObjInv
  <1> QED
    BY <1>1, Objects, PTL

THEOREM ObjectsOwned == Spec => []Ownership
  <1>1. ObjInv => Ownership
    BY DEF ObjInv, OwnInv
  <1> QED
    BY <1>1, Objects, PTL

---------------------------------------------------------------------------
(* The copies that are exported. *)

Copies(s) == {s[i] : i \in DOMAIN s}
IdsOf(s) == {s[i].ctx.id : i \in DOMAIN s}
Distinct(s) == \A i, j \in DOMAIN s : s[i].ctx.id = s[j].ctx.id => i = j

\* A copy of the span of a call that has gone on to return.
Genuine(h) ==
    /\ h.ctx.id \in Calls /\ h.ctx.sampled = TRUE /\ pc[h.ctx.id] = "returned"
    /\ h.notes = {h.ctx.id} /\ h.status = StatusOf(outcome[h.ctx.id])

CopyInv ==
    /\ \A h \in Copies(queue) \cup Copies(batch) \cup Copies(memory) : Genuine(h)
    /\ \A p \in posted :
          /\ p.id \in Calls /\ pc[p.id] = "returned"
          /\ p.notes = {p.id} /\ p.status = StatusOf(outcome[p.id])
    /\ \A c \in failed : c \in Calls /\ pc[c] = "returned"

\* Each copy is in one place.
OnceInv ==
    /\ Distinct(queue) /\ IdsOf(queue) \cap IdsOf(batch) = {}
    /\ (IdsOf(queue) \cup IdsOf(batch)) \cap (Delivered \cup failed) = {}
    /\ Delivered \cap failed = {}
    /\ kind # "memory" => memory = <<>>
    /\ kind # "otlp" => queue = <<>> /\ batch = <<>> /\ posted = {} /\ failed = {} /\ wpc = "select"

\* Where the worker is once done is closed.
FlushInv ==
    /\ wpc \in {"drain", "post, drain", "post, exit", "exited"} => done = TRUE
    /\ wpc \in {"post, exit", "exited"} => IdsOf(queue) \subseteq late
    /\ wpc = "exited" => batch = <<>>
    /\ \A k \in Closers : kpc[k] = "flushed" => wpc = "exited"

IInv == ObjInv /\ CopyInv /\ OnceInv /\ FlushInv

---------------------------------------------------------------------------
(* The operators on sequences of copies. *)

LEMMA EmptySeq == Copies(<<>>) = {} /\ IdsOf(<<>>) = {} /\ Distinct(<<>>)
  BY DEF Copies, IdsOf, Distinct

LEMMA IdsOfCopies ==
    ASSUME NEW s PROVE IdsOf(s) = {h.ctx.id : h \in Copies(s)}
  BY DEF Copies, IdsOf

LEMMA AppendSeq ==
    ASSUME NEW S, NEW s \in Seq(S), NEW e \in S
    PROVE  /\ Append(s, e) \in Seq(S)
           /\ Copies(Append(s, e)) = Copies(s) \cup {e}
           /\ IdsOf(Append(s, e)) = IdsOf(s) \cup {e.ctx.id}
           /\ Distinct(s) /\ e.ctx.id \notin IdsOf(s) => Distinct(Append(s, e))
  <1> DEFINE t == Append(s, e)
  <1>1. t \in Seq(S) /\ Len(t) = Len(s) + 1 /\ Len(s) \in Nat
    OBVIOUS
  <1>2. DOMAIN s = 1 .. Len(s) /\ DOMAIN t = 1 .. (Len(s) + 1)
    BY <1>1
  <1>3. t[Len(s) + 1] = e /\ \A i \in 1 .. Len(s) : t[i] = s[i]
    BY <1>1
  <1> HIDE DEF t
  <1>4. Copies(t) = Copies(s) \cup {e}
    BY <1>1, <1>2, <1>3 DEF Copies
  <1>5. IdsOf(t) = IdsOf(s) \cup {e.ctx.id}
    BY <1>1, <1>2, <1>3 DEF IdsOf
  <1>6. Distinct(s) /\ e.ctx.id \notin IdsOf(s) => Distinct(t)
    BY <1>1, <1>2, <1>3 DEF IdsOf, Distinct
  <1> QED
    BY <1>1, <1>4, <1>5, <1>6 DEF t

LEMMA TailSeq ==
    ASSUME NEW S, NEW s \in Seq(S), s # <<>>
    PROVE  /\ Tail(s) \in Seq(S) /\ Head(s) \in S /\ Head(s) \in Copies(s)
           /\ Copies(Tail(s)) \subseteq Copies(s)
           /\ IdsOf(s) = IdsOf(Tail(s)) \cup {Head(s).ctx.id}
           /\ Distinct(s) => Distinct(Tail(s)) /\ Head(s).ctx.id \notin IdsOf(Tail(s))
  <1> DEFINE t == Tail(s)
  <1>1. t \in Seq(S) /\ Len(t) = Len(s) - 1 /\ Len(s) \in Nat /\ Len(s) > 0 /\ Head(s) = s[1]
    OBVIOUS
  <1>2. DOMAIN s = 1 .. Len(s) /\ DOMAIN t = 1 .. (Len(s) - 1)
    BY <1>1
  <1>3. \A i \in 1 .. (Len(s) - 1) : t[i] = s[i + 1]
    BY <1>1
  <1>4. s[1] \in S
    BY <1>1, <1>2
  <1> HIDE DEF t
  <1>5. \A i \in 1 .. Len(s) : i = 1 \/ (i - 1 \in 1 .. (Len(s) - 1) /\ t[i - 1] = s[i])
    BY <1>1, <1>3
  <1>6. s[1] \in Copies(s) /\ Copies(t) \subseteq Copies(s)
    BY SMTT(30), <1>1, <1>2, <1>3 DEF Copies
  <1>7. IdsOf(s) = IdsOf(t) \cup {s[1].ctx.id}
    <2>1. ASSUME NEW x \in IdsOf(s) PROVE x \in IdsOf(t) \cup {s[1].ctx.id}
      BY SMTT(30), <1>2, <1>5, <2>1 DEF IdsOf
    <2>2. ASSUME NEW x \in IdsOf(t) PROVE x \in IdsOf(s)
      <3>1. PICK i \in DOMAIN t : x = t[i].ctx.id
        BY ZenonT(30), <2>2 DEF IdsOf
      <3>2. i + 1 \in DOMAIN s /\ t[i] = s[i + 1]
        BY <1>1, <1>2, <1>3, <3>1
      <3> QED
        BY ZenonT(30), <3>1, <3>2 DEF IdsOf
    <2>3. s[1].ctx.id \in IdsOf(s)
      BY <1>1, <1>2 DEF IdsOf
    <2> QED
      BY <2>1, <2>2, <2>3
  <1>8. ASSUME Distinct(s) PROVE Distinct(t) /\ s[1].ctx.id \notin IdsOf(t)
    <2>1. \A i \in DOMAIN t : i + 1 \in DOMAIN s /\ t[i] = s[i + 1] /\ i + 1 # 1
      BY <1>1, <1>2, <1>3
    <2>2. Distinct(t)
      <3> SUFFICES ASSUME NEW i \in DOMAIN t, NEW j \in DOMAIN t, t[i].ctx.id = t[j].ctx.id
                   PROVE  i = j
        BY DEF Distinct
      <3>1. i + 1 = j + 1
        BY <1>8, <2>1 DEF Distinct
      <3> QED
        BY <1>1, <1>2, <3>1
    <2>3. 1 \in DOMAIN s
      BY <1>1, <1>2
    <2>4. s[1].ctx.id \notin IdsOf(t)
      BY <1>8, <2>1, <2>3 DEF IdsOf, Distinct
    <2> QED
      BY <2>2, <2>4
  <1> QED
    BY <1>1, <1>4, <1>6, <1>7, <1>8 DEF t

LEMMA ConcatSeq ==
    ASSUME NEW S, NEW s \in Seq(S), NEW t \in Seq(S)
    PROVE  /\ s \o t \in Seq(S)
           /\ Copies(s \o t) = Copies(s) \cup Copies(t)
  <1> DEFINE u == s \o t
  <1>1. u \in Seq(S) /\ Len(u) = Len(s) + Len(t) /\ Len(s) \in Nat /\ Len(t) \in Nat
    OBVIOUS
  <1>2. /\ DOMAIN s = 1 .. Len(s) /\ DOMAIN t = 1 .. Len(t)
        /\ DOMAIN u = 1 .. (Len(s) + Len(t))
    BY <1>1
  <1>3. \A i \in 1 .. Len(s) : u[i] = s[i]
    BY <1>1
  <1>4. \A i \in 1 .. Len(t) : u[Len(s) + i] = t[i]
    BY <1>1
  <1> HIDE DEF u
  <1>5. ASSUME NEW i \in DOMAIN u PROVE u[i] \in Copies(s) \cup Copies(t)
    <2>1. CASE i <= Len(s)
      BY <1>1, <1>2, <1>3, <1>5, <2>1 DEF Copies
    <2>2. CASE i > Len(s)
      <3>1. i - Len(s) \in 1 .. Len(t) /\ i = Len(s) + (i - Len(s))
        BY <1>1, <1>2, <1>5, <2>2
      <3> QED
        BY <1>2, <1>4, <3>1 DEF Copies
    <2> QED
      BY <1>1, <1>2, <2>1, <2>2
  <1>6. ASSUME NEW i \in DOMAIN s PROVE s[i] \in Copies(u)
    BY <1>1, <1>2, <1>3, <1>6 DEF Copies
  <1>7. ASSUME NEW i \in DOMAIN t PROVE t[i] \in Copies(u)
    <2>1. Len(s) + i \in DOMAIN u
      BY <1>1, <1>2, <1>7
    <2> QED
      BY <1>2, <1>4, <1>7, <2>1 DEF Copies
  <1>8. Copies(u) = Copies(s) \cup Copies(t)
    BY <1>5, <1>6, <1>7 DEF Copies
  <1> QED
    BY <1>1, <1>8 DEF u

LEMMA HeldCopies ==
    ASSUME TypeOK
    PROVE  /\ \A i \in DOMAIN Held : Held[i] \in Copies(queue) \cup Copies(batch) \cup Copies(memory)
           /\ Buffered = IdsOf(queue) \cup IdsOf(batch) \cup IdsOf(memory)
  <1>1. queue \in Seq(Copy) /\ batch \in Seq(Copy) /\ memory \in Seq(Copy)
    BY DEF TypeOK
  <1> DEFINE qb == queue \o batch
  <1>2. qb \in Seq(Copy) /\ Copies(qb) = Copies(queue) \cup Copies(batch)
    BY <1>1, ConcatSeq
  <1>3. Held = qb \o memory
    BY DEF Held
  <1> HIDE DEF qb
  <1>4. Copies(Held) = Copies(queue) \cup Copies(batch) \cup Copies(memory)
    BY <1>1, <1>2, <1>3, ConcatSeq
  <1>5. Buffered = {h.ctx.id : h \in Copies(Held)}
    BY DEF Buffered, Copies
  <1> QED
    BY ZenonT(30), <1>4, <1>5, IdsOfCopies DEF Copies

---------------------------------------------------------------------------
(* The initial state, and what a step leaves alone. *)

LEMMA InitInv == Init => IInv
  <1> SUFFICES ASSUME Init PROVE IInv
    OBVIOUS
  <1>1. ObjInv
    BY InitObjects
  <1>2. CopyInv
    BY EmptySeq DEF Init, CopyInv
  <1>3. OnceInv
    BY EmptySeq DEF Init, OnceInv, Delivered
  <1>4. FlushInv
    BY DEF Init, FlushInv
  <1> QED
    BY <1>1, <1>2, <1>3, <1>4 DEF IInv

\* A step of one call that has not handed its copy over keeps all copies.
LEMMA CopyFrame ==
    ASSUME TypeOK, CopyInv, NEW c \in Calls, NEW l, pc[c] # "returned", pc' = [pc EXCEPT ![c] = l],
           \A d \in Calls : d # c => outcome'[d] = outcome[d],
           UNCHANGED <<queue, batch, memory, posted, failed>>
    PROVE  CopyInv'
  <1>1. \A d \in Calls : d # c => pc'[d] = pc[d] /\ outcome'[d] = outcome[d]
    BY ZenonT(30) DEF TypeOK
  <1>2. ASSUME NEW h, Genuine(h) PROVE Genuine(h)'
    BY ZenonT(30), <1>1, <1>2 DEF Genuine
  <1>3. \A h \in Copies(queue) \cup Copies(batch) \cup Copies(memory) : Genuine(h)'
    BY <1>2 DEF CopyInv
  <1>4. queue' = queue /\ batch' = batch /\ memory' = memory /\ posted' = posted /\ failed' = failed
    BY ZenonT(30)
  <1>5. \A p \in posted : p.id \in Calls /\ p.id # c
    BY DEF CopyInv
  <1>6. \A d \in failed : d \in Calls /\ d # c
    BY DEF CopyInv
  <1> QED
    BY ZenonT(30), <1>1, <1>3, <1>4, <1>5, <1>6 DEF CopyInv

LEMMA ExporterFrame ==
    ASSUME OnceInv, FlushInv, UNCHANGED <<kind, kpc, exporterVars>>
    PROVE  OnceInv' /\ FlushInv'
  <1>1. /\ queue' = queue /\ batch' = batch /\ memory' = memory /\ posted' = posted /\ failed' = failed
        /\ wpc' = wpc /\ done' = done /\ late' = late /\ kind' = kind /\ kpc' = kpc
    BY DEF exporterVars
  <1>2. Delivered' = Delivered
    BY ZenonT(30), <1>1 DEF Delivered
  <1>3. OnceInv'
    BY ZenonT(30), <1>1, <1>2 DEF OnceInv
  <1>4. FlushInv'
    BY ZenonT(30), <1>1 DEF FlushInv
  <1> QED
    BY <1>3, <1>4

---------------------------------------------------------------------------
(* The steps of a call. *)

\* Until a call hands its copy over, the exporter does not see it.
LEMMA RecordingKeeps ==
    ASSUME IInv, NEW c \in Calls,
           \/ Bypass(c) \/ StartParent(c) \/ Start(c) \/ (\E r \in Results : Do(c, r))
           \/ End(c) \/ Discard(c) \/ Export(c)
    PROVE  CopyInv' /\ OnceInv' /\ FlushInv'
  <1>1. /\ UNCHANGED <<kind, kpc, exporterVars>> /\ pc[c] # "returned"
        /\ (outcome' = outcome \/ \E r \in Results : outcome' = [outcome EXCEPT ![c] = r])
    BY ZenonT(30) DEF Bypass, StartParent, Start, Do, End, Discard, Export, tracerVars
  <1>2. PICK l : pc' = [pc EXCEPT ![c] = l]
    BY ZenonT(30) DEF Bypass, StartParent, Start, Do, End, Discard, Export
  <1>3. \A d \in Calls : d # c => outcome'[d] = outcome[d]
    BY <1>1 DEF IInv, ObjInv, TypeOK
  <1>4. UNCHANGED <<queue, batch, memory, posted, failed>>
    BY ZenonT(30), <1>1 DEF exporterVars
  <1>5. CopyInv'
    BY ZenonT(30), <1>1, <1>2, <1>3, <1>4, CopyFrame DEF IInv, ObjInv
  <1>6. OnceInv' /\ FlushInv'
    BY ZenonT(30), <1>1, ExporterFrame DEF IInv
  <1> QED
    BY <1>5, <1>6

\* A call that returns leaves the copies genuine, and so is the one it hands over.
LEMMA ReturnFrame ==
    ASSUME TypeOK, CopyInv, NEW c \in Calls, pc[c] \in {"export", "enqueue"},
           pc' = [pc EXCEPT ![c] = "returned"], outcome' = outcome, UNCHANGED <<posted, failed>>
    PROVE  /\ \A g \in Copies(queue) \cup Copies(batch) \cup Copies(memory) : Genuine(g)'
           /\ \A h : Snapped(c, h) => Genuine(h)'
           /\ \A p \in posted' : /\ p.id \in Calls /\ pc'[p.id] = "returned"
                                 /\ p.notes = {p.id} /\ p.status = StatusOf(outcome'[p.id])
           /\ \A d \in failed' : d \in Calls /\ pc'[d] = "returned"
           /\ c \notin IdsOf(queue) \cup IdsOf(batch) \cup IdsOf(memory) \cup Delivered \cup failed
  <1>1. pc'[c] = "returned" /\ \A d \in Calls : d # c => pc'[d] = pc[d]
    BY DEF TypeOK
  <1>2. ASSUME NEW g, Genuine(g) PROVE Genuine(g)' /\ g.ctx.id # c
    BY ZenonT(30), <1>1, <1>2 DEF Genuine
  <1>3. ASSUME NEW h, Snapped(c, h) PROVE Genuine(h)'
    BY <1>1, <1>3 DEF Genuine, Snapped
  <1>4. \A g \in Copies(queue) \cup Copies(batch) \cup Copies(memory) : Genuine(g)' /\ g.ctx.id # c
    BY ZenonT(30), <1>2 DEF CopyInv
  <1>5. \A p \in posted : p.id \in Calls /\ p.id # c
    BY DEF CopyInv
  <1>6. \A d \in failed : d \in Calls /\ d # c
    BY DEF CopyInv
  <1>7. \A p \in posted' : /\ p.id \in Calls /\ pc'[p.id] = "returned"
                          /\ p.notes = {p.id} /\ p.status = StatusOf(outcome'[p.id])
    BY <1>1, <1>5 DEF CopyInv
  <1>8. \A d \in failed' : d \in Calls /\ pc'[d] = "returned"
    BY <1>1, <1>6 DEF CopyInv
  <1>9. c \notin IdsOf(queue) \cup IdsOf(batch) \cup IdsOf(memory)
    BY ZenonT(30), <1>4, IdsOfCopies
  <1>10. c \notin Delivered \cup failed
    BY <1>5, <1>6 DEF Delivered
  <1> QED
    BY ZenonT(30), <1>3, <1>4, <1>7, <1>8, <1>9, <1>10

LEMMA EnqueueRecords ==
    ASSUME IInv, NEW c \in Calls, ExportEnqueue(c)
    PROVE  CopyInv' /\ OnceInv' /\ FlushInv'
  <1> USE DEF IInv, ObjInv
  <1>1. /\ pc[c] = "enqueue" /\ pc' = [pc EXCEPT ![c] = "returned"] /\ outcome' = outcome
        /\ kpc' = kpc /\ kind' = kind
        /\ batch' = batch /\ memory' = memory /\ posted' = posted /\ failed' = failed
        /\ done' = done /\ wpc' = wpc
    BY DEF ExportEnqueue, tracerVars
  <1>2. queue \in Seq(Copy)
    BY DEF TypeOK
  <1>3. PICK h : h = snap[c]
    BY ZenonT(30)
  <1>4. Snapped(c, h) /\ h \in Copy /\ h.ctx.id = c /\ kind = "otlp"
    BY ZenonT(30), <1>1, <1>3 DEF SnapInv, Snapped
  <1>5. \/ queue' = queue /\ late' = late
        \/ queue' = Append(queue, h) /\ late' = IF done THEN late \cup {c} ELSE late
    BY <1>3 DEF ExportEnqueue
  <1>6. /\ Copies(queue') \subseteq Copies(queue) \cup {h}
        /\ IdsOf(queue') \subseteq IdsOf(queue) \cup {c}
        /\ Distinct(queue) /\ c \notin IdsOf(queue) => Distinct(queue')
        /\ done = TRUE /\ IdsOf(queue) \subseteq late => IdsOf(queue') \subseteq late'
    <2>1. CASE queue' = queue /\ late' = late
      BY ZenonT(30), <2>1
    <2>2. CASE queue' = Append(queue, h) /\ late' = IF done THEN late \cup {c} ELSE late
      <3>1. /\ Append(queue, h) \in Seq(Copy) /\ Copies(Append(queue, h)) = Copies(queue) \cup {h}
            /\ IdsOf(Append(queue, h)) = IdsOf(queue) \cup {h.ctx.id}
            /\ Distinct(queue) /\ h.ctx.id \notin IdsOf(queue) => Distinct(Append(queue, h))
        BY SMTT(30), <1>2, <1>4, AppendSeq
      <3> QED
        BY ZenonT(30), <1>4, <2>2, <3>1
    <2> QED
      BY ZenonT(30), <1>5, <2>1, <2>2
  <1>7. /\ \A g \in Copies(queue) \cup Copies(batch) \cup Copies(memory) : Genuine(g)'
        /\ \A g : Snapped(c, g) => Genuine(g)'
        /\ \A p \in posted' : /\ p.id \in Calls /\ pc'[p.id] = "returned"
                              /\ p.notes = {p.id} /\ p.status = StatusOf(outcome'[p.id])
        /\ \A d \in failed' : d \in Calls /\ pc'[d] = "returned"
        /\ c \notin IdsOf(queue) \cup IdsOf(batch) \cup IdsOf(memory) \cup Delivered \cup failed
    BY ZenonT(30), <1>1, ReturnFrame
  <1>8. CopyInv'
    <2>1. \A g \in (Copies(queue) \cup Copies(batch) \cup Copies(memory))' : Genuine(g)'
      BY ZenonT(30), <1>1, <1>4, <1>6, <1>7
    <2> QED
      BY ZenonT(30), <1>7, <2>1 DEF CopyInv
  <1>9. OnceInv'
    <2>1. Delivered' = Delivered
      BY ZenonT(30), <1>1 DEF Delivered
    <2>2. Distinct(queue')
      BY ZenonT(30), <1>6, <1>7 DEF OnceInv
    <2>3. IdsOf(queue') \cap IdsOf(batch) = {} /\ (IdsOf(queue') \cup IdsOf(batch)) \cap (Delivered \cup failed) = {}
      BY SMTT(30), <1>6, <1>7 DEF OnceInv
    <2> QED
      BY ZenonT(30), <1>1, <1>4, <2>1, <2>2, <2>3 DEF OnceInv
  <1>10. FlushInv'
    BY ZenonT(30), <1>1, <1>6 DEF FlushInv
  <1> QED
    BY <1>8, <1>9, <1>10

LEMMA MemoryRecords ==
    ASSUME IInv, NEW c \in Calls, ExportMemory(c)
    PROVE  CopyInv' /\ OnceInv' /\ FlushInv'
  <1> USE DEF IInv, ObjInv
  <1>1. /\ pc[c] = "export" /\ pc' = [pc EXCEPT ![c] = "returned"] /\ outcome' = outcome
        /\ kind = "memory" /\ kpc' = kpc /\ kind' = kind
        /\ queue' = queue /\ batch' = batch /\ posted' = posted /\ failed' = failed
        /\ done' = done /\ wpc' = wpc /\ late' = late
    BY SMTT(30) DEF ExportMemory, tracerVars
  <1>2. span[obj[c]] \in SpanObject /\ Contents(c, span[obj[c]])
    BY ZenonT(30), <1>1, OwnedSpan DEF Owns
  <1>3. PICK h : h = Snapshot(span[obj[c]])
    BY ZenonT(30)
  <1>4. Snapped(c, h) /\ h \in Copy /\ memory \in Seq(Copy)
    <2>1. Snapped(c, h)
      BY ZenonT(30), <1>1, <1>2, <1>3, SnapshotFields
    <2> QED
      BY ZenonT(30), <2>1 DEF Snapped, TypeOK
  <1>5. Copies(Append(memory, h)) = Copies(memory) \cup {h}
    BY <1>4, AppendSeq
  <1>6. Copies(memory') = Copies(memory) \cup {h}
    BY ZenonT(30), <1>3, <1>5 DEF ExportMemory
  <1>7. /\ \A g \in Copies(queue) \cup Copies(batch) \cup Copies(memory) : Genuine(g)'
        /\ \A g : Snapped(c, g) => Genuine(g)'
        /\ \A p \in posted' : /\ p.id \in Calls /\ pc'[p.id] = "returned"
                              /\ p.notes = {p.id} /\ p.status = StatusOf(outcome'[p.id])
        /\ \A d \in failed' : d \in Calls /\ pc'[d] = "returned"
    BY ZenonT(30), <1>1, ReturnFrame
  <1>8. CopyInv'
    <2>1. \A g \in (Copies(queue) \cup Copies(batch) \cup Copies(memory))' : Genuine(g)'
      BY ZenonT(30), <1>1, <1>4, <1>6, <1>7
    <2> QED
      BY ZenonT(30), <1>7, <2>1 DEF CopyInv
  <1>9. Delivered' = Delivered
    BY ZenonT(30), <1>1 DEF Delivered
  <1>10. OnceInv'
    BY ZenonT(30), <1>1, <1>9 DEF OnceInv
  <1>11. FlushInv'
    BY ZenonT(30), <1>1 DEF FlushInv
  <1> QED
    BY <1>8, <1>10, <1>11

---------------------------------------------------------------------------
(* The steps of the worker and of Shutdown. *)

\* They leave what the calls and the collector have seen genuine when the copies
\* they keep were there before.
LEMMA CopiesFrame ==
    ASSUME CopyInv, UNCHANGED <<spanVars, callVars>>, posted' = posted, failed' = failed,
           (Copies(queue) \cup Copies(batch) \cup Copies(memory))'
              \subseteq Copies(queue) \cup Copies(batch) \cup Copies(memory)
    PROVE  CopyInv'
  <1>1. pc' = pc /\ outcome' = outcome
    BY ZenonT(30) DEF callVars
  <1>2. \A g : Genuine(g) => Genuine(g)'
    BY ZenonT(30), <1>1 DEF Genuine
  <1>3. \A g \in (Copies(queue) \cup Copies(batch) \cup Copies(memory))' : Genuine(g)'
    BY ZenonT(30), <1>2 DEF CopyInv
  <1> QED
    BY ZenonT(30), <1>1, <1>3 DEF CopyInv

LEMMA TakeRecords ==
    ASSUME IInv, WorkerTake
    PROVE  CopyInv' /\ OnceInv' /\ FlushInv'
  <1> USE DEF IInv, ObjInv
  <1>1. /\ kind = "otlp" /\ wpc \in {"select", "drain"} /\ queue # <<>> /\ queue \in Seq(Copy) /\ batch \in Seq(Copy)
    BY ZenonT(30) DEF WorkerTake, TypeOK
  <1>2. /\ kpc' = kpc /\ kind' = kind /\ UNCHANGED <<spanVars, callVars>>
        /\ memory' = memory /\ posted' = posted /\ failed' = failed /\ done' = done /\ late' = late
    BY ZenonT(30) DEF WorkerTake, tracerVars
  <1>3. PICK h, q : h = Head(queue) /\ q = Tail(queue)
    BY ZenonT(30)
  <1>4. /\ h \in Copy /\ h \in Copies(queue) /\ Copies(q) \subseteq Copies(queue)
        /\ IdsOf(queue) = IdsOf(q) \cup {h.ctx.id}
        /\ Distinct(queue) => Distinct(q) /\ h.ctx.id \notin IdsOf(q)
    BY <1>1, <1>3, TailSeq
  <1>5. /\ Copies(Append(batch, h)) = Copies(batch) \cup {h}
        /\ IdsOf(Append(batch, h)) = IdsOf(batch) \cup {h.ctx.id}
    BY <1>1, <1>4, AppendSeq
  <1>6. queue' = q /\ batch' = Append(batch, h)
    BY ZenonT(30), <1>3 DEF WorkerTake
  <1>7. wpc' \in {"select", "drain", "post", "post, drain"} /\ (wpc' \in {"drain", "post, drain"} => wpc = "drain")
    BY ZenonT(30), <1>1 DEF WorkerTake
  <1>8. CopyInv'
    <2>1. (Copies(queue) \cup Copies(batch) \cup Copies(memory))'
            \subseteq Copies(queue) \cup Copies(batch) \cup Copies(memory)
      BY ZenonT(30), <1>2, <1>4, <1>5, <1>6
    <2> QED
      BY ZenonT(30), <1>2, <2>1, CopiesFrame
  <1>9. OnceInv'
    <2>1. Delivered' = Delivered
      BY ZenonT(30), <1>2 DEF Delivered
    <2>2. Distinct(q) /\ IdsOf(q) \cap IdsOf(batch') = {} /\ IdsOf(q) \cup IdsOf(batch') = IdsOf(queue) \cup IdsOf(batch)
      BY <1>4, <1>5, <1>6 DEF OnceInv
    <2> QED
      BY ZenonT(30), <1>1, <1>2, <1>6, <2>1, <2>2 DEF OnceInv
  <1>10. FlushInv'
    <2>1. wpc' \notin {"post, exit", "exited"} /\ wpc # "exited"
      BY ZenonT(30), <1>1, <1>7
    <2> QED
      BY ZenonT(30), <1>2, <1>7, <2>1 DEF FlushInv
  <1> QED
    BY <1>8, <1>9, <1>10

\* WorkerTick, WorkerDone and WorkerDrained only move the worker.
LEMMA MoveRecords ==
    ASSUME IInv, WorkerTick \/ WorkerDone \/ WorkerDrained
    PROVE  CopyInv' /\ OnceInv' /\ FlushInv'
  <1> USE DEF IInv, ObjInv
  <1>1. /\ kpc' = kpc /\ kind' = kind /\ UNCHANGED <<spanVars, callVars>>
        /\ queue' = queue /\ batch' = batch /\ memory' = memory /\ posted' = posted /\ failed' = failed
        /\ done' = done /\ late' = late
    BY ZenonT(30) DEF WorkerTick, WorkerDone, WorkerDrained, tracerVars
  <1>2. CopyInv'
    BY ZenonT(30), <1>1, CopiesFrame
  <1>3. /\ wpc # "exited"
        /\ wpc' \in {"drain", "post, drain", "post, exit", "exited"} => done = TRUE
        /\ wpc' \in {"post, exit", "exited"} => queue = <<>>
        /\ wpc' = "exited" => batch = <<>>
        /\ kind = "otlp"
    <2>1. done \in BOOLEAN
      BY DEF TypeOK
    <2>2. CASE WorkerTick
      BY ZenonT(30), <2>2 DEF WorkerTick
    <2>3. CASE WorkerDone
      BY ZenonT(30), <2>1, <2>3 DEF WorkerDone
    <2>4. CASE WorkerDrained
      <3>1. /\ wpc = "drain" /\ queue = <<>> /\ wpc' \in {"exited", "post, exit"}
            /\ (wpc' = "exited" => batch = <<>>)
        BY ZenonT(30), <2>4 DEF WorkerDrained
      <3> QED
        BY ZenonT(30), <3>1 DEF FlushInv, OnceInv
    <2> QED
      BY ZenonT(30), <2>2, <2>3, <2>4
  <1>4. OnceInv'
    <2>1. Delivered' = Delivered
      BY ZenonT(30), <1>1 DEF Delivered
    <2> QED
      BY ZenonT(30), <1>1, <1>3, <2>1 DEF OnceInv
  <1>5. FlushInv'
    <2>1. wpc' \in {"post, exit", "exited"} => IdsOf(queue) = {}
      BY ZenonT(30), <1>3, EmptySeq
    <2> QED
      BY ZenonT(30), <1>1, <1>3, <2>1 DEF FlushInv
  <1> QED
    BY <1>2, <1>4, <1>5

LEMMA GenuineIds ==
    ASSUME NEW s, \A h \in Copies(s) : Genuine(h)
    PROVE  \A c \in IdsOf(s) : c \in Calls /\ pc[c] = "returned"
  <1>1. ASSUME NEW c \in IdsOf(s) PROVE c \in Calls /\ pc[c] = "returned"
    <2>1. PICK i \in DOMAIN s : c = s[i].ctx.id
      BY ZenonT(30), <1>1 DEF IdsOf
    <2>2. Genuine(s[i])
      BY ZenonT(30) DEF Copies
    <2> QED
      BY ZenonT(30), <2>1, <2>2 DEF Genuine
  <1> QED
    BY ZenonT(30), <1>1

LEMMA PostedRecords ==
    ASSUME NEW b \in Seq(Copy)
    PROVE  /\ {p.id : p \in BuildOTLPJSON(b)} = IdsOf(b)
           /\ (\A h \in Copies(b) : Genuine(h)) =>
                 \A p \in BuildOTLPJSON(b) :
                    /\ p.id \in Calls /\ pc[p.id] = "returned"
                    /\ p.notes = {p.id} /\ p.status = StatusOf(outcome[p.id])
  <1>1. ASSUME NEW h \in Copy
        PROVE  /\ OTLPSpan(h).id = h.ctx.id
               /\ OTLPSpan(h).notes = h.notes /\ OTLPSpan(h).status = h.status
    BY DEF OTLPSpan, Copy, Context
  <1>2. \A i \in DOMAIN b : b[i] \in Copy
    OBVIOUS
  <1>3. {p.id : p \in BuildOTLPJSON(b)} = IdsOf(b)
    <2>1. ASSUME NEW i \in DOMAIN b PROVE OTLPSpan(b[i]).id = b[i].ctx.id
      BY ZenonT(30), <1>1, <1>2
    <2> QED
      BY ZenonT(30), <2>1 DEF BuildOTLPJSON, IdsOf
  <1>4. ASSUME \A h \in Copies(b) : Genuine(h), NEW p \in BuildOTLPJSON(b)
        PROVE  /\ p.id \in Calls /\ pc[p.id] = "returned"
               /\ p.notes = {p.id} /\ p.status = StatusOf(outcome[p.id])
    <2>1. PICK i \in DOMAIN b : p = OTLPSpan(b[i])
      BY ZenonT(30) DEF BuildOTLPJSON
    <2>2. Genuine(b[i])
      BY ZenonT(30), <1>4 DEF Copies
    <2>3. p.id = b[i].ctx.id /\ p.notes = b[i].notes /\ p.status = b[i].status
      BY ZenonT(30), <1>1, <1>2, <2>1
    <2> QED
      BY ZenonT(30), <2>2, <2>3 DEF Genuine
  <1> QED
    BY ZenonT(30), <1>3, <1>4

LEMMA PostRecords ==
    ASSUME IInv, WorkerPost
    PROVE  CopyInv' /\ OnceInv' /\ FlushInv'
  <1> USE DEF IInv, ObjInv
  <1>1. /\ kpc' = kpc /\ kind' = kind /\ UNCHANGED <<spanVars, callVars>>
        /\ queue' = queue /\ batch' = <<>> /\ memory' = memory /\ done' = done /\ late' = late
        /\ wpc \in {"post", "post, drain", "post, exit"}
    BY ZenonT(30) DEF WorkerPost, tracerVars
  <1>2. /\ wpc' \in {"select", "drain", "exited"} /\ (wpc' = "drain" => wpc = "post, drain")
        /\ (wpc' = "exited" => wpc = "post, exit") /\ kind = "otlp"
    BY ZenonT(30), <1>1 DEF WorkerPost, OnceInv
  <1>3. \/ posted' = posted \cup BuildOTLPJSON(batch) /\ failed' = failed
        \/ failed' = failed \cup IdsOf(batch) /\ posted' = posted
    BY ZenonT(30) DEF WorkerPost, IdsOf
  <1>4. /\ {p.id : p \in BuildOTLPJSON(batch)} = IdsOf(batch)
        /\ \A p \in BuildOTLPJSON(batch) :
              /\ p.id \in Calls /\ pc[p.id] = "returned"
              /\ p.notes = {p.id} /\ p.status = StatusOf(outcome[p.id])
    BY ZenonT(30), PostedRecords DEF CopyInv, TypeOK
  <1>5. \A c \in IdsOf(batch) : c \in Calls /\ pc[c] = "returned"
    BY ZenonT(30), GenuineIds DEF CopyInv
  <1>6. CopyInv'
    <2>1. pc' = pc /\ outcome' = outcome
      BY ZenonT(30), <1>1 DEF callVars
    <2>2. (Copies(queue) \cup Copies(batch) \cup Copies(memory))'
            \subseteq Copies(queue) \cup Copies(batch) \cup Copies(memory)
      BY ZenonT(30), <1>1, EmptySeq
    <2>3. \A g \in (Copies(queue) \cup Copies(batch) \cup Copies(memory))' : Genuine(g)'
      BY ZenonT(30), <2>1, <2>2 DEF CopyInv, Genuine
    <2>4. ASSUME NEW p \in posted'
          PROVE  /\ p.id \in Calls /\ pc[p.id] = "returned"
                 /\ p.notes = {p.id} /\ p.status = StatusOf(outcome[p.id])
      BY ZenonT(30), <1>3, <1>4, <2>4 DEF CopyInv
    <2>5. \A c \in failed' : c \in Calls /\ pc[c] = "returned"
      BY ZenonT(30), <1>3, <1>5 DEF CopyInv
    <2> QED
      BY ZenonT(30), <2>1, <2>3, <2>4, <2>5 DEF CopyInv
  <1>7. OnceInv'
    <2>1. \/ Delivered' = Delivered \cup IdsOf(batch) /\ failed' = failed
          \/ failed' = failed \cup IdsOf(batch) /\ Delivered' = Delivered
      BY <1>3, <1>4 DEF Delivered
    <2>2. IdsOf(batch') = {}
      BY ZenonT(30), <1>1, EmptySeq
    <2> QED
      BY ZenonT(30), <1>1, <1>2, <2>1, <2>2 DEF OnceInv
  <1>8. FlushInv'
    BY ZenonT(30), <1>1, <1>2 DEF FlushInv
  <1> QED
    BY <1>6, <1>7, <1>8

\* Shutdown: only ShutdownClose and MemoryShutdown reach into the exporter.
LEMMA CloserRecords ==
    ASSUME IInv, NEW k \in Closers, CloserNext(k)
    PROVE  CopyInv' /\ OnceInv' /\ FlushInv'
  <1> USE DEF IInv, ObjInv
  <1>1. /\ kind' = kind /\ UNCHANGED <<spanVars, callVars>>
        /\ queue' = queue /\ batch' = batch /\ posted' = posted /\ failed' = failed
        /\ late' = late /\ wpc' = wpc /\ (done' = done \/ done' = TRUE)
        /\ (memory' = memory \/ memory' = <<>>)
    BY ZenonT(30) DEF CloserNext, TracerShutdown, MemoryShutdown, ShutdownCheck, ShutdownClose, ShutdownWait,
           tracerVars, exporterVars
  <1>2. PICK l : kpc' = [kpc EXCEPT ![k] = l] /\ (l = "flushed" => wpc = "exited")
    <2>1. CASE TracerShutdown(k)
      <3>1. kind # "flushed"
        BY DEF TypeOK
      <3>2. PICK l : l = IF kind = "none" THEN "returned" ELSE kind
        BY ZenonT(30)
      <3>3. kpc' = [kpc EXCEPT ![k] = l] /\ l # "flushed"
        BY <2>1, <3>1, <3>2 DEF TracerShutdown
      <3> QED
        BY ZenonT(30), <3>3
    <2>2. CASE MemoryShutdown(k) \/ ShutdownCheck(k) \/ ShutdownClose(k) \/ ShutdownWait(k)
      BY ZenonT(30), <2>2 DEF MemoryShutdown, ShutdownCheck, ShutdownClose, ShutdownWait
    <2> QED
      BY <2>1, <2>2 DEF CloserNext
  <1>3. CopyInv'
    <2>1. (Copies(queue) \cup Copies(batch) \cup Copies(memory))'
            \subseteq Copies(queue) \cup Copies(batch) \cup Copies(memory)
      BY ZenonT(30), <1>1, EmptySeq
    <2> QED
      BY ZenonT(30), <1>1, <2>1, CopiesFrame
  <1>4. OnceInv'
    <2>1. Delivered' = Delivered
      BY ZenonT(30), <1>1 DEF Delivered
    <2> QED
      BY ZenonT(30), <1>1, <2>1 DEF OnceInv
  <1>5. FlushInv'
    <2>1. \A j \in Closers : kpc'[j] = "flushed" => wpc = "exited"
      BY ZenonT(30), <1>2 DEF FlushInv, TypeOK
    <2> QED
      BY ZenonT(30), <1>1, <2>1 DEF FlushInv
  <1> QED
    BY <1>3, <1>4, <1>5

---------------------------------------------------------------------------
(* The invariant. *)

LEMMA StepKeeps == IInv /\ [Next]_vars => IInv'
  <1> SUFFICES ASSUME IInv, [Next]_vars PROVE IInv'
    OBVIOUS
  <1>1. ObjInv'
    BY ZenonT(30), ObjStep DEF IInv
  <1>2. CASE UNCHANGED vars
    <2>1. /\ UNCHANGED <<kind, kpc, exporterVars>> /\ UNCHANGED <<spanVars, callVars>>
          /\ queue' = queue /\ batch' = batch /\ memory' = memory /\ posted' = posted /\ failed' = failed
      BY ZenonT(30), <1>2 DEF vars, tracerVars, exporterVars
    <2>2. OnceInv' /\ FlushInv'
      BY ZenonT(30), <2>1, ExporterFrame DEF IInv
    <2>3. CopyInv'
      BY ZenonT(30), <2>1, CopiesFrame DEF IInv
    <2> QED
      BY <1>1, <2>2, <2>3 DEF IInv
  <1>3. ASSUME NEW c \in Calls, CallNext(c) PROVE CopyInv' /\ OnceInv' /\ FlushInv'
    BY ZenonT(30), <1>3, RecordingKeeps, EnqueueRecords, MemoryRecords DEF CallNext
  <1>4. ASSUME NEW k \in Closers, CloserNext(k) PROVE CopyInv' /\ OnceInv' /\ FlushInv'
    BY ZenonT(30), <1>4, CloserRecords
  <1>5. CASE WorkerNext
    BY ZenonT(30), <1>1, <1>5, TakeRecords, MoveRecords, PostRecords DEF WorkerNext, IInv
  <1> QED
    BY ZenonT(30), <1>1, <1>2, <1>3, <1>4, <1>5 DEF Next, IInv

LEMMA Invariance == Spec => []IInv
  BY InitInv, StepKeeps, PTL DEF Spec

LEMMA OwnRecords == IInv => RecordIsOwn
  <1> SUFFICES ASSUME IInv PROVE RecordIsOwn
    OBVIOUS
  <1>1. \A h \in Copies(queue) \cup Copies(batch) \cup Copies(memory) : Genuine(h)
    BY ZenonT(30) DEF IInv, CopyInv
  <1>2. \A i \in DOMAIN Held : Genuine(Held[i])
    BY ZenonT(30), <1>1, HeldCopies DEF IInv, ObjInv
  <1>3. ASSUME NEW i \in DOMAIN Held
        PROVE  /\ Held[i].ctx.id \in Calls /\ Held[i].ctx.sampled
               /\ Held[i].notes = {Held[i].ctx.id} /\ Held[i].status = StatusOf(outcome[Held[i].ctx.id])
    BY ZenonT(30), <1>2 DEF Genuine
  <1>4. \A p \in posted : p.notes = {p.id} /\ p.status = StatusOf(outcome[p.id])
    BY ZenonT(30) DEF IInv, CopyInv
  <1> QED
    BY ZenonT(30), <1>3, <1>4 DEF RecordIsOwn

THEOREM RecordsOwn == Spec => []RecordIsOwn
  BY OwnRecords, Invariance, PTL

LEMMA Flushes == IInv => ShutdownFlushes
  <1> SUFFICES ASSUME IInv, NEW k \in Closers, kpc[k] = "flushed"
               PROVE  /\ wpc = "exited" /\ batch = <<>>
                      /\ \A i \in DOMAIN queue : queue[i].ctx.id \in late
    BY ZenonT(30) DEF ShutdownFlushes
  <1>1. wpc = "exited" /\ batch = <<>> /\ IdsOf(queue) \subseteq late
    BY ZenonT(30) DEF IInv, FlushInv
  <1> QED
    BY ZenonT(30), <1>1 DEF IdsOf

THEOREM FlushComplete == Spec => []ShutdownFlushes
  BY Flushes, Invariance, PTL

---------------------------------------------------------------------------
(* The pipeline implements SpanFate. *)

LEMMA BufferedIds == TypeOK => Buffered = IdsOf(queue) \cup IdsOf(batch) \cup IdsOf(memory)
  BY SMTT(30), HeldCopies

LEMMA BufferedIdsNext == TypeOK' => Buffered' = IdsOf(queue') \cup IdsOf(batch') \cup IdsOf(memory')
  <1>1. TypeOK' => (Buffered = IdsOf(queue) \cup IdsOf(batch) \cup IdsOf(memory))'
    BY BufferedIds, PTL
  <1> QED
    BY <1>1 DEF IdsOf

LEMMA NotYet ==
    ASSUME IInv, NEW c \in Calls, pc[c] # "returned"
    PROVE  c \notin Delivered /\ c \notin failed /\ c \notin Buffered
  <1>1. \A h \in Copies(queue) \cup Copies(batch) \cup Copies(memory) : h.ctx.id # c
    BY ZenonT(30) DEF IInv, CopyInv, Genuine
  <1>2. c \notin Buffered
    <2>1. ASSUME NEW s, \A h \in Copies(s) : h.ctx.id # c PROVE c \notin IdsOf(s)
      BY ZenonT(30), <2>1 DEF IdsOf, Copies
    <2>2. c \notin IdsOf(queue) /\ c \notin IdsOf(batch) /\ c \notin IdsOf(memory)
      BY ZenonT(30), <1>1, <2>1
    <2> QED
      BY ZenonT(30), <2>2, BufferedIds DEF IInv, ObjInv
  <1>3. (\A p \in posted : p.id # c) /\ c \notin failed
    BY DEF IInv, CopyInv
  <1>4. c \notin Delivered
    BY ZenonT(30), <1>3 DEF Delivered
  <1> QED
    BY <1>2, <1>3, <1>4

LEMMA FateMove ==
    ASSUME NEW B \in SUBSET Calls, NEW from, NEW to,
           \/ from = "idle" /\ to = "recording"
           \/ from = "recording" /\ to \in {"buffered", "lost"}
           \/ from = "buffered" /\ to \in {"delivered", "lost"},
           \A c \in B : FateOf(c) = from,
           \A c \in Calls : FateOf(c)' = IF c \in B THEN to ELSE FateOf(c)
    PROVE  Fate!FateNext
  <1>1. Fate!Move(B, from, to)
    BY ZenonT(30) DEF Fate!Move
  <1> QED
    BY ZenonT(30), <1>1 DEF Fate!FateNext

LEMMA FateMoveOne ==
    ASSUME NEW c \in Calls,
           \/ FateOf(c) = "idle" /\ FateOf(c)' = "recording"
           \/ FateOf(c) = "recording" /\ FateOf(c)' \in {"buffered", "lost"},
           \A d \in Calls : d # c => FateOf(d)' = FateOf(d)
    PROVE  Fate!FateNext
  <1>1. PICK B, from, to : B = {c} /\ from = FateOf(c) /\ to = FateOf(c)'
    BY ZenonT(30)
  <1>2. B \in SUBSET Calls /\ \A d \in B : FateOf(d) = from
    BY ZenonT(30), <1>1
  <1>3. \A d \in Calls : FateOf(d)' = IF d \in B THEN to ELSE FateOf(d)
    BY ZenonT(30), <1>1
  <1>4. \/ from = "idle" /\ to = "recording"
        \/ from = "recording" /\ to \in {"buffered", "lost"}
    BY ZenonT(30), <1>1
  <1> QED
    BY ZenonT(30), <1>2, <1>3, <1>4, FateMove

LEMMA FateStutter ==
    ASSUME \A c \in Calls : FateOf(c)' = FateOf(c)
    PROVE  [c \in Calls |-> FateOf(c)]' = [c \in Calls |-> FateOf(c)]
  OBVIOUS

LEMMA FateOfOthers ==
    ASSUME Delivered' = Delivered, failed' = failed, NEW c \in Calls,
           \A d \in Calls : d # c => (d \in Buffered' <=> d \in Buffered) /\ pc'[d] = pc[d]
    PROVE  \A d \in Calls : d # c => FateOf(d)' = FateOf(d)
  BY ZenonT(30) DEF FateOf

LEMMA CallFate ==
    ASSUME IInv, IInv', NEW c \in Calls, CallNext(c)
    PROVE  Fate!FateNext \/ \A d \in Calls : FateOf(d)' = FateOf(d)
  <1>1. pc[c] \in CallSteps \ {"returned", "bypassed"} /\ posted' = posted /\ failed' = failed /\ batch' = batch
    BY DEF CallNext, Bypass, StartParent, Start, Do, End, Discard, Export, ExportEnqueue, ExportMemory,
           exporterVars, IInv, TypeOK, CallSteps
  <1>2. Delivered' = Delivered /\ c \notin Delivered /\ c \notin failed /\ c \notin Buffered
    BY ZenonT(30), <1>1, NotYet DEF Delivered
  <1>3. /\ Buffered = IdsOf(queue) \cup IdsOf(batch) \cup IdsOf(memory)
        /\ Buffered' = IdsOf(queue') \cup IdsOf(batch') \cup IdsOf(memory')
    BY ZenonT(30), BufferedIds, BufferedIdsNext DEF IInv, ObjInv
  <1>4. PICK l \in CallSteps : pc' = [pc EXCEPT ![c] = l]
    <2>1. pc'[c] \in CallSteps
      BY DEF IInv, ObjInv, TypeOK
    <2>2. ASSUME NEW l, pc' = [pc EXCEPT ![c] = l] PROVE pc'[c] = l
      BY <2>2 DEF IInv, ObjInv, TypeOK
    <2>3. \E l : pc' = [pc EXCEPT ![c] = l]
      BY ZenonT(30) DEF CallNext, Bypass, StartParent, Start, Do, End, Discard, Export, ExportEnqueue, ExportMemory
    <2> QED
      BY ZenonT(30), <2>1, <2>2, <2>3
  <1>5. pc'[c] = l /\ \A d \in Calls : d # c => pc'[d] = pc[d]
    BY <1>4 DEF IInv, ObjInv, TypeOK
  <1>6. ASSUME queue' = queue, memory' = memory
        PROVE  /\ \A d \in Calls : d # c => FateOf(d)' = FateOf(d)
               /\ FateOf(c) = IF pc[c] \in {"idle", "start"} THEN "idle" ELSE "recording"
               /\ FateOf(c)' = IF l = "returned" THEN "lost"
                               ELSE IF l \in {"idle", "start", "bypassed"} THEN "idle" ELSE "recording"
    <2>1. Buffered' = Buffered
      BY ZenonT(30), <1>1, <1>3, <1>6
    <2>2. \A d \in Calls : d # c => FateOf(d)' = FateOf(d)
      BY ZenonT(30), <1>1, <1>2, <1>5, <2>1, FateOfOthers
    <2>3. FateOf(c) = IF pc[c] \in {"idle", "start"} THEN "idle" ELSE "recording"
      BY <1>1, <1>2 DEF FateOf
    <2>4. FateOf(c)' = IF l = "returned" THEN "lost"
                       ELSE IF l \in {"idle", "start", "bypassed"} THEN "idle" ELSE "recording"
      BY <1>1, <1>2, <1>5, <2>1 DEF FateOf
    <2> QED
      BY <2>2, <2>3, <2>4
  <1>7. ASSUME pc[c] \in {"export", "enqueue"}, l = "returned", Buffered' = Buffered \cup {c}
        PROVE  Fate!FateNext
    <2>1. \A d \in Calls : d # c => FateOf(d)' = FateOf(d)
      BY ZenonT(30), <1>1, <1>2, <1>5, <1>7, FateOfOthers
    <2>2. FateOf(c) = "recording" /\ FateOf(c)' = "buffered"
      BY <1>1, <1>2, <1>5, <1>7 DEF FateOf
    <2> QED
      BY ZenonT(30), <2>1, <2>2, FateMoveOne
  <1>8. CASE Bypass(c) \/ StartParent(c) \/ (\E r \in Results : Do(c, r)) \/ Export(c)
    <2>1. /\ queue' = queue /\ memory' = memory
          /\ (pc[c] \in {"idle", "start"} /\ l \in {"idle", "start", "bypassed"})
             \/ (pc[c] \notin {"idle", "start"} /\ l \notin {"idle", "start", "bypassed", "returned"})
      BY ZenonT(30), <1>5, <1>8 DEF Bypass, StartParent, Do, Export, exporterVars, IInv, ObjInv, TypeOK
    <2> QED
      BY SMTT(30), <1>6, <2>1
  <1>9. CASE End(c)
    <2>1. queue' = queue /\ memory' = memory /\ pc[c] = "end"
      BY SMTT(30), <1>9 DEF End, exporterVars
    <2>2. span[obj[c]].ended = FALSE /\ span[obj[c]].tracer = TRUE
      BY ZenonT(30), <2>1 DEF IInv, ObjInv, OwnInv, Owns, Contents
    <2>3. l \in {"release", "export"}
      BY SMTT(30), <1>5, <1>9, <2>2 DEF End, ProcessSpan, IInv, ObjInv, TypeOK
    <2> QED
      BY <1>6, <2>1, <2>3
  <1>10. CASE Start(c)
    <2>1. queue' = queue /\ memory' = memory /\ pc[c] = "start" /\ l = "do"
      BY <1>5, <1>10 DEF Start, exporterVars, IInv, ObjInv, TypeOK
    <2>2. FateOf(c) = "idle" /\ FateOf(c)' = "recording" /\ \A d \in Calls : d # c => FateOf(d)' = FateOf(d)
      BY <1>6, <2>1
    <2> QED
      BY ZenonT(30), <2>2, FateMoveOne
  <1>11. CASE Discard(c)
    <2>1. queue' = queue /\ memory' = memory /\ pc[c] = "release" /\ l = "returned"
      BY <1>5, <1>11 DEF Discard, exporterVars, IInv, ObjInv, TypeOK
    <2>2. FateOf(c) = "recording" /\ FateOf(c)' = "lost" /\ \A d \in Calls : d # c => FateOf(d)' = FateOf(d)
      BY SMTT(30), <1>6, <2>1
    <2> QED
      BY ZenonT(30), <2>2, FateMoveOne
  <1>12. CASE ExportEnqueue(c)
    <2>1. memory' = memory /\ pc[c] = "enqueue" /\ l = "returned"
      BY SMTT(30), <1>5, <1>12 DEF ExportEnqueue, IInv, ObjInv, TypeOK
    <2>2. CASE queue' = queue
      <3>1. FateOf(c) = "recording" /\ FateOf(c)' = "lost" /\ \A d \in Calls : d # c => FateOf(d)' = FateOf(d)
        BY <1>6, <2>1, <2>2
      <3> QED
        BY ZenonT(30), <3>1, FateMoveOne
    <2>3. CASE queue' = Append(queue, snap[c])
      <3>1. PICK h : h = snap[c]
        BY ZenonT(30)
      <3>2. h \in Copy /\ h.ctx.id = c /\ queue \in Seq(Copy)
        BY ZenonT(30), <2>1, <3>1 DEF IInv, ObjInv, SnapInv, Snapped, TypeOK
      <3>3. IdsOf(Append(queue, h)) = IdsOf(queue) \cup {h.ctx.id}
        BY SMTT(30), <3>2, AppendSeq
      <3>4. Buffered' = Buffered \cup {c}
        BY ZenonT(30), <1>1, <1>3, <2>1, <2>3, <3>1, <3>2, <3>3
      <3> QED
        BY <1>7, <2>1, <3>4
    <2> QED
      BY ZenonT(30), <1>12, <2>2, <2>3 DEF ExportEnqueue
  <1>13. CASE ExportMemory(c)
    <2>1. queue' = queue /\ pc[c] = "export" /\ l = "returned"
      BY SMTT(30), <1>5, <1>13 DEF ExportMemory, IInv, ObjInv, TypeOK
    <2>2. PICK h : h = Snapshot(span[obj[c]])
      BY ZenonT(30)
    <2>3. span[obj[c]] \in SpanObject /\ Contents(c, span[obj[c]])
      BY ZenonT(30), <2>1, OwnedSpan DEF Owns, IInv, ObjInv
    <2>4. h \in Copy /\ h.ctx.id = c /\ memory \in Seq(Copy)
      <3>1. Snapped(c, h)
        BY ZenonT(30), <2>1, <2>2, <2>3, SnapshotFields
      <3> QED
        BY <3>1 DEF Snapped, IInv, ObjInv, TypeOK
    <2>5. IdsOf(Append(memory, h)) = IdsOf(memory) \cup {h.ctx.id}
      BY <2>4, AppendSeq
    <2>6. memory' = Append(memory, h)
      BY ZenonT(30), <1>13, <2>2 DEF ExportMemory
    <2>7. Buffered' = Buffered \cup {c}
      BY ZenonT(30), <1>1, <1>3, <2>1, <2>4, <2>5, <2>6
    <2> QED
      BY ZenonT(30), <1>7, <2>1, <2>7
  <1> QED
    BY ZenonT(30), <1>8, <1>9, <1>10, <1>11, <1>12, <1>13 DEF CallNext

LEMMA QuietFate ==
    ASSUME Delivered' = Delivered, failed' = failed, Buffered' = Buffered, pc' = pc
    PROVE  \A d \in Calls : FateOf(d)' = FateOf(d)
  BY ZenonT(30) DEF FateOf

LEMMA PostFate ==
    ASSUME IInv, IInv', WorkerPost
    PROVE  Fate!FateNext
  <1>1. PICK B, to : /\ B = IdsOf(batch) /\ to \in {"delivered", "lost"}
                     /\ \/ to = "delivered" /\ Delivered' = Delivered \cup B /\ failed' = failed
                        \/ to = "lost" /\ Delivered' = Delivered /\ failed' = failed \cup B
    <2>1. {p.id : p \in BuildOTLPJSON(batch)} = IdsOf(batch)
      BY ZenonT(30), PostedRecords DEF IInv, ObjInv, TypeOK
    <2>2. CASE posted' = posted \cup BuildOTLPJSON(batch) /\ failed' = failed
      <3>1. Delivered' = Delivered \cup IdsOf(batch)
        BY <2>1, <2>2 DEF Delivered
      <3> QED
        BY ZenonT(30), <2>2, <3>1
    <2>3. CASE posted' = posted /\ failed' = failed \cup IdsOf(batch)
      BY ZenonT(30), <2>3 DEF Delivered
    <2> QED
      BY ZenonT(30), <2>2, <2>3 DEF WorkerPost, IdsOf
  <1>2. /\ queue' = queue /\ batch' = <<>> /\ memory' = memory /\ kind = "otlp" /\ memory = <<>> /\ pc' = pc
        /\ IdsOf(queue) \cap IdsOf(batch) = {} /\ IdsOf(batch) \cap (Delivered \cup failed) = {}
    BY ZenonT(30) DEF WorkerPost, callVars, IInv, OnceInv
  <1>3. /\ Buffered = IdsOf(queue) \cup B /\ Buffered' = IdsOf(queue)
        /\ B \cap IdsOf(queue) = {} /\ B \cap (Delivered \cup failed) = {}
    BY ZenonT(30), <1>1, <1>2, BufferedIds, BufferedIdsNext, EmptySeq DEF IInv, ObjInv
  <1>4. \A c \in B : c \in Calls /\ FateOf(c) = "buffered"
    <2>1. \A c \in B : c \in Calls
      BY ZenonT(30), <1>1, GenuineIds DEF IInv, CopyInv
    <2> QED
      BY ZenonT(30), <1>3, <2>1 DEF FateOf
  <1>5. ASSUME NEW c \in Calls PROVE FateOf(c)' = IF c \in B THEN to ELSE FateOf(c)
    <2>1. CASE c \in B
      BY ZenonT(30), <1>1, <1>3, <2>1 DEF FateOf
    <2>2. CASE c \notin B
      <3>1. (c \in Delivered' <=> c \in Delivered) /\ (c \in failed' <=> c \in failed) /\ (c \in Buffered' <=> c \in Buffered)
        BY ZenonT(30), <1>1, <1>3, <2>2
      <3> QED
        BY ZenonT(30), <1>2, <2>2, <3>1 DEF FateOf
    <2> QED
      BY ZenonT(30), <2>1, <2>2
  <1>6. PICK from : from = "buffered"
    BY ZenonT(30)
  <1> QED
    BY ZenonT(30), <1>1, <1>4, <1>5, <1>6, FateMove

LEMMA ResetFate ==
    ASSUME IInv, IInv', NEW k \in Closers, MemoryShutdown(k)
    PROVE  Fate!FateNext
  <1>1. PICK B, from, to : B = IdsOf(memory) /\ from = "buffered" /\ to = "lost"
    BY ZenonT(30)
  <1>2. queue' = queue /\ batch' = batch /\ memory' = <<>> /\ pc' = pc /\ posted' = posted /\ failed' = failed
    BY DEF MemoryShutdown, callVars
  <1>3. Delivered' = Delivered
    BY ZenonT(30), <1>2 DEF Delivered
  <1>4. /\ Buffered = IdsOf(queue) \cup IdsOf(batch) \cup B /\ Buffered' = IdsOf(queue) \cup IdsOf(batch)
    BY ZenonT(30), <1>1, <1>2, BufferedIds, BufferedIdsNext, EmptySeq DEF IInv, ObjInv
  <1>5. B # {} => IdsOf(queue) = {} /\ IdsOf(batch) = {} /\ Delivered = {} /\ failed = {}
    <2>1. B # {} => kind = "memory"
      BY ZenonT(30), <1>1, EmptySeq DEF IInv, OnceInv
    <2>2. kind = "memory" => queue = <<>> /\ batch = <<>> /\ posted = {} /\ failed = {}
      BY DEF IInv, OnceInv
    <2>3. posted = {} => Delivered = {}
      BY DEF Delivered
    <2> QED
      BY ZenonT(30), <2>1, <2>2, <2>3, EmptySeq
  <1>6. \A c \in B : c \in Calls /\ pc[c] = "returned"
    BY ZenonT(30), <1>1, GenuineIds DEF IInv, CopyInv
  <1>7. \A c \in B : FateOf(c) = from
    BY ZenonT(30), <1>1, <1>4, <1>5 DEF FateOf
  <1>8. ASSUME NEW c \in Calls PROVE FateOf(c)' = IF c \in B THEN to ELSE FateOf(c)
    <2>1. CASE c \in B
      BY ZenonT(30), <1>1, <1>2, <1>3, <1>4, <1>5, <1>6, <2>1 DEF FateOf
    <2>2. CASE c \notin B
      BY ZenonT(30), <1>2, <1>3, <1>4, <2>2 DEF FateOf
    <2> QED
      BY ZenonT(30), <2>1, <2>2
  <1>9. B \in SUBSET Calls
    BY ZenonT(30), <1>6
  <1> QED
    BY ZenonT(30), <1>1, <1>7, <1>8, <1>9, FateMove

LEMMA FateStep == IInv /\ IInv' /\ [Next]_vars => [Fate!FateNext]_[c \in Calls |-> FateOf(c)]
  <1> SUFFICES ASSUME IInv, IInv', [Next]_vars
               PROVE  Fate!FateNext \/ \A d \in Calls : FateOf(d)' = FateOf(d)
    BY ZenonT(30), FateStutter
  <1>1. ASSUME UNCHANGED <<pc, posted, failed, queue, batch, memory>>
        PROVE  \A d \in Calls : FateOf(d)' = FateOf(d)
    <2>1. pc' = pc /\ posted' = posted /\ failed' = failed /\ queue' = queue /\ batch' = batch /\ memory' = memory
      BY ZenonT(30), <1>1
    <2>2. Delivered' = Delivered /\ Buffered' = Buffered
      BY ZenonT(30), <2>1 DEF Delivered, Buffered, Held
    <2> QED
      BY ZenonT(30), <2>1, <2>2, QuietFate
  <1>2. CASE UNCHANGED vars
    BY ZenonT(30), <1>1, <1>2 DEF vars, callVars, exporterVars
  <1>3. ASSUME NEW c \in Calls, CallNext(c)
        PROVE  Fate!FateNext \/ \A d \in Calls : FateOf(d)' = FateOf(d)
    BY ZenonT(30), <1>3, CallFate
  <1>4. ASSUME NEW k \in Closers, CloserNext(k)
        PROVE  Fate!FateNext \/ \A d \in Calls : FateOf(d)' = FateOf(d)
    <2>1. CASE MemoryShutdown(k)
      BY ZenonT(30), <2>1, ResetFate
    <2>2. CASE TracerShutdown(k) \/ ShutdownCheck(k) \/ ShutdownClose(k) \/ ShutdownWait(k)
      BY ZenonT(30), <1>1, <2>2
         DEF TracerShutdown, ShutdownCheck, ShutdownClose, ShutdownWait, callVars, exporterVars
    <2> QED
      BY ZenonT(30), <1>4, <2>1, <2>2 DEF CloserNext
  <1>5. CASE WorkerTick \/ WorkerDone \/ WorkerDrained
    BY ZenonT(30), <1>1, <1>5 DEF WorkerTick, WorkerDone, WorkerDrained, callVars
  <1>6. CASE WorkerTake
    <2>1. /\ pc' = pc /\ posted' = posted /\ failed' = failed /\ memory' = memory /\ queue # <<>>
          /\ queue \in Seq(Copy) /\ batch \in Seq(Copy)
      BY ZenonT(30), <1>6 DEF WorkerTake, callVars, IInv, ObjInv, TypeOK
    <2>2. PICK h, q : h = Head(queue) /\ q = Tail(queue)
      BY ZenonT(30)
    <2>3. h \in Copy /\ IdsOf(queue) = IdsOf(q) \cup {h.ctx.id}
      BY SMTT(30), <2>1, <2>2, TailSeq
    <2>4. IdsOf(Append(batch, h)) = IdsOf(batch) \cup {h.ctx.id}
      BY <2>1, <2>3, AppendSeq
    <2>5. queue' = q /\ batch' = Append(batch, h)
      BY ZenonT(30), <1>6, <2>2 DEF WorkerTake
    <2>6. /\ Buffered = IdsOf(queue) \cup IdsOf(batch) \cup IdsOf(memory)
          /\ Buffered' = IdsOf(queue') \cup IdsOf(batch') \cup IdsOf(memory')
      BY ZenonT(30), BufferedIds, BufferedIdsNext DEF IInv, ObjInv
    <2>7. Buffered' = Buffered
      BY ZenonT(30), <2>1, <2>3, <2>4, <2>5, <2>6
    <2>8. Delivered' = Delivered
      BY ZenonT(30), <2>1 DEF Delivered
    <2> QED
      BY ZenonT(30), <2>1, <2>7, <2>8, QuietFate
  <1>7. CASE WorkerPost
    BY ZenonT(30), <1>7, PostFate
  <1> QED
    BY ZenonT(30), <1>2, <1>3, <1>4, <1>5, <1>6, <1>7 DEF Next, WorkerNext

LEMMA FateStart == Init => Fate!FateInit
  <1> SUFFICES ASSUME Init PROVE \A c \in Calls : FateOf(c) = "idle"
    BY ZenonT(30) DEF Fate!FateInit
  <1>1. IInv
    BY ZenonT(30), InitInv
  <1>2. pc = [c \in Calls |-> "idle"]
    BY ZenonT(30) DEF Init
  <1>3. ASSUME NEW c \in Calls PROVE FateOf(c) = "idle"
    <2>1. pc[c] = "idle"
      BY ZenonT(30), <1>2
    <2>2. c \notin Delivered /\ c \notin failed /\ c \notin Buffered
      BY <1>1, <2>1, NotYet
    <2> QED
      BY <2>1, <2>2 DEF FateOf
  <1> QED
    BY ZenonT(30), <1>3

THEOREM FateRefinement == Spec => SpanFateSpec
  <1>1. Init => Fate!FateInit
    BY FateStart
  <1>2. IInv /\ IInv' /\ [Next]_vars => [Fate!FateNext]_[c \in Calls |-> FateOf(c)]
    BY FateStep
  <1> QED
    BY <1>1, <1>2, Invariance, PTL DEF Spec, SpanFateSpec, Fate!FateSpec
=============================================================================
