-------------------------- MODULE DispatcherProofs --------------------------
(***************************************************************************)
(* The jobs of the dispatcher and the frames that answer them, for every   *)
(* number of callers, workers and jobs, every limit on the jobs and every  *)
(* capacity of the input channel.                                          *)
(***************************************************************************)
EXTENDS Dispatcher, FiniteSetTheorems, TLAPS

\* What is left of a channel once its first frame is taken.
LEMMA HeadAndTail ==
    ASSUME NEW S, NEW q \in Seq(S), q # <<>>
    PROVE  /\ Head(q) = q[1] /\ 1 \in DOMAIN q
           /\ \A i \in DOMAIN Tail(q) : i + 1 \in DOMAIN q /\ Tail(q)[i] = q[i + 1]
  OBVIOUS

-----------------------------------------------------------------------------
(* The dispatcher: types.                                                  *)

\* The fields New sets have their types, and no goroutine runs yet.
LEMMA TypeInit == Init => TypeOK
<1> SUFFICES ASSUME Init PROVE TypeOK
  OBVIOUS
<1>1. input \in Seq(Packets) /\ Len(input) <= Capacity
  BY DispatcherAssumption DEF Init
<1>2. resCh \in [Callers -> SUBSET Packets] /\ wpkt \in [Workers -> Packets]
  BY DEF Init, Packets
<1> QED
  BY ZenonT(30), <1>1, <1>2, DispatcherAssumption DEF Init, TypeOK, CallerLabels, WorkerLabels

\* Every step of SendSync, Dispatch, the pool and the peer keeps the types.
LEMMA TypeStep == TypeOK /\ [Next]_vars => TypeOK'
<1> SUFFICES ASSUME TypeOK, [Next]_vars PROVE TypeOK'
  BY SMTT(30)
<1> USE DispatcherAssumption
    DEF TypeOK, CallerLabels, WorkerLabels, Packets, calls, pool, wire
<1>1. ASSUME NEW k \in Callers, NEW j \in Jobs, SendSync(k, j) PROVE TypeOK'
  BY <1>1 DEF SendSync
<1>2. ASSUME NEW k \in Callers, Add(k) PROVE TypeOK'
  BY <1>2 DEF Add, Added
<1>3. ASSUME NEW k \in Callers, Send(k) PROVE TypeOK'
  BY <1>3 DEF Send
<1>4. ASSUME NEW k \in Callers, Wait(k) PROVE TypeOK'
  BY <1>4 DEF Wait
<1>5. ASSUME NEW k \in Callers, Return(k) PROVE TypeOK'
  BY <1>5 DEF Return, Defer
<1>6. ASSUME NEW k \in Callers, Expire(k) PROVE TypeOK'
  BY <1>6 DEF Expire
<1>7. ASSUME NEW k \in Callers, ExpireTask(k) PROVE TypeOK'
  BY <1>7 DEF ExpireTask, Resolve, Pending, Cancelled
<1>8. ASSUME NEW h \in Handlers, RegisterHandler(h) PROVE TypeOK'
  BY <1>8 DEF RegisterHandler
<1>9. CASE ClearHandlers \/ StopWait \/ Stop
  BY ZenonT(60), <1>9 DEF ClearHandlers, StopWait, Stop
<1>10. CASE Close
  BY ZenonT(30), <1>10 DEF Close, SwapClosed
<1>11. CASE CloseCancelAll
  BY <1>11 DEF CloseCancelAll, CancelAll, Cancelled
<1>12. ASSUME NEW w \in Workers, Start(w) PROVE TypeOK'
  BY <1>12 DEF Start
<1>13. ASSUME NEW w \in Workers, Select(w) PROVE TypeOK'
  <2>1. CASE input = <<>>
    BY ZenonT(30), <1>13, <2>1 DEF Select, WorkerGo
  <2>2. CASE input # <<>>
    <3>1. Len(input) \in Nat /\ input \in Seq(Packets)
      BY DEF Packets
    <3>2. Head(input) \in Packets /\ Tail(input) \in Seq(Packets)
      BY <2>2, <3>1
    <3>3. Len(Tail(input)) = Len(input) - 1
      BY <2>2, <3>1
    <3>4. Len(Tail(input)) <= Capacity
      BY <3>1, <3>3
    <3> DEFINE h == Head(input)
    <3>5. wpc' \in [Workers -> WorkerLabels] /\ wpkt' \in [Workers -> Packets]
      <4>1. /\ wpc' = wpc \/ \E x \in WorkerLabels : wpc' = [wpc EXCEPT ![w] = x]
            /\ wpkt' = wpkt \/ wpkt' = [wpkt EXCEPT ![w] = h]
        BY <1>13 DEF Select, WorkerGo
      <4> HIDE DEF h
      <4> QED
        BY <3>2, <4>1 DEF h
    <3>6. input' \in Seq(Packets) /\ Len(input') <= Capacity
      BY ZenonT(30), <1>13, <3>2, <3>4 DEF Select
    <3> QED
      BY <1>13, <3>5, <3>6 DEF Select
  <2> QED
    BY <2>1, <2>2
<1>14. ASSUME NEW w \in Workers, DispatchJob(w) PROVE TypeOK'
  <2>1. wpc' \in [Workers -> WorkerLabels] /\ wpkt' \in [Workers -> Packets]
    BY SMTT(30), <1>14 DEF DispatchJob, Finish, WorkerGo
  <2>2. tasks' \in [Jobs -> Callers \cup {NoCaller}]
    BY <1>14 DEF DispatchJob, Resolve
  <2>3. resCh' \in [Callers -> SUBSET Packets]
    BY <1>14 DEF DispatchJob, Resolve
  <2> QED
    BY <1>14, <2>1, <2>2, <2>3 DEF DispatchJob
<1>15. ASSUME NEW w \in Workers, DispatchHandler(w) PROVE TypeOK'
  BY <1>15 DEF DispatchHandler, Finish, WorkerGo
<1>16. ASSUME NEW p \in Packets, PeerSend(p) PROVE TypeOK'
  BY <1>16 DEF PeerSend
<1>17. ASSUME NEW j \in Jobs, PeerForget(j) PROVE TypeOK'
  BY <1>17 DEF PeerForget
<1>18. CASE UNCHANGED vars
  BY <1>18 DEF vars
<1> QED
  BY ZenonT(30), <1>1, <1>2, <1>3, <1>4, <1>5, <1>6, <1>7, <1>8, <1>9, <1>10, <1>11, <1>12,
     <1>13, <1>14, <1>15, <1>16, <1>17, <1>18
     DEF Next, CallerNext, Worker

\* Dispatcher and processor keep their types.
THEOREM TypeCorrect == Spec => []TypeOK
BY TypeInit, TypeStep, PTL DEF Spec

-----------------------------------------------------------------------------
(* Correlation.  The callback table is safe because two calls never share  *)
(* a job id and because resCh is empty until the callback has run.         *)

CorrInv ==
    /\ TasksOwned /\ CallbackOnce /\ Correlated
    /\ \A k, l \in Callers : job[k] = job[l] /\ job[k] # NoJob => k = l
    /\ \A k \in Callers : pc[k] \in {"idle", "add"} => resCh[k] = {}

\* Resolving a job keeps the invariant when the result is that job's packet
\* or a cancellation.
LEMMA ResolveKeeps ==
    ASSUME TypeOK, CorrInv, NEW j \in Jobs, NEW r, r \in {j, Cancelled}, Resolve(j, r),
           UNCHANGED <<pc, job>>
    PROVE  CorrInv'
<1> USE DispatcherAssumption DEF TypeOK, Resolve
<1>1. \A i \in Jobs : tasks'[i] = IF i = j THEN NoCaller ELSE tasks[i]
  OBVIOUS
<1>2. \A k \in Callers : resCh'[k] = IF tasks[j] = k THEN resCh[k] \cup {r} ELSE resCh[k]
  OBVIOUS
<1>3. \A k \in Callers : tasks[j] = k => resCh[k] = {} /\ job[k] = j
  BY DEF CorrInv, CallbackOnce, TasksOwned
<1>4. TasksOwned'
  BY <1>1 DEF CorrInv, TasksOwned
<1>5. CallbackOnce'
  BY <1>1, <1>2, <1>3 DEF CorrInv, CallbackOnce, TasksOwned
<1>6. Correlated'
  BY <1>2, <1>3 DEF CorrInv, Correlated
<1>7. \A k \in Callers : pc[k] \in {"idle", "add"} => tasks[j] # k
  BY DEF CorrInv, TasksOwned
<1> QED
  BY <1>2, <1>4, <1>5, <1>6, <1>7 DEF CorrInv

\* Every step of SendSync, Dispatch, Close and the context keeps CorrInv.
LEMMA CorrStep == TypeOK /\ CorrInv /\ [Next]_vars => CorrInv'
<1> SUFFICES ASSUME TypeOK, CorrInv, [Next]_vars PROVE CorrInv'
  OBVIOUS
<1> USE DispatcherAssumption DEF calls, pool, wire
<1>1. ASSUME NEW k \in Callers, NEW j \in Jobs, SendSync(k, j) PROVE CorrInv'
  <2>1. /\ resCh[k] = {} /\ \A i \in Jobs : tasks[i] # k
        /\ \A l \in Callers : job[l] # j
    BY <1>1 DEF SendSync, Fresh, CorrInv, TasksOwned
  <2>2. /\ job' = [job EXCEPT ![k] = j] /\ pc' = [pc EXCEPT ![k] = "add"]
        /\ UNCHANGED <<tasks, resCh>>
    BY <1>1 DEF SendSync
  <2>3. TasksOwned'
    BY <2>1, <2>2 DEF TypeOK, CorrInv, TasksOwned
  <2>4. CallbackOnce'
    BY <2>1, <2>2 DEF CorrInv, CallbackOnce
  <2>5. Correlated'
    <3>1. \A l \in Callers : l # k => job'[l] = job[l]
      BY ZenonT(30), <2>2 DEF TypeOK
    <3> QED
      BY ZenonT(30), <2>1, <2>2, <3>1 DEF CorrInv, Correlated
  <2> QED
    BY ZenonT(30), <2>1, <2>2, <2>3, <2>4, <2>5 DEF TypeOK, CorrInv
<1>2. ASSUME NEW k \in Callers, Add(k) PROVE CorrInv'
  <2>1. job[k] \in Jobs /\ pc' = [pc EXCEPT ![k] = "send"] /\ UNCHANGED <<job, resCh>>
    BY <1>2 DEF Add, TypeOK
  <2>2. CASE tasks' = tasks
    BY <1>2, <2>1, <2>2
       DEF Add, TypeOK, CorrInv, TasksOwned, CallbackOnce, Correlated
  <2>3. CASE tasks' = [tasks EXCEPT ![job[k]] = k]
    <3>1. TasksOwned'
      BY <1>2, <2>1, <2>3 DEF Add, TypeOK, CorrInv, TasksOwned
    <3>2. CallbackOnce'
      BY <1>2, <2>1, <2>3 DEF Add, TypeOK, CorrInv, CallbackOnce
    <3> QED
      BY <2>1, <3>1, <3>2 DEF TypeOK, CorrInv, Correlated
  <2> QED
    BY ZenonT(30), <1>2, <2>2, <2>3 DEF Add, Added
<1>3. ASSUME NEW k \in Callers, Send(k) PROVE CorrInv'
  BY <1>3 DEF Send, TypeOK, CorrInv, TasksOwned, CallbackOnce, Correlated
<1>4. ASSUME NEW k \in Callers, Wait(k) PROVE CorrInv'
  BY <1>4 DEF Wait, TypeOK, CorrInv, TasksOwned, CallbackOnce, Correlated
<1>5. ASSUME NEW k \in Callers, Return(k) PROVE CorrInv'
  <2>1. job[k] \in Jobs /\ \A i \in Jobs : tasks[i] = k => i = job[k]
    BY <1>5 DEF Return, TypeOK, CorrInv, TasksOwned
  <2> QED
    BY <1>5, <2>1
       DEF Return, Defer, TypeOK, CorrInv, TasksOwned, CallbackOnce, Correlated
<1>6. ASSUME NEW k \in Callers, ExpireTask(k) PROVE CorrInv'
  <2>1. PICK j \in Jobs : Resolve(j, Cancelled)
    BY <1>6 DEF ExpireTask, Pending
  <2> QED
    BY <1>6, <2>1, ResolveKeeps DEF ExpireTask
<1>7. CASE CloseCancelAll
  <2>1. /\ \A i \in Jobs : tasks'[i] = NoCaller
        /\ \A k \in Callers : resCh'[k] = IF \E i \in Jobs : tasks[i] = k
                                         THEN resCh[k] \cup {Cancelled} ELSE resCh[k]
        /\ UNCHANGED <<pc, job>>
    BY ZenonT(30), <1>7 DEF CloseCancelAll, CancelAll, TypeOK
  <2>2. \A k \in Callers : (\E i \in Jobs : tasks[i] = k) =>
             resCh[k] = {} /\ pc[k] \notin {"idle", "add"}
    BY ZenonT(30) DEF CorrInv, CallbackOnce, TasksOwned
  <2>3. TasksOwned'
    BY <2>1 DEF TasksOwned
  <2>4. Correlated'
    <3>1. \A k \in Callers : resCh'[k] = resCh[k] \/ resCh'[k] = resCh[k] \cup {Cancelled}
      BY ZenonT(30), <2>1
    <3>2. \A k \in Callers : job'[k] = job[k]
      BY ZenonT(30), <2>1
    <3> QED
      BY <3>1, <3>2 DEF CorrInv, Correlated, Cancelled
  <2>5. CallbackOnce'
    <3>1. \A k \in Callers : resCh'[k] = resCh[k] \/ resCh'[k] = {Cancelled}
      BY ZenonT(30), <2>1, <2>2
    <3> QED
      BY <2>1, <3>1 DEF CorrInv, CallbackOnce
  <2> QED
    BY ZenonT(30), <2>1, <2>2, <2>3, <2>4, <2>5 DEF CorrInv
<1>8. ASSUME NEW w \in Workers, DispatchJob(w) PROVE CorrInv'
  <2>1. CASE wpkt[w] \in Pending
    <3>1. Resolve(wpkt[w], wpkt[w]) /\ UNCHANGED <<pc, job>> /\ wpkt[w] \in Jobs
      BY ZenonT(30), <1>8, <2>1 DEF DispatchJob, Pending
    <3> QED
      BY <3>1, ResolveKeeps
  <2>2. CASE wpkt[w] \notin Pending
    <3>1. UNCHANGED <<tasks, resCh, pc, job>>
      BY Zenon, <1>8, <2>2 DEF DispatchJob
    <3> QED
      BY <3>1 DEF CorrInv, TasksOwned, CallbackOnce, Correlated
  <2> QED
    BY <2>1, <2>2
<1>9. CASE UNCHANGED <<tasks, resCh, pc, job>>
  BY ZenonT(30), <1>9 DEF CorrInv, TasksOwned, CallbackOnce, Correlated
<1>10. ASSUME NEW k \in Callers, Expire(k) PROVE UNCHANGED <<tasks, resCh, pc, job>>
  BY <1>10 DEF Expire
<1>11. ASSUME NEW h \in Handlers, RegisterHandler(h)
       PROVE UNCHANGED <<tasks, resCh, pc, job>>
  BY <1>11 DEF RegisterHandler
<1>12. ClearHandlers \/ Close \/ Stop \/ StopWait
          => UNCHANGED <<tasks, resCh, pc, job>>
  BY ZenonT(30) DEF ClearHandlers, Close, Stop, StopWait
<1>13. ASSUME NEW w \in Workers, Start(w) \/ Select(w) \/ DispatchHandler(w)
       PROVE UNCHANGED <<tasks, resCh, pc, job>>
  BY <1>13 DEF Start, Select, DispatchHandler
<1>14. ASSUME NEW p, PeerSend(p) \/ PeerForget(p)
       PROVE UNCHANGED <<tasks, resCh, pc, job>>
  BY <1>14 DEF PeerSend, PeerForget
<1>15. UNCHANGED vars => UNCHANGED <<tasks, resCh, pc, job>>
  BY DEF vars
<1> QED
  BY <1>1, <1>2, <1>3, <1>4, <1>5, <1>6, <1>7, <1>8, <1>9, <1>10, <1>11, <1>12,
     <1>13, <1>14, <1>15
     DEF Next, CallerNext, Worker

\* CorrInv holds throughout.
LEMMA CorrAlways == Spec => [](TypeOK /\ CorrInv)
<1>1. Init => CorrInv
  BY DispatcherAssumption
     DEF Init, CorrInv, TasksOwned, CallbackOnce, Correlated
<1> QED
  BY <1>1, TypeInit, TypeStep, CorrStep, PTL DEF Spec

\* No callback outlives the SendSync that registered it.
THEOREM Ownership == Spec => []TasksOwned
<1>1. CorrInv => TasksOwned
  BY DEF CorrInv
<1> QED
  BY <1>1, CorrAlways, PTL

\* The callback of a SendSync sends at most one result: it never blocks.
THEOREM Once == Spec => []CallbackOnce
<1>1. CorrInv => CallbackOnce
  BY DEF CorrInv
<1> QED
  BY <1>1, CorrAlways, PTL

\* A SendSync only ever sees the answer to its own request.
THEOREM Correlation == Spec => []Correlated
<1>1. CorrInv => Correlated
  BY ZenonT(30) DEF CorrInv
<1> QED
  BY <1>1, CorrAlways, PTL

-----------------------------------------------------------------------------
(* Room in the table.  The registered jobs belong to different calls, and  *)
(* to none that has yet to register its own; with a place for every caller *)
(* Add therefore never finds the table full.                               *)

ServedInv ==
    \A k \in Callers : pc[k] \in {"send", "wait"} => tasks[job[k]] = k \/ resCh[k] # {}

LEMMA RoomToAdd ==
    ASSUME IsFiniteSet(Callers), Cardinality(Callers) <= MaxJobs, TypeOK, CorrInv,
           NEW k \in Callers, pc[k] = "add"
    PROVE  Cardinality(Pending) < MaxJobs
<1> DEFINE owner == [j \in Pending |-> tasks[j]]
<1>1. \A j \in Pending : j \in Jobs /\ tasks[j] \in Callers
  BY Zenon DEF Pending, TypeOK
<1>2. \A j \in Pending : tasks[j] \in Callers \ {k}
  BY <1>1 DEF CorrInv, TasksOwned
<1>3. \A i, j \in Pending : tasks[i] = tasks[j] => i = j
  <2>1. \A i \in Pending : job[tasks[i]] = i
    BY <1>1, Zenon DEF CorrInv, TasksOwned
  <2> QED BY <2>1
<1>4. owner \in Injection(Pending, Callers \ {k})
  BY <1>2, <1>3, Zenon DEF Injection, IsInjective
<1>5. /\ IsFiniteSet(Callers \ {k}) /\ Cardinality(Callers \ {k}) = Cardinality(Callers) - 1
      /\ Cardinality(Callers) \in Nat
  BY FS_RemoveElement, FS_CardinalityType
<1> HIDE DEF owner
<1>6. IsFiniteSet(Pending) /\ Cardinality(Pending) <= Cardinality(Callers \ {k})
  BY <1>4, <1>5, FS_Injection, Zenon
<1>7. Cardinality(Pending) \in Nat
  BY <1>6, FS_CardinalityType, Zenon
<1> QED BY <1>5, <1>6, <1>7, DispatcherAssumption

\* A result that takes a job out of the table is in resCh.
LEMMA ResolveServes ==
    ASSUME TypeOK, ServedInv, NEW j \in Jobs, NEW r, Resolve(j, r), UNCHANGED <<pc, job>>
    PROVE  ServedInv'
<1>1. \A i \in Jobs : i # j => tasks'[i] = tasks[i]
  BY Zenon DEF TypeOK, Resolve
<1>2. \A k \in Callers : resCh'[k] = IF tasks[j] = k THEN resCh[k] \cup {r} ELSE resCh[k]
  BY Zenon DEF Resolve
<1> SUFFICES ASSUME NEW k \in Callers, pc[k] \in {"send", "wait"} PROVE tasks'[job[k]] = k \/ resCh'[k] # {}
  BY Zenon DEF ServedInv
<1>3. job[k] \in Jobs
  BY Zenon, DispatcherAssumption DEF TypeOK
<1>4. CASE resCh[k] # {}
  BY <1>2, <1>4, Zenon
<1>5. CASE tasks[job[k]] = k
  BY <1>1, <1>2, <1>3, <1>5, Zenon
<1> QED BY <1>4, <1>5, Zenon DEF ServedInv

LEMMA ServedStep ==
    ASSUME IsFiniteSet(Callers), Cardinality(Callers) <= MaxJobs, TypeOK, CorrInv, ServedInv, [Next]_vars
    PROVE  ServedInv'
<1>1. ASSUME NEW k \in Callers, NEW j \in Jobs, SendSync(k, j) PROVE ServedInv'
  <2>1. /\ \A l \in Callers : l # k => pc'[l] = pc[l] /\ job'[l] = job[l]
        /\ pc'[k] = "add" /\ tasks' = tasks /\ resCh' = resCh
    BY Zenon, <1>1 DEF SendSync, TypeOK
  <2> QED BY Zenon, <2>1 DEF ServedInv
<1>2. ASSUME NEW k \in Callers, Add(k) PROVE ServedInv'
  <2>1. /\ \A l \in Callers : l # k => pc'[l] = pc[l]
        /\ pc[k] = "add" /\ job' = job /\ resCh' = resCh /\ tasks' = Added(k)
    BY Zenon, <1>2 DEF Add, TypeOK
  <2>2. Cardinality(Pending) < MaxJobs
    BY <2>1, RoomToAdd, Zenon
  <2>3. job[k] \in Jobs /\ \A l \in Callers : l # k /\ pc[l] \in {"send", "wait"} => job[l] # job[k]
    BY Zenon, <2>1, DispatcherAssumption DEF TypeOK, CorrInv
  <2>4. tasks'[job[k]] = k /\ \A i \in Jobs : i # job[k] => tasks'[i] = tasks[i]
    BY Zenon, <2>1, <2>2, <2>3 DEF Added, TypeOK
  <2>5. \A l \in Callers : pc[l] \in {"send", "wait"} => job[l] \in Jobs
    BY Zenon, DispatcherAssumption DEF TypeOK
  <2> QED BY Zenon, <2>1, <2>3, <2>4, <2>5 DEF ServedInv
<1>3. ASSUME NEW k \in Callers, Send(k) \/ Wait(k) PROVE ServedInv'
  <2>1. /\ \A l \in Callers : pc'[l] \in {"send", "wait"} => pc[l] \in {"send", "wait"}
        /\ UNCHANGED <<tasks, resCh, job>>
    BY Zenon, <1>3 DEF Send, Wait, TypeOK
  <2> QED BY Zenon, <2>1 DEF ServedInv
<1>4. ASSUME NEW k \in Callers, Return(k) PROVE ServedInv'
  <2>1. /\ \A l \in Callers : l # k => pc'[l] = pc[l] /\ job'[l] = job[l] /\ resCh'[l] = resCh[l]
        /\ pc'[k] = "idle" /\ tasks' = Defer(k) /\ pc[k] = "resolve"
    BY Zenon, <1>4 DEF Return, TypeOK
  <2>2. job[k] \in Jobs /\ \A l \in Callers : l # k => job[l] # job[k]
    BY Zenon, <2>1, DispatcherAssumption DEF TypeOK, CorrInv
  <2>3. \A i \in Jobs : i # job[k] => tasks'[i] = tasks[i]
    BY Zenon, <2>1, <2>2 DEF Defer, TypeOK
  <2>4. \A l \in Callers : pc[l] \in {"send", "wait"} => job[l] \in Jobs
    BY Zenon, DispatcherAssumption DEF TypeOK
  <2>5. \A l \in Callers : pc'[l] \in {"send", "wait"} => l # k
    BY <2>1
  <2>6. \A l \in Callers : l # k /\ pc[l] \in {"send", "wait"} => tasks[job[l]] = l \/ resCh[l] # {}
    BY Zenon DEF ServedInv
  <2>7. \A l \in Callers : l # k /\ pc[l] \in {"send", "wait"} => tasks'[job'[l]] = l \/ resCh'[l] # {}
    BY <2>1, <2>2, <2>3, <2>4, <2>6
  <2> QED BY Zenon, <2>1, <2>5, <2>7 DEF ServedInv
<1>5. ASSUME NEW k \in Callers, ExpireTask(k) PROVE ServedInv'
  <2>1. UNCHANGED <<pc, job>> /\ \E j \in Jobs : Resolve(j, Cancelled)
    BY Zenon, <1>5 DEF ExpireTask, Pending, calls
  <2> QED BY Zenon, <2>1, ResolveServes
<1>6. CASE CloseCancelAll
  <2>1. /\ \A k \in Callers : resCh'[k] = IF \E j \in Jobs : tasks[j] = k
                                          THEN resCh[k] \cup {Cancelled} ELSE resCh[k]
        /\ UNCHANGED <<pc, job>>
    BY Zenon, <1>6 DEF CloseCancelAll, CancelAll, calls
  <2>2. \A k \in Callers : pc[k] \in {"send", "wait"} => job[k] \in Jobs
    BY Zenon, DispatcherAssumption DEF TypeOK
  <2>3. \A k \in Callers : pc[k] \in {"send", "wait"} => resCh'[k] # {}
    BY <2>1, <2>2, Zenon DEF ServedInv
  <2> QED BY <2>1, <2>3, Zenon DEF ServedInv
<1>7. ASSUME NEW w \in Workers, DispatchJob(w) PROVE ServedInv'
  <2>1. CASE wpkt[w] \in Pending
    <3>1. Resolve(wpkt[w], wpkt[w]) /\ UNCHANGED <<pc, job>> /\ wpkt[w] \in Jobs
      BY Zenon, <1>7, <2>1 DEF DispatchJob, Pending, calls
    <3> QED BY Zenon, <3>1, ResolveServes
  <2>2. CASE wpkt[w] \notin Pending
    BY Zenon, <1>7, <2>2 DEF DispatchJob, calls, ServedInv
  <2> QED BY Zenon, <2>1, <2>2
<1>8. CASE UNCHANGED <<tasks, resCh, pc, job>>
  BY Zenon, <1>8 DEF ServedInv
<1>9. ASSUME NEW k \in Callers, Expire(k) PROVE ServedInv'
  BY Zenon, <1>8, <1>9 DEF Expire
<1>10. ASSUME NEW h \in Handlers, RegisterHandler(h) PROVE ServedInv'
  BY Zenon, <1>8, <1>10 DEF RegisterHandler, calls
<1>11. ClearHandlers \/ Close \/ Stop \/ StopWait => ServedInv'
  BY Zenon, <1>8 DEF ClearHandlers, Close, Stop, StopWait, calls
<1>12. ASSUME NEW w \in Workers, Start(w) \/ Select(w) \/ DispatchHandler(w) PROVE ServedInv'
  BY Zenon, <1>8, <1>12 DEF Start, Select, DispatchHandler, calls
<1>13. ASSUME NEW p, PeerSend(p) \/ PeerForget(p) PROVE ServedInv'
  BY Zenon, <1>8, <1>13 DEF PeerSend, PeerForget, calls
<1>14. UNCHANGED vars => ServedInv'
  BY Zenon, <1>8 DEF vars, calls
<1> QED
  BY ZenonT(30), <1>1, <1>2, <1>3, <1>4, <1>5, <1>6, <1>7, <1>9, <1>10, <1>11, <1>12, <1>13, <1>14
     DEF Next, CallerNext, Worker

\* SendSync drops the error of a table that is full.  With a place in the table for
\* every caller that cannot happen, and a caller in the select has its callback
\* registered or its result in resCh, for any number of callers and workers.
THEOREM AnswersCanArrive ==
    ASSUME IsFiniteSet(Callers), Cardinality(Callers) <= MaxJobs
    PROVE  Spec => []WaitIsServed
<1>1. Init => ServedInv
  BY Zenon DEF Init, ServedInv
<1>2. TypeOK /\ CorrInv /\ ServedInv /\ [Next]_vars => ServedInv'
  BY Zenon, ServedStep
<1>3. ServedInv => WaitIsServed
  BY Zenon DEF ServedInv, WaitIsServed
<1> QED
  BY <1>1, <1>2, <1>3, CorrAlways, PTL DEF Spec

-----------------------------------------------------------------------------
(* Replies do not overtake registrations: while a call has not registered  *)
(* its job, nothing anywhere in the system mentions that job.              *)

Unheard(j) ==
    /\ j \notin asked
    /\ \A i \in DOMAIN input : input[i] # j
    /\ \A w \in Workers : wpkt[w] # j

EarlyInv ==
    /\ NoEarlyReply
    /\ \A k \in Callers : pc[k] = "add" => Unheard(job[k])

\* Every step of SendSync, Dispatch, the workers and the peer keeps EarlyInv.
LEMMA EarlyStep == TypeOK /\ CorrInv /\ EarlyInv /\ [Next]_vars => EarlyInv'
<1> SUFFICES ASSUME TypeOK, CorrInv, EarlyInv, [Next]_vars PROVE EarlyInv'
  BY ZenonT(30)
<1> USE DispatcherAssumption DEF calls, pool, wire
<1>1. ASSUME NEW k \in Callers, NEW j \in Jobs, SendSync(k, j) PROVE EarlyInv'
  BY ZenonT(30), <1>1 DEF SendSync, Fresh, TypeOK, EarlyInv, NoEarlyReply, Unheard, Pending
<1>2. ASSUME NEW k \in Callers, Add(k) PROVE EarlyInv'
  <2>1. Unheard(job[k]) /\ job[k] \in Jobs
    BY ZenonT(30), <1>2 DEF Add, TypeOK, EarlyInv
  <2>2. Pending' \subseteq Pending \cup {job[k]}
    BY ZenonT(30), <1>2, <2>1 DEF Add, Added, Pending, TypeOK
  <2>3. NoEarlyReply'
    BY ZenonT(30), <1>2, <2>1, <2>2 DEF Add, EarlyInv, NoEarlyReply, Unheard
  <2> QED
    BY ZenonT(30), <1>2, <2>3 DEF Add, TypeOK, EarlyInv, Unheard
<1>3. ASSUME NEW k \in Callers, Send(k) PROVE EarlyInv'
  <2>1. /\ UNCHANGED <<tasks, job, input, wpc, wpkt>>
        /\ asked' \subseteq asked \cup {job[k]}
        /\ pc[k] = "send" /\ pc'[k] # "add"
        /\ \A l \in Callers \ {k} : pc'[l] = pc[l]
    BY ZenonT(30), <1>3 DEF Send, TypeOK
  <2>2. NoEarlyReply'
    BY ZenonT(30), <2>1 DEF EarlyInv, NoEarlyReply, Pending
  <2>3. ASSUME NEW l \in Callers, pc'[l] = "add" PROVE Unheard(job[l])'
    <3>1. l # k /\ pc[l] = "add" /\ Unheard(job[l])
      BY ZenonT(30), <2>1, <2>3 DEF EarlyInv
    <3>2. job[l] # job[k]
      BY ZenonT(30), <3>1, <2>1 DEF TypeOK, CorrInv
    <3> QED
      BY <3>1, <3>2, <2>1 DEF Unheard
  <2> QED
    BY ZenonT(30), <2>2, <2>3 DEF EarlyInv
<1>4. ASSUME NEW k \in Callers, Wait(k) PROVE EarlyInv'
  BY ZenonT(30), <1>4 DEF Wait, TypeOK, EarlyInv, NoEarlyReply, Unheard, Pending
<1>5. ASSUME NEW k \in Callers, Return(k) PROVE EarlyInv'
  BY ZenonT(30), <1>5 DEF Return, Defer, TypeOK, EarlyInv, NoEarlyReply, Unheard, Pending
<1>6. ASSUME NEW k \in Callers, ExpireTask(k) PROVE EarlyInv'
  BY ZenonT(30), <1>6 DEF ExpireTask, Resolve, TypeOK, EarlyInv, NoEarlyReply, Unheard, Pending
<1>7. CASE CloseCancelAll
  BY <1>7 DEF CloseCancelAll, CancelAll, TypeOK, EarlyInv, NoEarlyReply, Unheard,
         Pending
<1>8. ASSUME NEW w \in Workers, Select(w) PROVE EarlyInv'
  <2>1. CASE input = <<>>
    BY ZenonT(30), <1>8, <2>1 DEF Select, WorkerGo, TypeOK, EarlyInv, NoEarlyReply, Unheard, Pending
  <2>2. CASE input # <<>>
    <3>1. /\ Head(input) = input[1] /\ 1 \in DOMAIN input
          /\ \A i \in DOMAIN Tail(input) :
                i + 1 \in DOMAIN input /\ Tail(input)[i] = input[i + 1]
      BY ZenonT(30), <2>2, HeadAndTail DEF TypeOK
    <3>2. \A k \in Callers : pc[k] = "add" =>
             /\ Head(input) # job[k]
             /\ \A i \in DOMAIN Tail(input) : Tail(input)[i] # job[k]
      <4> SUFFICES ASSUME NEW k \in Callers, pc[k] = "add"
                   PROVE  /\ Head(input) # job[k]
                          /\ \A i \in DOMAIN Tail(input) : Tail(input)[i] # job[k]
        BY Zenon
      <4>1. \A i \in DOMAIN input : input[i] # job[k]
        BY Zenon DEF EarlyInv, Unheard
      <4> QED
        BY <3>1, <4>1, Zenon
    <3>3. NoJob \notin Pending
      BY DEF Pending
    <3>4. \A k \in Callers : pc'[k] = "add" => Unheard(job[k])'
      BY ZenonT(30), <1>8, <3>2 DEF Select, TypeOK, EarlyInv, Unheard
    <3>5. NoEarlyReply'
      BY ZenonT(30), <1>8, <3>3 DEF Select, WorkerGo, TypeOK, EarlyInv, NoEarlyReply, Pending
    <3> QED
      BY ZenonT(30), <1>8, <3>4, <3>5 DEF Select, EarlyInv
  <2> QED
    BY ZenonT(30), <2>1, <2>2
<1>9. ASSUME NEW w \in Workers, DispatchJob(w) PROVE EarlyInv'
  <2>1. Pending' \subseteq Pending
    BY <1>9 DEF DispatchJob, Resolve, Pending, TypeOK
  <2>2. NoEarlyReply'
    BY ZenonT(30), <1>9, <2>1
       DEF DispatchJob, Finish, WorkerGo, TypeOK, EarlyInv, NoEarlyReply
  <2>3. \A k \in Callers : pc[k] = "add" => Unheard(job[k])'
    BY ZenonT(30), <1>9 DEF DispatchJob, Finish, TypeOK, EarlyInv, Unheard
  <2> QED
    BY ZenonT(30), <1>9, <2>2, <2>3 DEF DispatchJob, EarlyInv
<1>10. ASSUME NEW w \in Workers, DispatchHandler(w) PROVE EarlyInv'
  BY ZenonT(30), <1>10 DEF DispatchHandler, Finish, WorkerGo, TypeOK, EarlyInv, NoEarlyReply,
         Unheard, Pending
<1>11. ASSUME NEW w \in Workers, Start(w) PROVE EarlyInv'
  BY ZenonT(30), <1>11 DEF Start, TypeOK, EarlyInv, NoEarlyReply, Unheard, Pending
<1>12. ASSUME NEW p \in Packets, PeerSend(p) PROVE EarlyInv'
  <2>1. \A i \in DOMAIN input' : input'[i] = p \/ (i \in DOMAIN input /\ input'[i] = input[i])
    BY <1>12 DEF PeerSend, TypeOK
  <2>2. \A k \in Callers : pc[k] = "add" => p # job[k]
    BY ZenonT(30), <1>12 DEF PeerSend, TypeOK, EarlyInv, Unheard
  <2> QED
    BY ZenonT(30), <1>12, <2>1, <2>2 DEF PeerSend, EarlyInv, NoEarlyReply, Unheard, Pending
<1>13. ASSUME NEW j \in Jobs, PeerForget(j) PROVE EarlyInv'
  BY ZenonT(30), <1>13 DEF PeerForget, EarlyInv, NoEarlyReply, Unheard, Pending
<1>14. CASE UNCHANGED <<tasks, pc, job, asked, input, wpc, wpkt>>
  BY ZenonT(30), <1>14 DEF EarlyInv, NoEarlyReply, Unheard, Pending
<1>15. ASSUME NEW k \in Callers, Expire(k)
       PROVE UNCHANGED <<tasks, pc, job, asked, input, wpc, wpkt>>
  BY <1>15 DEF Expire
<1>16. ASSUME NEW h \in Handlers, RegisterHandler(h)
       PROVE UNCHANGED <<tasks, pc, job, asked, input, wpc, wpkt>>
  BY <1>16 DEF RegisterHandler
<1>17. ClearHandlers \/ Close \/ Stop \/ StopWait \/ UNCHANGED vars
          => UNCHANGED <<tasks, pc, job, asked, input, wpc, wpkt>>
  BY ZenonT(30) DEF ClearHandlers, Close, Stop, StopWait, vars
<1> QED
  BY SMTT(30), <1>1, <1>2, <1>3, <1>4, <1>5, <1>6, <1>7, <1>8, <1>9, <1>10, <1>11, <1>12,
     <1>13, <1>14, <1>15, <1>16, <1>17
     DEF Next, CallerNext, Worker

\* Dispatch never gives a reply to a handler because it came before its
\* caller was registered: SendSync registers first and writes afterwards.
THEOREM NoOvertaking == Spec => []NoEarlyReply
<1>1. Init => EarlyInv
  BY DEF Init, EarlyInv, NoEarlyReply
<1>2. EarlyInv => NoEarlyReply
  BY DEF EarlyInv
<1> QED
  BY <1>1, <1>2, CorrAlways, EarlyStep, PTL DEF Spec

-----------------------------------------------------------------------------
(* Stop.  A pool that was complete when Stop began stays complete, and a   *)
(* worker that has returned stays away.                                    *)

StopInv ==
    /\ StopQuiesces
    /\ whole => \A w \in Workers : wpc[w] # "unborn"
    /\ stop = "no" => ~whole

\* No worker runs once Stop has returned on a complete pool.
THEOREM Quiescence == Spec => []StopQuiesces
<1>1. Init => StopInv
  BY DEF Init, StopInv, StopQuiesces
<1>2. TypeOK /\ StopInv /\ [Next]_vars => StopInv'
  <2> SUFFICES ASSUME TypeOK, StopInv, [Next]_vars PROVE StopInv'
    OBVIOUS
  <2> USE DEF calls, pool, wire
  <2>1. CASE Stop
    BY <2>1 DEF Stop, StopInv, StopQuiesces
  <2>2. CASE StopWait
    BY <2>2 DEF StopWait, Running, StopInv, StopQuiesces
  <2>3. ASSUME NEW w \in Workers, Start(w) PROVE StopInv'
    BY ZenonT(30), <2>3 DEF Start, TypeOK, StopInv, StopQuiesces
  <2>4. ASSUME NEW w \in Workers, Worker(w) PROVE StopInv'
    BY <2>4 DEF Worker, Select, DispatchJob, DispatchHandler, Finish, WorkerGo,
           TypeOK, StopInv, StopQuiesces
  <2>5. CASE UNCHANGED <<wpc, stop, whole>>
    BY SMTT(30), <2>5 DEF StopInv, StopQuiesces
  <2>6. ASSUME NEW k \in Callers, CallerNext(k) \/ Expire(k) \/ ExpireTask(k)
        PROVE UNCHANGED <<wpc, stop, whole>>
    BY ZenonT(30), <2>6 DEF CallerNext, Add, Send, Wait, Return, Expire, ExpireTask
  <2>7. ASSUME NEW k \in Callers, NEW j \in Jobs, SendSync(k, j)
        PROVE UNCHANGED <<wpc, stop, whole>>
    BY <2>7 DEF SendSync
  <2>8. ASSUME NEW x, RegisterHandler(x) \/ PeerSend(x) \/ PeerForget(x)
        PROVE UNCHANGED <<wpc, stop, whole>>
    BY <2>8 DEF RegisterHandler, PeerSend, PeerForget
  <2>9. ClearHandlers \/ Close \/ CloseCancelAll \/ UNCHANGED vars
           => UNCHANGED <<wpc, stop, whole>>
    BY DEF ClearHandlers, Close, CloseCancelAll, vars
  <2> QED
    BY <2>1, <2>2, <2>3, <2>4, <2>5, <2>6, <2>7, <2>8, <2>9 DEF Next
<1>3. StopInv => StopQuiesces
  BY DEF StopInv
<1> QED
  BY <1>1, <1>2, <1>3, TypeCorrect, PTL DEF Spec
=============================================================================
