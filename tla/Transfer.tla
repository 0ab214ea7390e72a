------------------------------ MODULE Transfer ------------------------------
(***************************************************************************)
(* File transfers over SSH (ssh/sftp): UploadParallel and DownloadParallel *)
(* with their producer, their workers and the two contexts, the sequential *)
(* Upload and Download, and the SCP WriteFile with its copier goroutine.   *)
(* A file is its length; what the destination holds is the set of offsets  *)
(* written.                                                                *)
(***************************************************************************)
EXTENDS Naturals, Sequences

CONSTANTS
    Jobs,       \* the calls to choose from, records of the fields below
    BufLen      \* length of a buffer of ioBufferPool (64 KiB)

ASSUME InputsAssumption ==
    /\ Jobs \subseteq [kind : {"uploadPar", "downloadPar", "upload", "download", "scp"},
                       total : Nat, chunk : Nat, workers : Nat, avail : Nat]
    /\ BufLen \in Nat

\* The kinds of call, and the handles each opens, in the order of the code.
Handles(kind) ==
    CASE kind = "uploadPar"   -> <<"local", "stat", "sftp", "remote">>
      [] kind = "downloadPar" -> <<"sftp", "remote", "stat", "local">>
      [] kind = "upload"      -> <<"local", "sftp", "remote">>
      [] kind = "download"    -> <<"local", "sftp", "remote">>
      [] kind = "scp"         -> <<"local", "stat", "session", "stdin">>

VARIABLES
    job,        \* [kind, total, chunk, workers, avail]: the call's arguments
    main,       \* the caller's step
    held,       \* how many handles are open, a prefix of Handles
    result,     \* what the call returned
    offset,     \* the producer's next offset
    prod,       \* the producer's step
    taskCh,     \* taskCh, closed when prod = "done"
    cancelled,  \* the derived context is done
    abandoned,  \* the caller's own context is done
    worker,     \* per worker: its step, its task and how much is written
    errs,       \* errors in errCh
    dst,        \* the offsets written at the destination
    twice,      \* offsets written more than once
    copier      \* WriteFile's goroutine: its step

callVars == <<job, main, held, result>>
poolVars == <<offset, prod, taskCh, worker, errs>>
transferVars == <<callVars, poolVars, cancelled, abandoned, dst, twice, copier>>

Parallel == job.kind \in {"uploadPar", "downloadPar"}

\* numWorkers: a number <= 0 means four.
NumWorkers == IF job.workers = 0 THEN 4 ELSE job.workers
Workers == 1 .. NumWorkers

Bytes(from, n) == from .. (from + n - 1)

NoTask == [offset |-> 0, size |-> 0]

TransferInit ==
    /\ job \in Jobs
    /\ main = "open" /\ held = 0 /\ result = "none"
    /\ offset = 0 /\ prod = "idle" /\ taskCh = <<>>
    /\ cancelled = FALSE /\ abandoned = FALSE
    /\ worker = [w \in Workers |-> [pc |-> "idle", task |-> NoTask, written |-> 0]]
    /\ errs = 0 /\ dst = {} /\ twice = {} /\ copier = "idle"

\* The deferred Close calls run on every return.
Return(r) == main' = "done" /\ result' = r /\ held' = 0

\* The caller cancels its context; a sequential call takes none.
Abandon ==
    /\ Parallel /\ ~abandoned
    /\ abandoned' = TRUE /\ cancelled' = TRUE
    /\ UNCHANGED <<callVars, poolVars, dst, twice, copier>>

---------------------------------------------------------------------------
(* Opening. *)

InvalidChunkSize ==
    /\ main = "open" /\ held = 0 /\ Parallel /\ job.chunk = 0
    /\ Return("ErrInvalidChunkSize")
    /\ UNCHANGED <<job, poolVars, cancelled, abandoned, dst, twice, copier>>

\* The next handle is opened, or the call returns its error.
Open ==
    /\ main = "open" /\ held < Len(Handles(job.kind))
    /\ Parallel => job.chunk > 0
    /\ \/ held' = held + 1 /\ UNCHANGED <<main, result>>
       \/ Return("error")
    /\ UNCHANGED <<job, poolVars, cancelled, abandoned, dst, twice, copier>>

\* A file of no bytes ends here; a download still flushes it.
UploadParallel ==
    /\ main = "open" /\ job.kind = "uploadPar" /\ held = Len(Handles(job.kind))
    /\ IF job.total = 0
         THEN Return("ok") /\ UNCHANGED <<prod, worker>>
         ELSE /\ main' = "wait" /\ prod' = "loop"
              /\ worker' = [w \in Workers |-> [worker[w] EXCEPT !.pc = "range"]]
              /\ UNCHANGED <<held, result>>
    /\ UNCHANGED <<job, offset, taskCh, errs, cancelled, abandoned, dst, twice, copier>>

DownloadParallel ==
    /\ main = "open" /\ job.kind = "downloadPar" /\ held = Len(Handles(job.kind))
    /\ IF job.total = 0
         THEN main' = "sync" /\ UNCHANGED <<prod, worker>>
         ELSE /\ main' = "wait" /\ prod' = "loop"
              /\ worker' = [w \in Workers |-> [worker[w] EXCEPT !.pc = "range"]]
    /\ UNCHANGED <<job, held, result, offset, taskCh, errs, cancelled, abandoned,
                   dst, twice, copier>>

---------------------------------------------------------------------------
(* The producer and the workers. *)

MinOf(a, b) == IF a < b THEN a ELSE b

\* The select of produceChunks: with both cases ready either is taken.
ProduceMut ==
    /\ prod = "loop" /\ offset < job.total
    /\ Len(taskCh) < 2 * NumWorkers
    /\ taskCh' = Append(taskCh, [offset |-> offset,
                                 size   |-> MinOf(job.chunk, job.total - offset)])
    /\ offset' = offset + job.chunk + 1
    /\ UNCHANGED <<callVars, prod, worker, errs, cancelled, abandoned, dst, twice, copier>>
Produce ==
    /\ prod = "loop" /\ offset < job.total
    /\ Len(taskCh) < 2 * NumWorkers
    /\ taskCh' = Append(taskCh, [offset |-> offset,
                                 size   |-> MinOf(job.chunk, job.total - offset)])
    /\ offset' = offset + job.chunk
    /\ UNCHANGED <<callVars, prod, worker, errs, cancelled, abandoned, dst, twice, copier>>

ProducerStopsMut ==
    /\ prod = "loop" /\ offset >= job.total
    /\ prod' = "done"
    /\ UNCHANGED <<callVars, offset, taskCh, worker, errs, cancelled, abandoned,
                   dst, twice, copier>>
ProducerStops ==
    /\ prod = "loop" /\ (offset >= job.total \/ cancelled)
    /\ prod' = "done"
    /\ UNCHANGED <<callVars, offset, taskCh, worker, errs, cancelled, abandoned,
                   dst, twice, copier>>

Receive(w) ==
    /\ worker[w].pc = "range" /\ taskCh # <<>>
    /\ worker' = [worker EXCEPT ![w] = [pc |-> "copy", task |-> Head(taskCh), written |-> 0]]
    /\ taskCh' = Tail(taskCh)
    /\ UNCHANGED <<callVars, offset, prod, errs, cancelled, abandoned, dst, twice, copier>>

RangeEnds(w) ==
    /\ worker[w].pc = "range" /\ taskCh = <<>> /\ prod = "done"
    /\ worker' = [worker EXCEPT ![w].pc = "exit"]
    /\ UNCHANGED <<callVars, offset, prod, taskCh, errs, cancelled, abandoned,
                   dst, twice, copier>>

\* What one ReadAt of readLen bytes and the WriteAt of what it read may do: a
\* short read has an error, and nothing is written of an empty one.
ChunkIO(readLen) ==
    {io \in [n : 0 .. readLen, rerr : BOOLEAN, werr : BOOLEAN] :
        /\ io.n < readLen => io.rerr
        /\ io.n = 0 => ~io.werr}

\* One round of uploadChunk's and downloadChunk's loop. A failed worker puts
\* its error into errCh when there is room, cancels, and leaves.
CopyChunk(w) ==
    /\ worker[w].pc = "copy"
    /\ LET me == worker[w]
           readLen == MinOf(BufLen, me.task.size - me.written)
       IN  \E io \in ChunkIO(readLen) :
             LET written == IF io.werr THEN me.written ELSE me.written + io.n
                 new == Bytes(me.task.offset + me.written, written - me.written)
                 bad == io.werr \/ (io.rerr /\ written < me.task.size)
             IN  /\ dst' = dst \cup new
                 /\ twice' = twice \cup (dst \cap new)
                 /\ cancelled' = (cancelled \/ bad)
                 /\ errs' = IF bad THEN MinOf(errs + 1, NumWorkers) ELSE errs
                 /\ worker' = [worker EXCEPT ![w] =
                      IF bad THEN [pc |-> "exit", task |-> NoTask, written |-> 0]
                      ELSE IF written < me.task.size THEN [@ EXCEPT !.written = written]
                      ELSE [pc |-> "range", task |-> NoTask, written |-> 0]]
    /\ UNCHANGED <<callVars, offset, prod, taskCh, abandoned, copier>>

\* wg.Wait returns, errCh is closed and read once, and the derived context is
\* cancelled by the deferred call.
DispatchMut ==
    /\ main = "wait" /\ \E w \in Workers : worker[w].pc = "exit"
    /\ cancelled' = TRUE
    /\ IF errs > 0 THEN Return("failed")
       ELSE IF job.kind = "uploadPar" THEN Return("ok")
       ELSE main' = "sync" /\ UNCHANGED <<held, result>>
    /\ UNCHANGED <<job, poolVars, abandoned, dst, twice, copier>>
Dispatch ==
    /\ main = "wait" /\ \A w \in Workers : worker[w].pc = "exit"
    /\ cancelled' = TRUE
    /\ IF errs > 0 THEN Return("failed")
       ELSE IF job.kind = "uploadPar" THEN Return("ok")
       ELSE main' = "sync" /\ UNCHANGED <<held, result>>
    /\ UNCHANGED <<job, poolVars, abandoned, dst, twice, copier>>

Sync ==
    /\ main = "sync"
    /\ \E r \in {"ok", "error"} : Return(r)
    /\ UNCHANGED <<job, poolVars, cancelled, abandoned, dst, twice, copier>>

---------------------------------------------------------------------------
(* The sequential transfers and SCP. *)

\* ReadFrom, WriteTo and CopyBuffer write a prefix and stop at an error.
Sequential ==
    /\ main = "open" /\ job.kind \in {"upload", "download"}
    /\ held = Len(Handles(job.kind))
    /\ \E n \in 0 .. job.total :
         /\ dst' = Bytes(0, n)
         /\ \/ Return("error")
            \/ n = job.total /\ job.kind = "upload" /\ Return("ok")
            \/ n = job.total /\ job.kind = "download"
                 /\ main' = "sync" /\ UNCHANGED <<held, result>>
    /\ UNCHANGED <<job, poolVars, cancelled, abandoned, twice, copier>>

\* WriteFile starts the copier and then the remote command.
WriteFile ==
    /\ main = "open" /\ job.kind = "scp" /\ held = Len(Handles(job.kind))
    /\ main' = "start" /\ copier' = "header"
    /\ UNCHANGED <<job, held, result, poolVars, cancelled, abandoned, dst, twice>>

\* The copier writes the header, what r holds when size > 0, and the end mark;
\* a write error, certain once the session is closed, ends it.
CopierStep ==
    /\ copier \in {"header", "body", "mark"}
    /\ \/ /\ copier' = "failed"
          /\ \E n \in 0 .. (IF copier = "body" THEN job.avail ELSE 0) :
                dst' = dst \cup Bytes(0, n)
       \/ /\ held > 0
          /\ copier' = CASE copier = "header" -> IF job.total > 0 THEN "body" ELSE "mark"
                         [] copier = "body"   -> "mark"
                         [] copier = "mark"   -> "ok"
          /\ dst' = IF copier = "body" THEN Bytes(0, job.avail) ELSE dst
    /\ UNCHANGED <<callVars, poolVars, cancelled, abandoned, twice>>

\* sess.Start, the copier's result, and sess.Wait.
WriteFileReturns ==
    /\ \/ /\ main = "start"
          /\ \/ main' = "copied" /\ UNCHANGED <<held, result>>
             \/ Return("error")
       \/ /\ main = "copied" /\ copier \in {"ok", "failed"}
          /\ IF copier = "failed" THEN Return("error")
             ELSE main' = "exec" /\ UNCHANGED <<held, result>>
       \/ main = "exec" /\ \E r \in {"ok", "error"} : Return(r)
    /\ UNCHANGED <<job, poolVars, cancelled, abandoned, dst, twice, copier>>

---------------------------------------------------------------------------

WorkerStep(w) == Receive(w) \/ RangeEnds(w) \/ CopyChunk(w)
WorkerNext == \E w \in Workers : WorkerStep(w)
ProducerNext == Produce \/ ProducerStops
MainNext ==
    \/ InvalidChunkSize \/ Open \/ UploadParallel \/ DownloadParallel \/ Dispatch
    \/ Sync \/ Sequential \/ WriteFile \/ WriteFileReturns

TransferNext == MainNext \/ ProducerNext \/ WorkerNext \/ CopierStep \/ Abandon

---------------------------------------------------------------------------
(* Properties. *)

\* A transfer that returns nil has written every byte of the file, each once:
\* the chunks of produceChunks cover the file without overlapping, whichever
\* workers took them, unless the caller cancelled.
CompleteOrCancelled ==
    /\ (main = "done" /\ result = "ok" /\ ~abandoned /\ job.kind # "scp")
         => dst = Bytes(0, job.total)
    /\ twice = {}

\* A worker writes only while the call that owns its files has not returned:
\* the deferred Close calls come after wg.Wait.
FilesOutliveWorkers ==
    \A w \in Workers : worker[w].pc # "idle" /\ worker[w].pc # "exit" => held > 0

\* What a transfer reports as done is complete, and its files are open while a
\* worker may write to them.
DataComplete == CompleteOrCancelled /\ FilesOutliveWorkers

\* Every call returns and leaves no goroutine behind: after failed chunks the
\* producer is not left blocked on a full taskCh that nobody reads.
TransferEnds ==
    <>(main = "done" /\ prod \in {"idle", "done"} /\ copier \notin {"header", "body", "mark"})
=============================================================================
