--------------------------- MODULE BulkLoadProofs ---------------------------
(***************************************************************************)
(* Proofs about BulkLoad for every source, number of workers, batch size   *)
(* and reporting period, and for every driver and method.  That the chunks *)
(* partition the rows is taken from SplitChunksProofs.                     *)
(***************************************************************************)
EXTENDS BulkLoad, SplitChunksProofs, FiniteSetTheorems

WorkerPlaces == {"idle", "prepare", "describe", "loop", "next", "exec", "confirm", "return",
                 "done"}
Filling == {"idle", "prepare", "describe", "loop", "next"}
Leaving == {"return", "done"}

\* Rows a worker took and has not had confirmed.
Held(c) == IF path = "discard" THEN pending[c] ELSE filled[c]

\* The rows of chunk c confirmed so far.
DoneIn(c) == First(c)..(pos[c] - Held(c) - 1)

DoneRows == {r \in Rows : \E c \in Parts : r \in DoneIn(c)}

\* How the calling goroutine, the workers and the watcher wait for each other.
Stages ==
    /\ main = "start" <=> \A c \in Parts : worker[c] = "idle"
    /\ main # "start" => \A c \in Parts : worker[c] # "idle"
    /\ main \notin {"start", "loading"} => \A c \in Parts : worker[c] = "done"
    /\ main # "start" /\ path = "refused" => groupErr
    /\ main = "loading" => path # "refused"
    /\ main \in {"sample", "returned"} => watcher = "exited"
    /\ finalTaken => main = "returned"

\* A worker that fails tells the group on its way out.
Failures ==
    \A c \in Parts : /\ failed[c] => worker[c] \in Leaving
                     /\ failed[c] /\ worker[c] = "done" => groupErr

\* A worker's cursor and batch lie in its chunk; it leaves its loop with the chunk
\* exhausted and confirmed, unless it failed.
Cursor(c) ==
    /\ First(c) <= pos[c] - Held(c) /\ pos[c] <= End(c)
    /\ path = "discard" => filled[c] = 0 /\ worker[c] \notin {"exec", "confirm"}
    /\ worker[c] \in Filling => ~BatchFull(filled[c])
    /\ worker[c] \in {"exec", "confirm"} /\ ~BatchFull(filled[c]) => pos[c] = End(c)
    /\ worker[c] \in Leaving /\ ~failed[c] /\ path # "refused" =>
           pos[c] = End(c) /\ filled[c] = 0
    /\ worker[c] = "done" /\ path = "discard" => pending[c] = 0

Cursors == \A c \in Parts : Cursor(c)

\* The rows before a worker's batch are stored, those after it are not; the batch itself
\* is, from its statement's success on.
StoredIn(c) ==
    \A r \in ChunkRows(Total, Workers, c) :
        /\ table[r] <= 1
        /\ r < pos[c] - filled[c] => table[r] = 1
        /\ r >= pos[c] => table[r] = 0
        /\ r \in Batch(c) /\ worker[c] \in Filling \cup {"exec"} => table[r] = 0
        /\ r \in Batch(c) /\ worker[c] = "confirm" => table[r] = 1

Storage ==
    IF path = "discard" THEN \A r \in Rows : table[r] = 0
    ELSE \A c \in Parts : StoredIn(c)

\* AddConfirmed was told of every confirmed row once.
Counted == confirmed = Cardinality(DoneRows)

\* A sample in progress shows at least the last one.
Sampling ==
    /\ lastSample <= generated \/ lastSample <= confirmed
    /\ watcher = "load" => /\ seen <= generated
                           /\ lastSample <= seen \/ lastSample <= confirmed

\* A worker that sent a statement under a cancelled group is past its last check.
Late(c) ==
    /\ lateExecs[c] <= 1
    /\ lateExecs[c] = 1 => GroupDone
    /\ lateExecs[c] = 1 => IF path = "copy"
                           THEN worker[c] \in {"next", "exec", "confirm"} \cup Leaving
                           ELSE worker[c] \in {"confirm", "loop"} \cup Leaving

Lateness == \A c \in Parts : Late(c)

IInv ==
    /\ TypeOK /\ Stages /\ Failures /\ Cursors /\ Storage /\ Counted /\ Sampling /\ Lateness

-----------------------------------------------------------------------------
(* Chunks.                                                                 *)

\* A chunk's cursor starts inside the source and has rows to go.
LEMMA ChunkBounds ==
    ASSUME NEW c \in Parts
    PROVE  /\ First(c) \in Nat /\ End(c) \in Nat
           /\ First(c) <= End(c) /\ End(c) <= Total
           /\ ChunkRows(Total, Workers, c) = First(c)..(End(c) - 1)
<1> DEFINE n == NumChunks(Total, Workers)
           b == Base(Total, Workers)
<1>1. n \in Nat \ {0} /\ b \in Nat /\ n * b <= Total /\ c \in 0..(n - 1)
  BY BulkLoadAssumption, ChunkSizes DEF Parts, Chunks
<1> HIDE DEF n, b
<1>2. c * b \in Nat /\ c * b + b <= n * b /\ c * b <= n * b
  <2>1. 0 * b <= c * b /\ (c + 1) * b <= n * b /\ c * b <= n * b /\ c * b \in Int
    BY <1>1, ProductGrows
  <2>2. (c + 1) * b = c * b + b
    BY <1>1
  <2> QED
    BY <1>1, <2>1, <2>2
<1>3. n * b \in Int
  BY <1>1
<1>4. First(c) = c * b
  BY DEF First, ChunkStart, b
<1>5. End(c) = IF c = n - 1 THEN Total ELSE c * b + b
  BY DEF End, ChunkEnd, ChunkStart, b, n
<1> QED
  BY <1>1, <1>2, <1>3, <1>4, <1>5, BulkLoadAssumption DEF ChunkRows, First, End

\* Every row belongs to exactly one chunk.
LEMMA ChunksPartition ==
    /\ \A c \in Parts : ChunkRows(Total, Workers, c) \subseteq Rows
    /\ \A r \in Rows : \E c \in Parts : r \in ChunkRows(Total, Workers, c)
    /\ \A c, d \in Parts :
           c # d => ChunkRows(Total, Workers, c) \cap ChunkRows(Total, Workers, d) = {}
<1>1. \A c \in Parts : ChunkRows(Total, Workers, c) \subseteq Rows
  BY ChunksInside, BulkLoadAssumption DEF Parts, Rows
<1>2. \A r \in Rows : \E c \in Parts : r \in ChunkRows(Total, Workers, c)
  BY ChunksCover, BulkLoadAssumption DEF Parts, Rows
<1>3. ASSUME NEW c \in Parts, NEW d \in Parts, c # d
      PROVE  ChunkRows(Total, Workers, c) \cap ChunkRows(Total, Workers, d) = {}
  <2>1. c \in Int /\ d \in Int
    <3>1. NumChunks(Total, Workers) \in Nat
      BY ChunkSizes, BulkLoadAssumption
    <3> QED
      BY <3>1 DEF Parts, Chunks
  <2>2. c < d \/ d < c
    BY <1>3, <2>1
  <2> QED
    BY <1>3, <2>2, ChunksDisjoint, BulkLoadAssumption DEF Parts
<1> QED
  BY <1>1, <1>2, <1>3

\* There is a worker even for an empty source.
LEMMA SomePart == 0 \in Parts
<1>1. NumChunks(Total, Workers) \in Nat \ {0}
  BY ChunkSizes, BulkLoadAssumption
<1> QED
  BY <1>1 DEF Parts, Chunks

LEMMA RowsFinite ==
    /\ IsFiniteSet(Rows) /\ Cardinality(Rows) = Total
    /\ \A S : S \subseteq Rows => IsFiniteSet(S) /\ Cardinality(S) \in Nat
<1>1. IsFiniteSet(Rows) /\ Cardinality(Rows) = Total
  BY FS_Interval, BulkLoadAssumption DEF Rows
<1>2. \A S : S \subseteq Rows => IsFiniteSet(S) /\ Cardinality(S) \in Nat
  BY <1>1, FS_Subset, FS_CardinalityType
<1> QED
  BY <1>1, <1>2

-----------------------------------------------------------------------------
(* The workers' steps, as cursor, table and counters see them.             *)

\* Only the place in the loop changes, or a statement of COPY begins.
Moves(c) ==
    /\ \/ /\ worker[c] = "prepare" /\ worker' = [worker EXCEPT ![c] = "describe"]
          /\ path = "unnest" /\ UNCHANGED lateExecs
       \/ /\ worker[c] \in {"prepare", "describe"} /\ worker' = [worker EXCEPT ![c] = "loop"]
          /\ UNCHANGED lateExecs
       \/ /\ worker[c] = "loop" /\ worker' = [worker EXCEPT ![c] = "next"]
          /\ path # "copy" /\ ~GroupDone /\ UNCHANGED lateExecs
       \/ /\ worker[c] = "loop" /\ worker' = [worker EXCEPT ![c] = "next"]
          /\ path = "copy" /\ BeginStatement(c)
    /\ UNCHANGED <<groupErr, pos, filled, pending, failed, table, generated, confirmed>>

Fails(c) == worker[c] \in Filling \ {"idle"} /\ Fail(c, worker[c])

\* A row is taken into the batch.
Takes(c) ==
    /\ path # "discard"
    /\ worker[c] = "next"
    /\ worker' = [worker EXCEPT ![c] = IF path = "copy" THEN "next"
                                       ELSE IF BatchFull(filled[c] + 1) THEN "exec" ELSE "loop"]
    /\ \E n \in Nat : TakeRow(c, n)
    /\ filled' = [filled EXCEPT ![c] = @ + 1]
    /\ pending' \in [Parts -> 0..FlushEvery]
    /\ UNCHANGED confirmed

\* Every worker step is one of these.
LEMMA WorkerKinds ==
    ASSUME TypeOK, NEW c \in Parts, Worker(c)
    PROVE  /\ UNCHANGED unchangedByWorkers
           /\ \/ Moves(c) \/ Fails(c) \/ Takes(c)
              \/ path = "discard" /\ DrainRow(c)
              \/ NextEOF(c)
              \/ path \notin {"copy", "discard"} /\ (ExecBatch(c) \/ BulkUpsert(c))
              \/ path = "copy" /\ EndCopy(c)
              \/ path # "discard" /\ ConfirmBatch(c)
              \/ WorkerReturns(c)
<1> USE DEF WorkerGoto, Filling
<1>0. /\ BatchSize \in Nat \ {0} /\ FlushEvery \in Nat \ {0}
      /\ filled[c] \in Nat /\ pending[c] \in 0..FlushEvery
      /\ pending \in [Parts -> 0..FlushEvery]
  BY BulkLoadAssumption DEF TypeOK
<1>1. ASSUME Prepare(c)
      PROVE  UNCHANGED unchangedByWorkers /\ (Moves(c) \/ Fails(c))
  BY <1>1 DEF Prepare, Moves, Fails, Fail
<1>2. ASSUME path = "unnest", Describe(c)
      PROVE  UNCHANGED unchangedByWorkers /\ (Moves(c) \/ Fails(c))
  BY <1>2 DEF Describe, Moves, Fails, Fail
<1>3. ASSUME path # "copy", CheckCanceled(c)
      PROVE  UNCHANGED unchangedByWorkers /\ (Moves(c) \/ Fails(c))
  BY <1>3 DEF CheckCanceled, Canceled, Moves, Fails, Fail
<1>4. ASSUME path = "copy", BeginCopy(c)
      PROVE  UNCHANGED unchangedByWorkers /\ Moves(c)
  BY <1>4 DEF BeginCopy, Moves
<1>5. ASSUME NextError(c)
      PROVE  UNCHANGED unchangedByWorkers /\ Fails(c)
  BY <1>5 DEF NextError, Fails, Fail
<1>6. \A f \in BOOLEAN : Reported(c, f) \in Nat
                         /\ (Count(c, f) => pending' \in [Parts -> 0..FlushEvery])
  BY <1>0 DEF Reported, Count
<1>7. ASSUME path \notin {"copy", "discard"}, NextRow(c)
      PROVE  UNCHANGED unchangedByWorkers /\ Takes(c)
  <2>1. BatchFull(filled[c] + 1) \in BOOLEAN
    BY DEF BatchFull
  <2> QED
    BY <1>6, <1>7, <2>1 DEF NextRow, TakeRow, Takes
<1>8. ASSUME path = "copy", CopyRow(c)
      PROVE  UNCHANGED unchangedByWorkers /\ Takes(c)
  BY <1>6, <1>8 DEF CopyRow, TakeRow, Takes
<1>9. ASSUME path \notin {"copy", "discard"}, AppendRow(c)
      PROVE  UNCHANGED unchangedByWorkers /\ Takes(c)
  <2> DEFINE n == IF BatchFull(filled[c] + 1) THEN filled[c] + 1 ELSE 0
  <2>1. n \in Nat
    BY <1>0
  <2>2. UNCHANGED unchangedByWorkers /\ TakeRow(c, n)
    BY <1>9 DEF AppendRow, TakeRow
  <2>3. pending' \in [Parts -> 0..FlushEvery]
    BY <1>0, <1>9 DEF AppendRow
  <2>4. /\ worker[c] = "next"
        /\ worker' = [worker EXCEPT ![c] = IF BatchFull(filled[c] + 1) THEN "exec" ELSE "loop"]
        /\ filled' = [filled EXCEPT ![c] = @ + 1] /\ UNCHANGED confirmed
    BY <1>9 DEF AppendRow
  <2> QED
    BY <1>9, <2>1, <2>2, <2>3, <2>4 DEF Takes
<1>10. ASSUME ExecBatch(c) \/ BulkUpsert(c) \/ EndCopy(c) \/ ConfirmBatch(c)
       PROVE  UNCHANGED unchangedByWorkers
  BY <1>10 DEF ExecBatch, BulkUpsert, EndCopy, ConfirmBatch, Write
<1>11. ASSUME DrainRow(c) \/ NextEOF(c) \/ WorkerReturns(c)
       PROVE  UNCHANGED unchangedByWorkers
  BY <1>11 DEF DrainRow, TakeRow, NextEOF, WorkerReturns
<1>12. ASSUME path \notin {"copy", "discard"}, BatchLoop(c)
       PROVE  /\ UNCHANGED unchangedByWorkers
              /\ \/ Moves(c) \/ Fails(c) \/ Takes(c) \/ NextEOF(c) \/ ExecBatch(c)
                 \/ ConfirmBatch(c)
  BY <1>3, <1>5, <1>7, <1>10, <1>11, <1>12 DEF BatchLoop
<1> QED
  BY <1>1, <1>2, <1>3, <1>4, <1>5, <1>8, <1>9, <1>10, <1>11, <1>12
  DEF Worker, RunBulkInsert, BulkInsertRuntime, ColumnarInsertRuntime, CopyFromRuntime,
      BulkUpsertRuntime, DrainSource

\* The steps that leave the workers and what they keep alone.
Outside ==
    /\ UNCHANGED <<request, pos, filled, pending, failed, lateExecs, table, generated, confirmed>>
    /\ \/ worker' = worker
       \/ /\ main = "start"
          /\ worker' \in {[c \in Parts |-> "done"], [c \in Parts |-> "prepare"]}
          /\ path = "refused" <=> worker' = [c \in Parts |-> "done"]
    /\ groupErr => groupErr'
    /\ ctxDone => ctxDone'

LEMMA StepKinds ==
    ASSUME [Next]_vars
    PROVE  Outside \/ \E c \in Parts : Worker(c)
<1> USE DEF workerVars, trackerVars, request, Outside
<1>1. CASE StartLoad
  <2>1. [c \in Parts |-> "done"] # [c \in Parts |-> "prepare"]
    <3>1. [c \in Parts |-> "done"][0] # [c \in Parts |-> "prepare"][0]
      BY SomePart
    <3> QED
      BY <3>1
  <2> QED
    BY <1>1, <2>1 DEF StartLoad
<1>2. CASE WaitGroup \/ CloseDone \/ JoinWatcher \/ FinalSnapshot
  BY <1>2 DEF WaitGroup, CloseDone, JoinWatcher, FinalSnapshot
<1>3. CASE Tick \/ Sample \/ StopWatching \/ CancelCaller
  BY <1>3 DEF Tick, Sample, StopWatching, CancelCaller
<1>4. CASE UNCHANGED vars
  BY <1>4 DEF vars
<1> QED
  BY <1>1, <1>2, <1>3, <1>4 DEF Next, Main, Returned

-----------------------------------------------------------------------------
(* Preservation of the parts of the invariant.                             *)

\* Rows reported at the end and rows of a batch are natural numbers.
LEMMA Counters ==
    ASSUME TypeOK, NEW c \in Parts
    PROVE  /\ ReportedAtEOF(c) \in Nat /\ BatchRows(c) \in Nat
           /\ filled[c] \in Nat /\ pending[c] \in Nat
<1>1. filled[c] \in Nat /\ pending[c] \in Nat
  BY BulkLoadAssumption DEF TypeOK
<1>2. ReportedAtEOF(c) = 0 \/ ReportedAtEOF(c) = filled[c] \/ ReportedAtEOF(c) = pending[c]
  BY DEF ReportedAtEOF
<1> QED
  BY <1>1, <1>2 DEF BatchRows

\* Each step keeps the variables in their ranges.
LEMMA TypeStep ==
    ASSUME IInv, [Next]_vars
    PROVE  TypeOK'
<1>1. TypeOK /\ Cursors
  BY DEF IInv
<1>2. Total \in Nat /\ BatchSize \in Nat \ {0} /\ FlushEvery \in Nat \ {0}
  BY BulkLoadAssumption
<1> USE DEF TypeOK, WorkerPlaces, request, workerVars, trackerVars
<1>3. CASE Main
  <2>1. UNCHANGED <<request, ctxDone, pos, filled, pending, failed, lateExecs, table, generated,
                    confirmed>>
    BY <1>3 DEF Main, StartLoad, WaitGroup, CloseDone, JoinWatcher, FinalSnapshot
  <2>2. /\ main' \in {"start", "loading", "finish", "join", "sample", "returned"}
        /\ watcher' \in {"off", "select", "load", "exited"}
    BY <1>1, <1>3 DEF Main, StartLoad, WaitGroup, CloseDone, JoinWatcher, FinalSnapshot
  <2>3. worker' \in [Parts -> WorkerPlaces] /\ groupErr' \in BOOLEAN
    BY <1>1, <1>3 DEF Main, StartLoad, WaitGroup, CloseDone, JoinWatcher, FinalSnapshot
  <2>4. seen' \in Nat /\ lastSample' \in Nat
    BY <1>1, <1>3 DEF Main, StartLoad, WaitGroup, CloseDone, JoinWatcher, FinalSnapshot,
                      DisplayedRows
  <2>5. doneClosed' \in BOOLEAN /\ finalTaken' \in BOOLEAN
    BY <1>1, <1>3 DEF Main, StartLoad, WaitGroup, CloseDone, JoinWatcher, FinalSnapshot, Closed
  <2> QED
    BY <1>1, <2>1, <2>2, <2>3, <2>4, <2>5
<1>4. CASE Tick \/ Sample \/ StopWatching \/ CancelCaller \/ UNCHANGED vars
  <2>1. /\ UNCHANGED <<request, main, groupErr, workerVars, table, generated, confirmed,
                      doneClosed, finalTaken>>
        /\ ctxDone' \in BOOLEAN
    BY <1>1, <1>4 DEF Tick, Sample, StopWatching, CancelCaller, vars
  <2>2. watcher' \in {"off", "select", "load", "exited"} /\ seen' \in Nat /\ lastSample' \in Nat
    BY <1>1, <1>4 DEF Tick, Sample, StopWatching, CancelCaller, DisplayedRows, vars
  <2> QED
    BY <1>1, <2>1, <2>2
<1>5. ASSUME NEW c \in Parts, Worker(c)
      PROVE  TypeOK'
  <2> USE DEF WorkerGoto
  <2>1. UNCHANGED unchangedByWorkers
    BY <1>1, <1>5, WorkerKinds
  <2> DEFINE WorkOK ==
         /\ groupErr \in BOOLEAN
         /\ worker \in [Parts -> WorkerPlaces]
         /\ pos \in [Parts -> 0..Total]
         /\ filled \in [Parts -> Nat]
         /\ \A d \in Parts : filled[d] <= IF path = "copy" THEN Total ELSE batch
         /\ pending \in [Parts -> 0..FlushEvery]
         /\ failed \in [Parts -> BOOLEAN]
         /\ lateExecs \in [Parts -> Nat]
         /\ table \in [Rows -> Nat]
         /\ generated \in Nat
         /\ confirmed \in Nat
  <2>2. SUFFICES WorkOK'
    BY <1>1, <2>1 DEF unchangedByWorkers
  <2>3. WorkOK /\ path' = path /\ batch' = batch
    BY <1>1, <2>1 DEF unchangedByWorkers
  <2>4. First(c) \in Nat /\ End(c) \in Nat /\ End(c) <= Total
    BY ChunkBounds
  <2>5. Cursor(c) /\ worker[c] \in WorkerPlaces /\ batch \in {1, BatchSize}
    BY <1>1 DEF Cursors
  <2>6. /\ ReportedAtEOF(c) \in Nat /\ BatchRows(c) \in Nat
        /\ filled[c] \in Nat /\ pending[c] \in Nat
    BY <1>1, Counters
  <2> HIDE DEF TypeOK
  <2>7. CASE Moves(c)
    BY <2>3, <2>7 DEF Moves, BeginStatement
  <2>8. CASE Fails(c)
    BY <2>3, <2>8 DEF Fails, Fail
  <2>9. CASE Takes(c)
    <3>1. pos' \in [Parts -> 0..Total]
      BY <1>2, <2>3, <2>4, <2>9 DEF Takes, TakeRow
    <3>2. filled' = [filled EXCEPT ![c] = @ + 1] /\ filled' \in [Parts -> Nat]
      BY <2>3, <2>9 DEF Takes
    <3>3. filled[c] + 1 <= IF path = "copy" THEN Total ELSE batch
      <4>1. CASE path = "copy"
        BY <1>2, <2>3, <2>4, <2>5, <2>9, <4>1 DEF Takes, TakeRow, Cursor, Held
      <4>2. CASE path # "copy"
        BY <1>2, <2>5, <2>6, <2>9, <4>2 DEF Takes, Filling, Cursor, BatchFull
      <4> QED
        BY <4>1, <4>2
    <3>4. \A d \in Parts : filled'[d] <= IF path' = "copy" THEN Total ELSE batch'
      BY <2>3, <3>2, <3>3
    <3>5. worker' \in [Parts -> WorkerPlaces]
      BY <2>3, <2>9 DEF Takes
    <3>6. /\ generated' \in Nat /\ pending' \in [Parts -> 0..FlushEvery]
          /\ UNCHANGED <<groupErr, failed, lateExecs, table, confirmed>>
      BY <2>3, <2>9 DEF Takes, TakeRow
    <3> QED
      BY <2>3, <3>1, <3>2, <3>4, <3>5, <3>6
  <2>10. CASE path = "discard" /\ DrainRow(c)
    <3>1. pending' \in [Parts -> 0..FlushEvery]
      BY <1>2, <2>3, <2>10 DEF DrainRow, Count, Reported
    <3>2. pos' \in [Parts -> 0..Total]
      BY <1>2, <2>3, <2>4, <2>10 DEF DrainRow, TakeRow
    <3>3. generated' \in Nat /\ confirmed' \in Nat
      BY <2>3, <2>6, <2>10 DEF DrainRow, TakeRow, Reported
    <3>4. /\ worker' \in [Parts -> WorkerPlaces]
          /\ UNCHANGED <<groupErr, failed, lateExecs, table, filled>>
      BY <2>3, <2>10 DEF DrainRow, TakeRow
    <3> QED
      BY <2>3, <3>1, <3>2, <3>3, <3>4
  <2>11. CASE NextEOF(c)
    BY <1>2, <2>3, <2>6, <2>11 DEF NextEOF
  <2>12. CASE ExecBatch(c) \/ BulkUpsert(c) \/ EndCopy(c)
    <3>1. \A rows : Stored(rows) \in [Rows -> Nat]
      BY <2>3 DEF Stored
    <3>2. table' \in [Rows -> Nat]
      BY <2>12, <3>1 DEF ExecBatch, BulkUpsert, EndCopy, Write
    <3>3. worker' \in [Parts -> WorkerPlaces] /\ failed' \in [Parts -> BOOLEAN]
      BY <2>3, <2>12 DEF ExecBatch, BulkUpsert, EndCopy, Write
    <3>4. /\ lateExecs' \in [Parts -> Nat] /\ generated' \in Nat
          /\ pending' \in [Parts -> 0..FlushEvery]
      BY <1>2, <2>3, <2>6, <2>12 DEF ExecBatch, BulkUpsert, EndCopy, BeginStatement
    <3>5. UNCHANGED <<groupErr, pos, filled, confirmed>>
      BY <2>12 DEF ExecBatch, BulkUpsert, EndCopy, Write
    <3> QED
      BY <2>3, <3>2, <3>3, <3>4, <3>5
  <2>13. CASE ConfirmBatch(c)
    <3>1. filled' = [filled EXCEPT ![c] = 0] /\ 0 <= IF path = "copy" THEN Total ELSE batch
      BY <1>2, <2>5, <2>13 DEF ConfirmBatch
    <3>2. \A d \in Parts : filled'[d] <= IF path' = "copy" THEN Total ELSE batch'
      BY <2>3, <3>1
    <3> QED
      BY <2>3, <2>6, <2>13, <3>1, <3>2 DEF ConfirmBatch
  <2>14. CASE WorkerReturns(c)
    BY <1>2, <2>3, <2>6, <2>14 DEF WorkerReturns
  <2> QED
    BY <1>1, <1>5, <2>7, <2>8, <2>9, <2>10, <2>11, <2>12, <2>13, <2>14, WorkerKinds
<1> QED
  BY <1>3, <1>4, <1>5 DEF Next, Returned

\* The caller waits for the workers, then for the watcher.
LEMMA StagesStep ==
    ASSUME IInv, [Next]_vars
    PROVE  Stages'
<1>1. TypeOK /\ Stages /\ 0 \in Parts
  BY SomePart DEF IInv
<1> USE DEF Stages, request, workerVars, trackerVars
<1>2. CASE StartLoad
  <2>1. ASSUME NEW c \in Parts
        PROVE  worker'[c] # "idle" /\ (path = "refused" => worker'[c] = "done")
    BY <1>2 DEF StartLoad
  <2> QED
    BY <1>1, <1>2, <2>1 DEF StartLoad
<1>3. CASE WaitGroup
  BY <1>1, <1>3 DEF WaitGroup, AllReturned
<1>4. CASE CloseDone \/ JoinWatcher \/ FinalSnapshot
  BY <1>1, <1>4 DEF CloseDone, JoinWatcher, FinalSnapshot, WatcherGone
<1>5. CASE Tick \/ Sample \/ StopWatching \/ CancelCaller \/ UNCHANGED vars
  BY <1>1, <1>5 DEF Tick, Sample, StopWatching, CancelCaller, vars
<1>6. ASSUME NEW c \in Parts, Worker(c)
      PROVE  Stages'
  <2>1. UNCHANGED unchangedByWorkers
    BY <1>1, <1>6, WorkerKinds
  <2>2. worker[c] \notin {"idle", "done"} /\ \E to : /\ worker' = [worker EXCEPT ![c] = to]
                                                   /\ to # "idle"
    <3> USE DEF WorkerGoto
    <3>1. CASE Moves(c) \/ Fails(c) \/ Takes(c)
      BY <3>1 DEF Moves, Fails, Fail, Takes, Filling
    <3>2. CASE DrainRow(c) \/ NextEOF(c) \/ WorkerReturns(c) \/ ConfirmBatch(c)
      BY <3>2 DEF DrainRow, NextEOF, WorkerReturns, ConfirmBatch
    <3>3. CASE ExecBatch(c) \/ BulkUpsert(c) \/ EndCopy(c)
      BY <3>3 DEF ExecBatch, BulkUpsert, EndCopy, Write
    <3> QED
      BY <1>1, <1>6, <3>1, <3>2, <3>3, WorkerKinds
  <2>3. groupErr => groupErr'
    <3>1. CASE Moves(c) \/ Fails(c) \/ Takes(c)
      BY <3>1 DEF Moves, Fails, Fail, Takes, TakeRow
    <3>2. CASE DrainRow(c) \/ NextEOF(c) \/ WorkerReturns(c) \/ ConfirmBatch(c)
      BY <3>2 DEF DrainRow, TakeRow, NextEOF, WorkerReturns, ConfirmBatch
    <3>3. CASE ExecBatch(c) \/ BulkUpsert(c) \/ EndCopy(c)
      BY <3>3 DEF ExecBatch, BulkUpsert, EndCopy, Write
    <3> QED
      BY <1>1, <1>6, <3>1, <3>2, <3>3, WorkerKinds
  <2>4. main = "loading"
    BY <1>1, <2>2
  <2> QED
    BY <1>1, <2>1, <2>2, <2>3, <2>4 DEF unchangedByWorkers, TypeOK
<1> QED
  BY <1>2, <1>3, <1>4, <1>5, <1>6 DEF Next, Main, Returned

\* The group learns of every failed worker.
LEMMA FailuresStep ==
    ASSUME IInv, [Next]_vars
    PROVE  Failures'
<1>1. TypeOK /\ Failures /\ Stages
  BY DEF IInv
<1> USE DEF Failures, Leaving, WorkerGoto
<1>2. CASE Outside
  <2>1. CASE worker' = worker
    BY <1>1, <1>2, <2>1 DEF Outside
  <2>2. CASE main = "start"
    <3>1. \A c \in Parts : ~failed'[c]
      BY <1>1, <1>2, <2>2 DEF Outside, Stages
    <3> QED
      BY <3>1
  <2> QED
    BY <1>2, <2>1, <2>2 DEF Outside
<1>3. ASSUME NEW c \in Parts, Worker(c)
      PROVE  Failures'
  <2>1. CASE Moves(c) \/ Takes(c)
    <3>1. ~failed[c]
      BY <1>1, <2>1 DEF Moves, Takes
    <3>2. failed' = failed /\ groupErr' = groupErr /\ \A d \in Parts \ {c} : worker'[d] = worker[d]
      BY <1>1, <2>1 DEF Moves, Takes, TakeRow, TypeOK
    <3> QED
      BY <1>1, <3>1, <3>2
  <2>2. CASE Fails(c)
    BY <1>1, <2>2 DEF Fails, Fail, TypeOK
  <2>3. CASE DrainRow(c) \/ NextEOF(c) \/ ConfirmBatch(c)
    <3>1. ~failed[c]
      BY <1>1, <2>3 DEF DrainRow, NextEOF, ConfirmBatch
    <3>2. failed' = failed /\ groupErr' = groupErr /\ \A d \in Parts \ {c} : worker'[d] = worker[d]
      BY <1>1, <2>3 DEF DrainRow, NextEOF, ConfirmBatch, TakeRow, TypeOK
    <3> QED
      BY <1>1, <3>1, <3>2
  <2>4. CASE ExecBatch(c) \/ BulkUpsert(c) \/ EndCopy(c)
    <3>1. ~failed[c] /\ groupErr' = groupErr
      BY <1>1, <2>4 DEF ExecBatch, BulkUpsert, EndCopy, Write
    <3>2. \A d \in Parts \ {c} : worker'[d] = worker[d] /\ (failed'[d] <=> failed[d])
      BY <1>1, <2>4 DEF ExecBatch, BulkUpsert, EndCopy, Write, TypeOK
    <3>3. (~failed'[c]) \/ worker'[c] = "return"
      BY <1>1, <2>4, <3>1 DEF ExecBatch, BulkUpsert, EndCopy, Write, TypeOK
    <3> QED
      BY <1>1, <3>1, <3>2, <3>3
  <2>5. CASE WorkerReturns(c)
    BY <1>1, <2>5 DEF WorkerReturns, TypeOK
  <2> QED
    BY <1>1, <1>3, <2>1, <2>2, <2>3, <2>4, <2>5, WorkerKinds
<1> QED
  BY <1>2, <1>3, StepKinds

\* A worker sends at most one statement under a cancelled group.
LEMMA LatenessStep ==
    ASSUME IInv, [Next]_vars
    PROVE  Lateness'
<1>1. TypeOK /\ Lateness /\ Stages /\ Cursors
  BY DEF IInv
<1> USE DEF Lateness, Late, Leaving, WorkerGoto
<1>2. CASE Outside
  <2>1. CASE worker' = worker
    BY <1>1, <1>2, <2>1 DEF Outside, request, GroupDone
  <2>2. CASE main = "start"
    <3>1. \A c \in Parts : lateExecs'[c] = 0
      BY <1>1, <1>2, <2>2 DEF Outside, Stages, TypeOK
    <3> QED
      BY <3>1
  <2> QED
    BY <1>2, <2>1, <2>2 DEF Outside
<1>3. ASSUME NEW c \in Parts, Worker(c)
      PROVE  Lateness'
  <2>1. path' = path /\ (GroupDone => GroupDone')
    <3>1. UNCHANGED unchangedByWorkers
      BY <1>1, <1>3, WorkerKinds
    <3>2. groupErr => groupErr'
      <4>1. CASE Moves(c) \/ Fails(c) \/ Takes(c)
        BY <4>1 DEF Moves, Fails, Fail, Takes, TakeRow
      <4>2. CASE DrainRow(c) \/ NextEOF(c) \/ WorkerReturns(c) \/ ConfirmBatch(c)
        BY <4>2 DEF DrainRow, TakeRow, NextEOF, WorkerReturns, ConfirmBatch
      <4>3. CASE ExecBatch(c) \/ BulkUpsert(c) \/ EndCopy(c)
        BY <4>3 DEF ExecBatch, BulkUpsert, EndCopy, Write
      <4> QED
        BY <1>1, <1>3, <4>1, <4>2, <4>3, WorkerKinds
    <3> QED
      BY <3>1, <3>2 DEF unchangedByWorkers, request, GroupDone
  <2>2. SUFFICES /\ \A d \in Parts \ {c} : /\ worker'[d] = worker[d]
                                           /\ lateExecs'[d] = lateExecs[d]
                 /\ Late(c)'
    BY <1>1, <2>1
  <2>3. CASE Moves(c)
    BY <1>1, <2>1, <2>3 DEF Moves, BeginStatement, TypeOK
  <2>4. CASE Fails(c)
    BY <1>1, <2>1, <2>4 DEF Fails, Fail, TypeOK
  <2>5. CASE Takes(c)
    BY <1>1, <2>1, <2>5 DEF Takes, TakeRow, TypeOK
  <2>6. CASE path = "discard" /\ DrainRow(c)
    BY <1>1, <2>1, <2>6 DEF DrainRow, TakeRow, TypeOK
  <2>7. CASE NextEOF(c)
    BY <1>1, <2>1, <2>7 DEF NextEOF, TypeOK
  <2>8. CASE path \notin {"copy", "discard"} /\ (ExecBatch(c) \/ BulkUpsert(c))
    <3>1. lateExecs[c] = 0
      BY <1>1, <2>8 DEF ExecBatch, BulkUpsert, Write, TypeOK
    <3>2. /\ worker'[c] \in {"confirm", "return"}
          /\ \A d \in Parts \ {c} : worker'[d] = worker[d]
      BY <1>1, <2>8 DEF ExecBatch, BulkUpsert, Write, TypeOK
    <3>3. lateExecs' = [lateExecs EXCEPT ![c] = IF GroupDone THEN @ + 1 ELSE @]
      BY <2>8 DEF ExecBatch, BulkUpsert, BeginStatement
    <3> QED
      BY <1>1, <2>1, <2>8, <3>1, <3>2, <3>3 DEF TypeOK
  <2>9. CASE path = "copy" /\ EndCopy(c)
    BY <1>1, <2>1, <2>9 DEF EndCopy, Write, TypeOK
  <2>10. CASE path # "discard" /\ ConfirmBatch(c)
    BY <1>1, <2>1, <2>10 DEF ConfirmBatch, BatchFull, TypeOK
  <2>11. CASE WorkerReturns(c)
    BY <1>1, <2>1, <2>11 DEF WorkerReturns, TypeOK
  <2> QED
    BY <1>1, <1>3, <2>3, <2>4, <2>5, <2>6, <2>7, <2>8, <2>9, <2>10, <2>11, WorkerKinds
<1> QED
  BY <1>2, <1>3, StepKinds

\* A worker keeps to its chunk, and leaves its loop with nothing unsent.
LEMMA CursorsStep ==
    ASSUME IInv, [Next]_vars
    PROVE  Cursors'
<1>1. TypeOK /\ Cursors /\ Stages
  BY DEF IInv
<1>2. CASE Outside
  <2>1. ASSUME NEW c \in Parts
        PROVE  Cursor(c)'
    <3>1. Cursor(c)
      BY <1>1 DEF Cursors
    <3>2. UNCHANGED <<path, batch, pos, filled, pending, failed>>
      BY <1>2 DEF Outside, request
    <3>3. CASE worker' = worker
      BY <3>1, <3>2, <3>3 DEF Cursor, Held, BatchFull
    <3>4. CASE main = "start"
      <4>1. worker[c] = "idle"
        BY <1>1, <3>4 DEF Stages
      <4>2. worker'[c] \in {"idle", "prepare"} \/ (worker'[c] = "done" /\ path = "refused")
        BY <1>2, <4>1 DEF Outside
      <4> QED
        BY <3>1, <3>2, <4>1, <4>2 DEF Cursor, Held, BatchFull, Filling, Leaving
    <3> QED
      BY <1>2, <3>3, <3>4 DEF Outside
  <2> QED
    BY <2>1 DEF Cursors
<1>3. ASSUME NEW c \in Parts, Worker(c)
      PROVE  Cursors'
  <2> USE DEF WorkerGoto
  <2>1. path' = path /\ batch' = batch /\ batch \in Nat \ {0}
    BY <1>1, <1>3, WorkerKinds, BulkLoadAssumption DEF unchangedByWorkers, request, TypeOK
  <2>2. SUFFICES /\ \A d \in Parts \ {c} :
                        /\ worker'[d] = worker[d] /\ pos'[d] = pos[d] /\ filled'[d] = filled[d]
                        /\ path = "discard" => pending'[d] = pending[d]
                        /\ failed'[d] <=> failed[d]
                 /\ Cursor(c)'
    BY <1>1, <2>1 DEF Cursors, Cursor, Held, BatchFull
  <2>3. /\ Cursor(c) /\ worker[c] \in WorkerPlaces
        /\ First(c) \in Nat /\ End(c) \in Nat /\ pos[c] \in Nat /\ filled[c] \in Nat
        /\ pending[c] \in Nat
    BY <1>1, ChunkBounds, BulkLoadAssumption DEF Cursors, TypeOK, WorkerPlaces
  <2>4. /\ worker \in [Parts -> WorkerPlaces] /\ pos \in [Parts -> 0..Total]
        /\ filled \in [Parts -> Nat] /\ pending \in [Parts -> 0..FlushEvery]
    BY <1>1 DEF TypeOK, WorkerPlaces
  <2>5. failed \in [Parts -> BOOLEAN]
    BY <1>1 DEF TypeOK
  <2>6. CASE Moves(c)
    BY <2>1, <2>3, <2>4, <2>6 DEF Moves, Cursor, Held, BatchFull, Filling, Leaving
  <2>7. CASE Fails(c)
    <3>1. /\ worker' = [worker EXCEPT ![c] = "return"]
          /\ failed' = [failed EXCEPT ![c] = TRUE]
          /\ UNCHANGED <<pos, filled, pending>>
      BY <2>7 DEF Fails, Fail
    <3>2. /\ failed'[c] /\ \A d \in Parts \ {c} : failed'[d] <=> failed[d]
      BY <2>5, <3>1
    <3> QED
      BY <2>1, <2>3, <2>4, <3>1, <3>2 DEF Cursor, Held, BatchFull, Filling, Leaving
  <2>8. CASE Takes(c)
    <3>1. /\ path # "discard" /\ worker[c] = "next" /\ pos[c] < End(c)
          /\ pos' = [pos EXCEPT ![c] = @ + 1] /\ filled' = [filled EXCEPT ![c] = @ + 1]
          /\ UNCHANGED failed
          /\ worker' = [worker EXCEPT ![c] = IF path = "copy" THEN "next"
                                       ELSE IF BatchFull(filled[c] + 1) THEN "exec" ELSE "loop"]
      BY <2>8 DEF Takes, TakeRow
    <3>2. /\ pos'[c] = pos[c] + 1 /\ filled'[c] = filled[c] + 1
          /\ worker'[c] = IF path = "copy" THEN "next"
                          ELSE IF BatchFull(filled[c] + 1) THEN "exec" ELSE "loop"
          /\ \A d \in Parts \ {c} : /\ worker'[d] = worker[d] /\ pos'[d] = pos[d]
                                    /\ filled'[d] = filled[d]
      BY <2>4, <3>1
    <3> QED
      BY <2>1, <2>3, <3>1, <3>2 DEF Cursor, Held, BatchFull, Filling, Leaving
  <2>9. CASE path = "discard" /\ DrainRow(c)
    <3>1. /\ worker' = [worker EXCEPT ![c] = "loop"] /\ pos[c] < End(c) /\ worker[c] = "next"
          /\ pos' = [pos EXCEPT ![c] = @ + 1] /\ UNCHANGED <<failed, filled>>
      BY <2>9 DEF DrainRow, TakeRow
    <3>2. /\ pending'[c] \in {0, pending[c] + 1}
          /\ \A d \in Parts \ {c} : pending'[d] = pending[d]
      BY <2>4, <2>9 DEF DrainRow, Count
    <3> QED
      BY <2>1, <2>3, <2>4, <2>9, <3>1, <3>2 DEF Cursor, Held, BatchFull, Filling, Leaving
  <2>10. CASE NextEOF(c)
    <3>1. /\ worker[c] = "next" /\ pos[c] = End(c) /\ UNCHANGED <<pos, filled, failed>>
          /\ worker' = [worker EXCEPT ![c] = IF filled[c] > 0 \/ path = "copy" THEN "exec"
                                             ELSE "return"]
      BY <2>10 DEF NextEOF
    <3>2. /\ path = "discard" => pending'[c] = pending[c]
          /\ \A d \in Parts \ {c} : pending'[d] = pending[d]
      BY <2>4, <2>10 DEF NextEOF
    <3> QED
      BY <2>1, <2>3, <2>4, <3>1, <3>2 DEF Cursor, Held, BatchFull, Filling, Leaving
  <2>11. CASE path # "discard" /\ (ExecBatch(c) \/ BulkUpsert(c) \/ EndCopy(c))
    <3>1. worker[c] = "exec" /\ UNCHANGED <<pos, filled>>
      BY <2>11 DEF ExecBatch, BulkUpsert, EndCopy, Write
    <3>2. \A d \in Parts \ {c} : worker'[d] = worker[d] /\ pending'[d] = pending[d]
      BY <2>4, <2>11 DEF ExecBatch, BulkUpsert, EndCopy, Write
    <3>3. /\ worker'[c] = "confirm" \/ (worker'[c] = "return" /\ failed'[c])
          /\ \A d \in Parts \ {c} : failed'[d] <=> failed[d]
      BY <2>4, <2>5, <2>11 DEF ExecBatch, BulkUpsert, EndCopy, Write
    <3> QED
      BY <2>1, <2>3, <2>11, <3>1, <3>2, <3>3 DEF Cursor, Held, BatchFull, Filling, Leaving
  <2>12. CASE path # "discard" /\ ConfirmBatch(c)
    <3>1. /\ worker[c] = "confirm" /\ UNCHANGED <<pos, failed, pending>>
          /\ worker' = [worker EXCEPT ![c] = IF BatchFull(filled[c]) THEN "loop" ELSE "return"]
          /\ filled' = [filled EXCEPT ![c] = 0]
      BY <2>12 DEF ConfirmBatch
    <3> QED
      BY <2>1, <2>3, <2>4, <2>12, <3>1 DEF Cursor, Held, BatchFull, Filling, Leaving
  <2>13. CASE WorkerReturns(c)
    <3>1. /\ worker[c] = "return" /\ UNCHANGED <<pos, failed, filled>>
          /\ worker' = [worker EXCEPT ![c] = "done"]
          /\ pending' = [pending EXCEPT ![c] = 0]
      BY <2>13 DEF WorkerReturns
    <3> QED
      BY <2>1, <2>3, <2>4, <3>1 DEF Cursor, Held, BatchFull, Filling, Leaving
  <2> QED
    BY <1>1, <1>3, <2>6, <2>7, <2>8, <2>9, <2>10, <2>11, <2>12, <2>13, WorkerKinds
<1> QED
  BY <1>2, <1>3, StepKinds

\* A write touches the worker's own batch, of which no row was stored before.
LEMMA WritesOwnBatch ==
    ASSUME TypeOK, Cursors, Storage, path # "discard", NEW c \in Parts, worker[c] = "exec",
           NEW rows \in SUBSET Batch(c), UNCHANGED path, table' = Stored(rows)
    PROVE  /\ \A r \in ChunkRows(Total, Workers, c) :
                  /\ r \in rows => table[r] = 0 /\ table'[r] = 1
                  /\ r \notin rows => table'[r] = table[r]
           /\ \A d \in Parts \ {c} : \A r \in ChunkRows(Total, Workers, d) : table'[r] = table[r]
<1>1. Batch(c) \subseteq ChunkRows(Total, Workers, c)
  BY ChunkBounds DEF Batch, Cursors, Cursor, Held, TypeOK
<1>2. \A r \in Rows : table'[r] = IF r \notin rows THEN table[r]
                                  ELSE IF path = "upsert" THEN 1 ELSE table[r] + 1
  BY DEF Stored
<1>3. \A r \in ChunkRows(Total, Workers, c) : r \in rows => table[r] = 0
  BY DEF Storage, StoredIn
<1> QED
  BY <1>1, <1>2, <1>3, ChunksPartition

\* What is stored follows the cursors.
LEMMA StorageStep ==
    ASSUME IInv, [Next]_vars
    PROVE  Storage'
<1>1. TypeOK /\ Cursors /\ Stages /\ Storage
  BY DEF IInv
<1>2. CASE Outside
  <2>1. UNCHANGED <<path, table, pos, filled>>
    BY <1>2 DEF Outside, request
  <2>2. ASSUME NEW c \in Parts, StoredIn(c)
        PROVE  StoredIn(c)'
    <3>1. CASE worker' = worker
      BY <2>1, <2>2, <3>1 DEF StoredIn, Batch
    <3>2. CASE main = "start"
      <4>1. worker[c] = "idle" /\ worker'[c] \in {"idle", "prepare", "done"}
        BY <1>1, <1>2, <3>2 DEF Stages, Outside
      <4> QED
        BY <2>1, <2>2, <4>1 DEF StoredIn, Batch, Filling
    <3> QED
      BY <1>2, <3>1, <3>2 DEF Outside
  <2> QED
    BY <1>1, <2>1, <2>2 DEF Storage
<1>3. ASSUME NEW c \in Parts, Worker(c)
      PROVE  Storage'
  <2> USE DEF WorkerGoto
  <2>1. path' = path
    BY <1>1, <1>3, WorkerKinds DEF unchangedByWorkers, request
  <2>2. CASE path = "discard"
    <3>1. table' = table
      <4>1. CASE Moves(c) \/ Fails(c)
        BY <4>1 DEF Moves, Fails, Fail
      <4>2. CASE DrainRow(c) \/ NextEOF(c) \/ WorkerReturns(c)
        BY <4>2 DEF DrainRow, TakeRow, NextEOF, WorkerReturns
      <4> QED
        BY <1>1, <1>3, <2>2, <4>1, <4>2, WorkerKinds DEF Takes
    <3> QED
      BY <1>1, <2>1, <2>2, <3>1 DEF Storage
  <2>3. CASE path # "discard"
    <3>1. \A d \in Parts : StoredIn(d)
      BY <1>1, <2>3 DEF Storage
    <3>2. SUFFICES /\ \A d \in Parts \ {c} :
                          /\ worker'[d] = worker[d] /\ pos'[d] = pos[d] /\ filled'[d] = filled[d]
                          /\ \A r \in ChunkRows(Total, Workers, d) : table'[r] = table[r]
                   /\ StoredIn(c)'
      BY <2>1, <2>3, <3>1 DEF Storage, StoredIn, Batch
    <3>3. /\ StoredIn(c) /\ Cursor(c) /\ worker[c] \in WorkerPlaces
          /\ pos[c] \in Nat /\ filled[c] \in Nat
      BY <1>1, <3>1, BulkLoadAssumption DEF Cursors, TypeOK, WorkerPlaces
    <3>4. /\ worker \in [Parts -> WorkerPlaces] /\ pos \in [Parts -> 0..Total]
          /\ filled \in [Parts -> Nat]
      BY <1>1 DEF TypeOK, WorkerPlaces
    <3>5. \A r \in ChunkRows(Total, Workers, c) : r \in Int
      BY ChunkBounds
    <3>6. CASE Moves(c)
      BY <3>3, <3>4, <3>6 DEF Moves, StoredIn, Batch, Filling
    <3>7. CASE Fails(c)
      BY <3>3, <3>4, <3>7 DEF Fails, Fail, StoredIn, Batch, Filling
    <3>8. CASE Takes(c)
      <4>1. /\ worker[c] = "next" /\ pos'[c] = pos[c] + 1 /\ filled'[c] = filled[c] + 1
            /\ worker'[c] \in {"next", "exec", "loop"} /\ table' = table
            /\ \A d \in Parts \ {c} : /\ worker'[d] = worker[d] /\ pos'[d] = pos[d]
                                      /\ filled'[d] = filled[d]
        BY <3>4, <3>8 DEF Takes, TakeRow
      <4> QED
        BY <3>3, <3>5, <4>1 DEF StoredIn, Batch, Filling
    <3>9. CASE NextEOF(c)
      BY <3>3, <3>4, <3>9 DEF NextEOF, StoredIn, Batch, Filling
    <3>10. CASE ExecBatch(c) \/ BulkUpsert(c) \/ EndCopy(c)
      <4>1. /\ worker[c] = "exec" /\ UNCHANGED <<pos, filled>>
            /\ \A d \in Parts \ {c} : worker'[d] = worker[d]
            /\ \/ worker'[c] = "confirm" /\ table' = Stored(Batch(c))
               \/ worker'[c] = "return" /\ \E rows \in SUBSET Batch(c) : table' = Stored(rows)
        BY <3>4, <3>10 DEF ExecBatch, BulkUpsert, EndCopy, Write, AllOrNothing
      <4>2. PICK rows \in SUBSET Batch(c) : /\ table' = Stored(rows)
                                            /\ worker'[c] = "confirm" => rows = Batch(c)
        BY <4>1
      <4>3. /\ \A r \in ChunkRows(Total, Workers, c) :
                   /\ r \in rows => table[r] = 0 /\ table'[r] = 1
                   /\ r \notin rows => table'[r] = table[r]
            /\ \A d \in Parts \ {c} :
                   \A r \in ChunkRows(Total, Workers, d) : table'[r] = table[r]
        BY <1>1, <2>1, <2>3, <4>1, <4>2, WritesOwnBatch
      <4>4. \A r \in Batch(c) : pos[c] - filled[c] <= r /\ r < pos[c]
        BY <3>3 DEF Batch
      <4>5. Batch(c)' = Batch(c)
        BY <4>1 DEF Batch
      <4>6. StoredIn(c)'
        <5> SUFFICES ASSUME NEW r \in ChunkRows(Total, Workers, c)
                     PROVE  /\ table'[r] <= 1
                            /\ r < pos[c] - filled[c] => table'[r] = 1
                            /\ r >= pos[c] => table'[r] = 0
                            /\ r \in Batch(c) /\ worker'[c] = "confirm" => table'[r] = 1
          BY <4>1, <4>5 DEF StoredIn, Filling
        <5>1. r \in Int /\ (r \in rows => r \in Batch(c))
          BY <3>5, <4>2
        <5>2. CASE r \in rows
          BY <3>3, <4>3, <4>4, <5>1, <5>2
        <5>3. CASE r \notin rows
          BY <3>3, <4>1, <4>2, <4>3, <5>1, <5>3 DEF StoredIn
        <5> QED
          BY <5>2, <5>3
      <4> QED
        BY <4>1, <4>3, <4>6
    <3>11. CASE ConfirmBatch(c)
      <4>1. /\ worker[c] = "confirm" /\ UNCHANGED <<pos, table>> /\ filled'[c] = 0
            /\ worker'[c] \in {"loop", "return"}
            /\ \A d \in Parts \ {c} : worker'[d] = worker[d] /\ filled'[d] = filled[d]
        BY <3>4, <3>11 DEF ConfirmBatch
      <4> QED
        BY <3>3, <3>5, <4>1 DEF StoredIn, Batch, Filling
    <3>12. CASE WorkerReturns(c)
      BY <3>3, <3>4, <3>12 DEF WorkerReturns, StoredIn, Batch, Filling
    <3> QED
      BY <1>1, <1>3, <2>3, <3>6, <3>7, <3>8, <3>9, <3>10, <3>11, <3>12, WorkerKinds
  <2> QED
    BY <2>2, <2>3
<1> QED
  BY <1>2, <1>3, StepKinds

-----------------------------------------------------------------------------
(* Counting what is confirmed.                                             *)

\* Where a worker's confirmed rows end.
LEMMA Confirmed ==
    ASSUME TypeOK, Cursors, NEW c \in Parts
    PROVE  /\ pos[c] \in Nat /\ Held(c) \in Nat /\ pos[c] - Held(c) \in Int
           /\ First(c) \in Nat /\ End(c) \in Nat
           /\ First(c) <= pos[c] - Held(c) /\ pos[c] - Held(c) <= End(c) /\ pos[c] <= End(c)
<1>1. pos[c] \in Nat /\ filled[c] \in Nat /\ pending[c] \in Nat
  BY BulkLoadAssumption DEF TypeOK
<1>2. Held(c) \in Nat
  BY <1>1 DEF Held
<1>3. First(c) <= pos[c] - Held(c) /\ pos[c] <= End(c)
  BY DEF Cursors, Cursor
<1> QED
  BY <1>1, <1>2, <1>3, ChunkBounds

\* When worker c has n more rows confirmed and they are counted, the count stays right.
LEMMA Advance ==
    ASSUME TypeOK, TypeOK', Cursors, Cursors', Counted, NEW c \in Parts, NEW n \in Nat,
           pos'[c] - Held(c)' = pos[c] - Held(c) + n, confirmed' = confirmed + n,
           \A d \in Parts \ {c} : pos'[d] = pos[d] /\ Held(d)' = Held(d)
    PROVE  Counted'
<1> DEFINE from == pos[c] - Held(c)
           new == from..(from + n - 1)
<1>1. /\ from \in Int /\ from + n <= End(c) /\ First(c) <= from
      /\ First(c) \in Int /\ End(c) \in Int /\ confirmed \in Nat
  <2>1. pos'[c] <= End(c) /\ pos'[c] \in Nat
    BY DEF Cursors, Cursor, TypeOK
  <2>2. Held(c)' \in Nat
    <3>1. filled'[c] \in Nat /\ pending'[c] \in Nat
      BY BulkLoadAssumption DEF TypeOK
    <3> QED
      BY <3>1 DEF Held
  <2>3. confirmed \in Nat
    BY DEF TypeOK
  <2> QED
    BY <2>1, <2>2, <2>3, Confirmed
<1>2. new \subseteq ChunkRows(Total, Workers, c)
  BY <1>1, ChunkBounds
<1>3. new \subseteq Rows
  BY <1>2, ChunksPartition
<1>4. ASSUME NEW d \in Parts
      PROVE  DoneIn(d) \subseteq ChunkRows(Total, Workers, d)
  <2>1. /\ pos[d] - Held(d) \in Int /\ First(d) \in Nat /\ End(d) \in Nat
        /\ pos[d] - Held(d) <= End(d)
        /\ ChunkRows(Total, Workers, d) = First(d)..(End(d) - 1)
    BY Confirmed, ChunkBounds
  <2> DEFINE upto == pos[d] - Held(d)
  <2>2. DoneIn(d) = First(d)..(upto - 1)
    BY DEF DoneIn
  <2> HIDE DEF upto
  <2>3. upto \in Int /\ upto <= End(d)
    BY <2>1 DEF upto
  <2> QED
    BY <2>1, <2>2, <2>3
<1>5. \A d \in Parts \ {c} : DoneIn(d)' = DoneIn(d)
  BY DEF DoneIn
<1>6. DoneIn(c)' = DoneIn(c) \cup new
  <2>1. DoneIn(c)' = First(c)..(from + n - 1)
    <3>1. pos'[c] - Held(c)' = from + n
      OBVIOUS
    <3>2. DoneIn(c)' = First(c)..((pos'[c] - Held(c)') - 1)
      BY DEF DoneIn
    <3> HIDE DEF from
    <3> DEFINE upto == pos'[c] - Held(c)'
    <3>3. upto = from + n /\ DoneIn(c)' = First(c)..(upto - 1) /\ from \in Int
      BY <1>1, <3>1, <3>2
    <3> HIDE DEF upto
    <3> QED
      BY <3>3
  <2>2. DoneIn(c) = First(c)..(from - 1)
    BY DEF DoneIn
  <2> HIDE DEF from
  <2> QED
    BY <1>1, <2>1, <2>2
<1>7. DoneRows' = DoneRows \cup new
  BY <1>3, <1>5, <1>6 DEF DoneRows
<1>8. DoneRows \cap new = {}
  <2>1. ASSUME NEW r \in new, NEW d \in Parts, r \in DoneIn(d)
        PROVE  FALSE
    <3>1. CASE d = c
      BY <1>1, <2>1, <3>1 DEF DoneIn
    <3>2. CASE d # c
      BY <1>2, <1>4, <2>1, <3>2, ChunksPartition
    <3> QED
      BY <3>1, <3>2
  <2> QED
    BY <2>1 DEF DoneRows
<1>9. IsFiniteSet(new) /\ Cardinality(new) = n
  <2> HIDE DEF from
  <2>1. from \in Int /\ from + n - 1 \in Int
    BY <1>1
  <2>2. IsFiniteSet(new) /\ Cardinality(new) = IF from > from + n - 1 THEN 0
                                              ELSE (from + n - 1) - from + 1
    BY <2>1, FS_Interval
  <2> HIDE DEF new
  <2> QED
    BY <1>1, <2>2
<1>10. IsFiniteSet(DoneRows) /\ Cardinality(DoneRows) \in Nat
  BY RowsFinite DEF DoneRows
<1>11. Cardinality(DoneRows') = Cardinality(DoneRows) + n
  <2>1. Cardinality(DoneRows \cup new) =
          Cardinality(DoneRows) + Cardinality(new) - Cardinality(DoneRows \cap new)
    BY <1>9, <1>10, FS_Union
  <2>2. Cardinality({}) = 0
    BY FS_EmptySet
  <2> HIDE DEF new
  <2>3. Cardinality(DoneRows \cap new) = 0
    BY <1>8, <2>2
  <2>4. Cardinality(DoneRows \cup new) = Cardinality(DoneRows) + n
    BY <1>9, <1>10, <2>1, <2>3
  <2> QED
    BY <1>7, <2>4
<1> QED
  BY <1>11 DEF Counted

\* AddConfirmed is called with exactly the rows a step settles.
LEMMA CountedStep ==
    ASSUME IInv, [Next]_vars
    PROVE  Counted'
<1>1. TypeOK /\ Cursors /\ Counted /\ TypeOK' /\ Cursors'
  BY TypeStep, CursorsStep DEF IInv
<1>2. CASE Outside
  <2>1. UNCHANGED <<path, pos, filled, pending, confirmed>>
    BY <1>2 DEF Outside, request
  <2>2. \A c \in Parts : Held(c)' = Held(c)
    BY <2>1 DEF Held
  <2>3. confirmed' = confirmed + 0 /\ confirmed \in Nat
    BY <1>1, <2>1 DEF TypeOK
  <2>4. pos'[0] - Held(0)' = pos[0] - Held(0) + 0
    BY <1>1, <2>1, <2>2, SomePart, BulkLoadAssumption DEF Held, TypeOK
  <2> QED
    BY <1>1, <2>1, <2>2, <2>3, <2>4, Advance, SomePart
<1>3. ASSUME NEW c \in Parts, Worker(c)
      PROVE  Counted'
  <2> USE DEF WorkerGoto
  <2>1. path' = path
    BY <1>1, <1>3, WorkerKinds DEF unchangedByWorkers, request
  <2>2. /\ pos \in [Parts -> 0..Total] /\ filled \in [Parts -> Nat]
        /\ pending \in [Parts -> 0..FlushEvery] /\ confirmed \in Nat
        /\ pos[c] \in Nat /\ filled[c] \in Nat /\ pending[c] \in Nat
    BY <1>1, BulkLoadAssumption DEF TypeOK
  <2>3. SUFFICES /\ \A d \in Parts \ {c} : pos'[d] = pos[d] /\ Held(d)' = Held(d)
                 /\ \E n \in Nat : /\ pos'[c] - Held(c)' = pos[c] - Held(c) + n
                                   /\ confirmed' = confirmed + n
    BY <1>1, Advance
  <2>4. CASE Moves(c) \/ Fails(c)
    <3>1. UNCHANGED <<pos, filled, pending, confirmed>>
      BY <2>4 DEF Moves, Fails, Fail
    <3>2. pos'[c] - Held(c)' = pos[c] - Held(c) + 0 /\ confirmed' = confirmed + 0
      BY <2>1, <2>2, <3>1 DEF Held
    <3> QED
      BY <2>1, <3>1, <3>2 DEF Held
  <2>5. CASE Takes(c)
    <3>1. /\ path # "discard" /\ pos' = [pos EXCEPT ![c] = @ + 1]
          /\ filled' = [filled EXCEPT ![c] = @ + 1] /\ confirmed' = confirmed
      BY <2>5 DEF Takes, TakeRow
    <3>2. pos'[c] - Held(c)' = pos[c] - Held(c) + 0 /\ confirmed' = confirmed + 0
      BY <2>1, <2>2, <3>1 DEF Held
    <3> QED
      BY <2>1, <2>2, <3>1, <3>2 DEF Held
  <2>6. CASE path = "discard" /\ DrainRow(c)
    <3> DEFINE n == Reported(c, FALSE)
    <3>1. /\ pos' = [pos EXCEPT ![c] = @ + 1] /\ confirmed' = confirmed + n
          /\ pending' = [pending EXCEPT ![c] = IF n > 0 THEN 0 ELSE @ + 1]
      BY <2>6 DEF DrainRow, TakeRow, Count
    <3>2. n \in Nat /\ (n = 0 \/ n = pending[c] + 1)
      BY <2>2 DEF Reported
    <3> HIDE DEF n
    <3>3. pos'[c] - Held(c)' = pos[c] - Held(c) + n
      BY <2>1, <2>2, <2>6, <3>1, <3>2 DEF Held
    <3> QED
      BY <2>1, <2>2, <2>6, <3>1, <3>2, <3>3 DEF Held
  <2>7. CASE NextEOF(c)
    <3>1. /\ UNCHANGED <<pos, filled, confirmed>>
          /\ path = "discard" => pending'[c] = pending[c]
          /\ \A d \in Parts \ {c} : pending'[d] = pending[d]
      BY <2>2, <2>7 DEF NextEOF
    <3>2. pos'[c] - Held(c)' = pos[c] - Held(c) + 0 /\ confirmed' = confirmed + 0
      BY <2>1, <2>2, <3>1 DEF Held
    <3> QED
      BY <2>1, <3>1, <3>2 DEF Held
  <2>8. CASE path # "discard" /\ (ExecBatch(c) \/ BulkUpsert(c) \/ EndCopy(c))
    <3>1. UNCHANGED <<pos, filled, confirmed>>
      BY <2>8 DEF ExecBatch, BulkUpsert, EndCopy, Write
    <3>2. pos'[c] - Held(c)' = pos[c] - Held(c) + 0 /\ confirmed' = confirmed + 0
      BY <2>1, <2>2, <2>8, <3>1 DEF Held
    <3> QED
      BY <2>1, <2>8, <3>1, <3>2 DEF Held
  <2>9. CASE path # "discard" /\ ConfirmBatch(c)
    <3>1. /\ UNCHANGED pos /\ confirmed' = confirmed + filled[c]
          /\ filled' = [filled EXCEPT ![c] = 0]
      BY <2>9 DEF ConfirmBatch, BatchRows
    <3>2. pos'[c] - Held(c)' = pos[c] - Held(c) + filled[c]
      BY <2>1, <2>2, <2>9, <3>1 DEF Held
    <3> QED
      BY <2>1, <2>2, <2>9, <3>1, <3>2 DEF Held
  <2>10. CASE WorkerReturns(c)
    <3>1. /\ UNCHANGED <<pos, filled>> /\ pending' = [pending EXCEPT ![c] = 0]
          /\ confirmed' = IF path = "discard" THEN confirmed + pending[c] ELSE confirmed
      BY <2>10 DEF WorkerReturns
    <3>2. CASE path = "discard"
      <4>1. pos'[c] - Held(c)' = pos[c] - Held(c) + pending[c]
        BY <2>1, <2>2, <3>1, <3>2 DEF Held
      <4> QED
        BY <2>1, <2>2, <3>1, <3>2, <4>1 DEF Held
    <3>3. CASE path # "discard"
      <4>1. pos'[c] - Held(c)' = pos[c] - Held(c) + 0 /\ confirmed' = confirmed + 0
        BY <2>1, <2>2, <3>1, <3>3 DEF Held
      <4> QED
        BY <2>1, <2>2, <3>1, <3>3, <4>1 DEF Held
    <3> QED
      BY <3>2, <3>3
  <2> QED
    BY <1>1, <1>3, <2>4, <2>5, <2>6, <2>7, <2>8, <2>9, <2>10, WorkerKinds
<1> QED
  BY <1>2, <1>3, StepKinds

\* The counters only grow, so a sample that loads them one after the other shows at
\* least what the last one showed.
LEMMA CountersGrow ==
    ASSUME IInv, [Next]_vars
    PROVE  generated' >= generated /\ confirmed' >= confirmed
<1>1. TypeOK /\ generated \in Nat /\ confirmed \in Nat
  BY DEF IInv, TypeOK
<1>2. CASE Outside
  BY <1>1, <1>2 DEF Outside
<1>3. ASSUME NEW c \in Parts, Worker(c)
      PROVE  generated' >= generated /\ confirmed' >= confirmed
  <2>1. /\ ReportedAtEOF(c) \in Nat /\ BatchRows(c) \in Nat /\ pending[c] \in Nat
        /\ filled[c] \in Nat
    BY <1>1, Counters
  <2>2. CASE Moves(c) \/ Fails(c)
    BY <1>1, <2>2 DEF Moves, Fails, Fail
  <2>3. CASE Takes(c)
    BY <1>1, <2>3 DEF Takes, TakeRow
  <2>4. CASE DrainRow(c)
    BY <1>1, <2>1, <2>4 DEF DrainRow, TakeRow, Reported
  <2>5. CASE NextEOF(c) \/ ConfirmBatch(c) \/ WorkerReturns(c)
    BY <1>1, <2>1, <2>5 DEF NextEOF, ConfirmBatch, WorkerReturns
  <2>6. CASE ExecBatch(c) \/ BulkUpsert(c) \/ EndCopy(c)
    BY <1>1, <2>1, <2>6 DEF ExecBatch, BulkUpsert, EndCopy, Write
  <2> QED
    BY <1>1, <1>3, <2>2, <2>3, <2>4, <2>5, <2>6, WorkerKinds
<1> QED
  BY <1>2, <1>3, StepKinds

\* A sample shows at least the last one, and at most what is counted by then.
LEMMA SamplingStep ==
    ASSUME IInv, [Next]_vars
    PROVE  Sampling' /\ (lastSample' >= lastSample \/ UNCHANGED vars)
<1>1. /\ Sampling /\ Stages /\ generated' >= generated /\ confirmed' >= confirmed
      /\ generated \in Nat /\ confirmed \in Nat /\ seen \in Nat /\ lastSample \in Nat
      /\ TypeOK' /\ generated' \in Nat /\ confirmed' \in Nat
  <2>1. TypeOK'
    BY TypeStep
  <2> QED
    BY <2>1, CountersGrow DEF IInv, TypeOK
<1> USE DEF trackerVars
<1>2. CASE StartLoad \/ WaitGroup \/ CloseDone \/ JoinWatcher \/ StopWatching \/ CancelCaller
  <2>1. UNCHANGED <<seen, lastSample>> /\ (watcher' = "load" => watcher = "load")
    BY <1>2 DEF StartLoad, WaitGroup, CloseDone, JoinWatcher, StopWatching, CancelCaller
  <2> QED
    BY <1>1, <2>1 DEF Sampling
<1>3. CASE FinalSnapshot
  <2>1. watcher' = "exited" /\ UNCHANGED <<generated, confirmed>>
    BY <1>1, <1>3 DEF FinalSnapshot, Stages
  <2>2. lastSample' = IF confirmed >= generated THEN confirmed ELSE generated
    BY <1>3 DEF FinalSnapshot, DisplayedRows
  <2> QED
    BY <1>1, <2>1, <2>2 DEF Sampling
<1>4. CASE Tick
  BY <1>1, <1>4 DEF Tick, Sampling
<1>5. CASE Sample
  <2>1. lastSample' = IF confirmed >= seen THEN confirmed ELSE seen
    BY <1>5 DEF Sample, DisplayedRows
  <2> QED
    BY <1>1, <1>5, <2>1 DEF Sample, Sampling
<1>6. ASSUME NEW c \in Parts, Worker(c)
      PROVE  Sampling' /\ lastSample' >= lastSample
  <2>1. UNCHANGED <<watcher, seen, lastSample>>
    BY <1>6, WorkerKinds DEF unchangedByWorkers, IInv
  <2> QED
    BY <1>1, <2>1 DEF Sampling
<1>7. CASE UNCHANGED vars
  BY <1>1, <1>7 DEF vars, Sampling
<1> QED
  BY <1>2, <1>3, <1>4, <1>5, <1>6, <1>7 DEF Next, Main, Returned

-----------------------------------------------------------------------------
(* The theorems.                                                           *)

\* Every driver serves every method with one of the loops, or refuses it.
LEMMA KnownPath ==
    ASSUME NEW d \in Drivers, NEW m \in Methods
    PROVE  /\ PathOf(d, m) \in {"copy", "values", "unnest", "bulk", "upsert", "discard", "refused"}
           /\ BatchOf(m) \in {1, BatchSize}
<1>1. /\ d \in {"postgres", "mysql", "picodata", "ydb", "noop"}
      /\ m \in {"native", "plain_bulk", "plain_query", "columnar"}
  BY BulkLoadAssumption
<1>2. CASE d = "postgres"
  <2>1. PathOf(d, m) = PostgresPath[m]
    BY <1>2 DEF PathOf
  <2> QED
    BY <1>1, <2>1 DEF PostgresPath, BatchOf
<1>3. CASE d = "mysql"
  <2>1. PathOf(d, m) = MysqlPath[m]
    BY <1>3 DEF PathOf
  <2> QED
    BY <1>1, <2>1 DEF MysqlPath, BatchOf
<1>4. CASE d = "picodata"
  <2>1. PathOf(d, m) = MysqlPath[m]
    BY <1>4 DEF PathOf, PicodataPath
  <2> QED
    BY <1>1, <2>1 DEF MysqlPath, BatchOf
<1>5. CASE d = "ydb"
  <2>1. PathOf(d, m) = YdbPath[m]
    BY <1>5 DEF PathOf
  <2> QED
    BY <1>1, <2>1 DEF YdbPath, BatchOf
<1>6. CASE d = "noop"
  <2>1. PathOf(d, m) = NoopPath[m]
    BY <1>6 DEF PathOf
  <2> QED
    BY <1>1, <2>1 DEF NoopPath, BatchOf
<1> QED
  BY <1>1, <1>2, <1>3, <1>4, <1>5, <1>6

LEMMA InitInvariant == Init => IInv
<1> SUFFICES ASSUME Init
             PROVE  IInv
  OBVIOUS
<1> USE BulkLoadAssumption
<1>1. /\ path \in {"copy", "values", "unnest", "bulk", "upsert", "discard", "refused"}
      /\ batch \in {1, BatchSize}
  BY KnownPath DEF Init
<1>2. \A c \in Parts : First(c) \in 0..Total
  BY ChunkBounds
<1>3. TypeOK
  <2>1. /\ worker = [c \in Parts |-> "idle"] /\ pos = [c \in Parts |-> First(c)]
        /\ filled = [c \in Parts |-> 0] /\ pending = [c \in Parts |-> 0]
        /\ failed = [c \in Parts |-> FALSE] /\ lateExecs = [c \in Parts |-> 0]
        /\ table = [r \in Rows |-> 0]
    BY DEF Init
  <2>2. failed \in [Parts -> BOOLEAN]
    BY <2>1
  <2>3. 0 <= IF path = "copy" THEN Total ELSE batch
    BY <1>1
  <2>4. /\ worker \in [Parts -> WorkerPlaces] /\ pos \in [Parts -> 0..Total]
        /\ filled \in [Parts -> Nat] /\ pending \in [Parts -> 0..FlushEvery]
        /\ lateExecs \in [Parts -> Nat] /\ table \in [Rows -> Nat]
        /\ \A c \in Parts : filled[c] <= IF path = "copy" THEN Total ELSE batch
    BY <1>2, <2>1, <2>3 DEF WorkerPlaces
  <2>5. /\ ctxDone \in BOOLEAN /\ groupErr \in BOOLEAN /\ doneClosed \in BOOLEAN
        /\ finalTaken \in BOOLEAN
    BY DEF Init
  <2> QED
    BY <1>1, <2>2, <2>4, <2>5 DEF Init, TypeOK, WorkerPlaces
<1>4. Stages /\ Failures
  BY SomePart DEF Init, Stages, Failures
<1>5. Cursors
  <2>1. \A c \in Parts : First(c) \in Nat /\ End(c) \in Nat /\ First(c) <= End(c)
    BY ChunkBounds
  <2> QED
    BY <1>1, <2>1 DEF Init, Cursors, Cursor, Held, BatchFull, Leaving
<1>6. Storage
  <2>1. \A c \in Parts : \A r \in ChunkRows(Total, Workers, c) :
            /\ r \in Rows /\ r \in Int /\ First(c) \in Int /\ First(c) <= r
    BY ChunkBounds, ChunksPartition
  <2> QED
    BY <2>1 DEF Init, Storage, StoredIn, Batch
<1>7. Counted
  <2>1. DoneRows = {}
    <3>1. \A c \in Parts : First(c) \in Nat /\ DoneIn(c) = First(c)..(First(c) - 0 - 1)
      BY ChunkBounds DEF Init, DoneIn, Held
    <3> QED
      BY <3>1 DEF DoneRows
  <2> QED
    BY <2>1, FS_EmptySet DEF Counted, Init
<1>8. Sampling /\ Lateness
  BY DEF Init, Sampling, Lateness, Late
<1> QED
  BY <1>3, <1>4, <1>5, <1>6, <1>7, <1>8 DEF IInv

\* Spec keeps the inductive invariant.
THEOREM Invariance == Spec => []IInv
<1>1. IInv /\ [Next]_vars => IInv'
  BY TypeStep, StagesStep, FailuresStep, CursorsStep, StorageStep, CountedStep, SamplingStep,
     LatenessStep DEF IInv
<1> QED
  BY <1>1, InitInvariant, PTL DEF Spec

\* The variables keep to their ranges: a batch never exceeds the driver's size, a
\* cursor never leaves the source.
THEOREM TypeCorrect == Spec => []TypeOK
<1>1. IInv => TypeOK
  BY DEF IInv
<1> QED
  BY <1>1, Invariance, PTL

\* A load that succeeds has settled every row.
LEMMA SuccessSettles ==
    ASSUME IInv, Succeeded
    PROVE  /\ DoneRows = Rows
           /\ path # "discard" => \A r \in Rows : table[r] = 1
<1>1. TypeOK /\ Stages /\ Failures /\ Cursors /\ Storage
  BY DEF IInv
<1>2. ASSUME NEW c \in Parts
      PROVE  pos[c] = End(c) /\ Held(c) = 0
  <2>1. worker[c] = "done" /\ path # "refused" /\ ~failed[c]
    BY <1>1 DEF Succeeded, Stages, Failures
  <2> QED
    BY <1>1, <2>1 DEF Cursors, Cursor, Leaving, Held
<1>3. ASSUME NEW c \in Parts, NEW r \in ChunkRows(Total, Workers, c)
      PROVE  r \in DoneIn(c) /\ (path # "discard" => table[r] = 1)
  <2>1. First(c) \in Nat /\ End(c) \in Nat /\ First(c) <= r /\ r < End(c) /\ r \in Int
    BY ChunkBounds
  <2>2. r \in DoneIn(c)
    BY <1>2, <2>1 DEF DoneIn
  <2>3. path # "discard" => table[r] = 1
    BY <1>1, <1>2, <2>1 DEF Storage, StoredIn, Held
  <2> QED
    BY <2>2, <2>3
<1> QED
  BY <1>3, ChunksPartition DEF DoneRows

\* No row is inserted twice whatever fails and whenever the load is cancelled, and a
\* load that reports success stored and confirmed every row: for every source, batch
\* size and number of workers, by every driver and method.
THEOREM LoadsOnce == Spec => []LoadedOnce
<1>1. ASSUME IInv
      PROVE  LoadedOnce
  <2>1. TypeOK /\ Storage /\ Counted
    BY <1>1 DEF IInv
  <2>2. \A r \in Rows : table[r] <= 1
    BY <2>1, ChunksPartition DEF Storage, StoredIn
  <2>3. Succeeded => confirmed = Total /\ (path # "discard" => \A r \in Rows : table[r] = 1)
    BY <1>1, <2>1, SuccessSettles, RowsFinite DEF Counted
  <2> QED
    BY <2>2, <2>3 DEF LoadedOnce
<1> QED
  BY <1>1, Invariance, PTL

\* The confirmed count never runs ahead of the table.
THEOREM ConfirmsTheStored == Spec => []ConfirmedIsStored
<1>1. ASSUME IInv
      PROVE  ConfirmedIsStored
  <2> SUFFICES ASSUME path # "discard"
               PROVE  confirmed <= Cardinality({r \in Rows : table[r] > 0})
    BY DEF ConfirmedIsStored
  <2>1. TypeOK /\ Cursors /\ Storage /\ Counted
    BY <1>1 DEF IInv
  <2>2. ASSUME NEW r \in DoneRows
        PROVE  r \in Rows /\ table[r] > 0
    <3>1. PICK c \in Parts : r \in Rows /\ r \in DoneIn(c)
      BY DEF DoneRows
    <3>2. /\ First(c) \in Nat /\ End(c) \in Nat /\ Held(c) = filled[c] /\ filled[c] \in Nat
          /\ pos[c] \in Nat /\ pos[c] - filled[c] <= End(c)
          /\ ChunkRows(Total, Workers, c) = First(c)..(End(c) - 1)
      BY <2>1, Confirmed, ChunkBounds, Counters DEF Held
    <3>3. r \in ChunkRows(Total, Workers, c) /\ r < pos[c] - filled[c]
      BY <3>1, <3>2 DEF DoneIn
    <3>4. table[r] = 1
      BY <2>1, <3>3 DEF Storage, StoredIn
    <3> QED
      BY <3>1, <3>4
  <2>3. DoneRows \subseteq {r \in Rows : table[r] > 0}
    BY <2>2
  <2>4. IsFiniteSet({r \in Rows : table[r] > 0})
    BY RowsFinite
  <2> QED
    BY <2>1, <2>3, <2>4, FS_Subset DEF Counted
<1> QED
  BY <1>1, Invariance, PTL

\* A load that was stopped stops.
THEOREM StopsInTime == Spec => []NothingLate
<1>1. IInv => NothingLate
  BY DEF IInv, Stages, Lateness, Late, NothingLate
<1> QED
  BY <1>1, Invariance, PTL

\* Successive progress samples never go back.
THEOREM SamplesNeverShrink == Spec => SamplesGrow
<1>1. IInv /\ [Next]_vars => [lastSample' >= lastSample]_vars
  BY SamplingStep
<1> QED
  BY <1>1, Invariance, PTL DEF Spec, SamplesGrow

=============================================================================
