------------------------------ MODULE BulkLoad ------------------------------
(***************************************************************************)
(* Loading one table: Bench.Insert with its progress tracker, the parallel *)
(* workers of common.RunParallelBatch under an errgroup, and the loop that *)
(* the chosen driver and insert method run in each of them.  Rows are      *)
(* numbered in generation order; one unit of the source is one row.  A row *)
(* the database holds is counted, so a repeated insert shows.  The csv     *)
(* driver has a module of its own.                                         *)
(***************************************************************************)
EXTENDS SplitChunks, FiniteSets

CONSTANTS
    Total,      \* rows of the source (Units and TotalRows)
    Workers,    \* InsertRequest.Workers
    BatchSize,  \* the driver's bulkSize after clampBatchByColumns
    FlushEvery, \* defaultRowReportEvery of RowCounter
    Drivers,    \* the drivers a run may be configured with
    Methods     \* the insert methods a request may carry

ASSUME BulkLoadAssumption ==
    /\ Total \in Nat
    /\ Workers \in Int
    /\ BatchSize \in Nat \ {0}   \* clamped to at least 1
    /\ FlushEvery \in Nat \ {0}
    /\ Drivers \subseteq {"postgres", "mysql", "picodata", "ydb", "noop"}
    /\ Methods \subseteq {"native", "plain_bulk", "plain_query", "columnar"}

Rows == 0..(Total - 1)
Parts == Chunks(Total, Workers)
First(c) == ChunkStart(Total, Workers, c)
End(c) == ChunkEnd(Total, Workers, c)

-----------------------------------------------------------------------------
(* Which loop serves a method: "copy" streams one COPY per worker, "values" *)
(* and "unnest" send a statement per batch (one row per VALUES, or one      *)
(* array per column), "bulk" is the RunBulkInsert the database/sql drivers  *)
(* share, "upsert" is YDB's BulkUpsert, "discard" drains the rows.          *)

PostgresPath == [native |-> "copy", plain_bulk |-> "values", plain_query |-> "values",
                 columnar |-> "unnest"]
MysqlPath == [native |-> "bulk", plain_bulk |-> "bulk", plain_query |-> "bulk",
              columnar |-> "refused"]
PicodataPath == MysqlPath
YdbPath == [native |-> "upsert", columnar |-> "upsert", plain_bulk |-> "bulk",
            plain_query |-> "bulk"]
NoopPath == [m \in Methods |-> "discard"]

PathOf(d, m) ==
    CASE d = "postgres" -> PostgresPath[m]
      [] d = "mysql" -> MysqlPath[m]
      [] d = "picodata" -> PicodataPath[m]
      [] d = "ydb" -> YdbPath[m]
      [] d = "noop" -> NoopPath[m]

BatchOf(m) == IF m = "plain_query" THEN 1 ELSE BatchSize

-----------------------------------------------------------------------------
VARIABLES
    path,       \* the loop that serves the request
    batch,      \* its batch size
    main,       \* where Bench.Insert stands
    ctxDone,    \* the caller's context is cancelled
    groupErr,   \* the errgroup recorded an error and cancelled its context
    worker,     \* where each worker goroutine stands
    pos,        \* next row of each worker's cursor
    filled,     \* rows in each worker's batch, the last ones it generated
    pending,    \* rows each worker's RowCounter has not reported
    failed,     \* whether each worker is returning an error
    lateExecs,  \* history: statements begun under a cancelled context
    table,      \* copies of each row the database holds
    generated,  \* Tracker.generatedRows
    confirmed,  \* Tracker.confirmedRows
    watcher,    \* where the tracker's watcher goroutine stands
    doneClosed, \* the tracker's doneCh is closed
    seen,       \* generatedRows as loaded by the snapshot in progress
    lastSample, \* Tracker.lastSampleRows
    finalTaken  \* Finish emitted its final snapshot

workerVars  == <<worker, pos, filled, pending, failed, lateExecs>>
trackerVars == <<watcher, doneClosed, seen, lastSample, finalTaken>>
request == <<path, batch>>
vars == <<request, main, ctxDone, groupErr, workerVars, table, generated, confirmed, trackerVars>>

TypeOK ==
    /\ path \in {"copy", "values", "unnest", "bulk", "upsert", "discard", "refused"}
    /\ batch \in {1, BatchSize}
    /\ main \in {"start", "loading", "finish", "join", "sample", "returned"}
    /\ ctxDone \in BOOLEAN
    /\ groupErr \in BOOLEAN
    /\ worker \in [Parts -> {"idle", "prepare", "describe", "loop", "next", "exec", "confirm",
                              "return", "done"}]
    /\ pos \in [Parts -> 0..Total]
    /\ filled \in [Parts -> Nat]
    /\ \A c \in Parts : filled[c] <= IF path = "copy" THEN Total ELSE batch
    /\ pending \in [Parts -> 0..FlushEvery]
    /\ failed \in [Parts -> BOOLEAN]
    /\ lateExecs \in [Parts -> Nat]
    /\ table \in [Rows -> Nat]
    /\ generated \in Nat
    /\ confirmed \in Nat
    /\ watcher \in {"off", "select", "load", "exited"}
    /\ doneClosed \in BOOLEAN
    /\ seen \in Nat
    /\ lastSample \in Nat
    /\ finalTaken \in BOOLEAN

Init ==
    /\ \E d \in Drivers, m \in Methods : path = PathOf(d, m) /\ batch = BatchOf(m)
    /\ main = "start"
    /\ ctxDone = FALSE
    /\ groupErr = FALSE
    /\ worker = [c \in Parts |-> "idle"]
    /\ pos = [c \in Parts |-> First(c)]
    /\ filled = [c \in Parts |-> 0]
    /\ pending = [c \in Parts |-> 0]
    /\ failed = [c \in Parts |-> FALSE]
    /\ lateExecs = [c \in Parts |-> 0]
    /\ table = [r \in Rows |-> 0]
    /\ generated = 0
    /\ confirmed = 0
    /\ watcher = "off"
    /\ doneClosed = FALSE
    /\ seen = 0
    /\ lastSample = 0
    /\ finalTaken = FALSE

-----------------------------------------------------------------------------
(* Bench.Insert and RunParallelBatch on the calling goroutine.             *)

\* tracker.Start launches the watcher, unless progress is off; the driver starts
\* every worker, or refuses the method.
StartLoad ==
    /\ main = "start"
    /\ watcher' \in {"select", "exited"}
    /\ IF path = "refused"
       THEN /\ main' = "finish"
            /\ groupErr' = TRUE
            /\ worker' = [c \in Parts |-> "done"]
       ELSE /\ main' = "loading"
            /\ worker' = [c \in Parts |-> "prepare"]
            /\ UNCHANGED groupErr
    /\ UNCHANGED <<request, ctxDone, pos, filled, pending, failed, lateExecs, table,
                   generated, confirmed, doneClosed, seen, lastSample, finalTaken>>

\* Mutant: the first error ends the wait.
SomeReturned == groupErr \/ \A c \in Parts : worker[c] = "done"

AllReturned == \A c \in Parts : worker[c] = "done"

\* group.Wait returns once every goroutine has.
WaitGroup ==
    /\ main = "loading"
    /\ AllReturned
    /\ main' = "finish"
    /\ UNCHANGED <<request, ctxDone, groupErr, workerVars, table, generated, confirmed, trackerVars>>

\* Mutant: Finish forgets to close the channel its watcher waits on.
LeftOpen == doneClosed

Closed == TRUE

\* Finish: close(doneCh), then waitGroup.Wait, then the final snapshot.
CloseDone ==
    /\ main = "finish"
    /\ main' = "join"
    /\ doneClosed' = Closed
    /\ UNCHANGED <<request, ctxDone, groupErr, workerVars, table, generated, confirmed, watcher,
                   seen, lastSample, finalTaken>>

WatcherGone == watcher = "exited"

JoinWatcher ==
    /\ main = "join"
    /\ WatcherGone
    /\ main' = "sample"
    /\ UNCHANGED <<request, ctxDone, groupErr, workerVars, table, generated, confirmed, trackerVars>>

\* Mutant: the confirmed count is shown as soon as there is one.
DisplayedConfirmed(gen, conf) == IF conf > 0 THEN conf ELSE gen

\* displayedRows.
DisplayedRows(gen, conf) == IF conf >= gen THEN conf ELSE gen

FinalSnapshot ==
    /\ main = "sample"
    /\ main' = "returned"
    /\ lastSample' = DisplayedRows(generated, confirmed)
    /\ finalTaken' = TRUE
    /\ UNCHANGED <<request, ctxDone, groupErr, workerVars, table, generated, confirmed, watcher,
                   doneClosed, seen>>

Main == StartLoad \/ WaitGroup \/ CloseDone \/ JoinWatcher \/ FinalSnapshot

-----------------------------------------------------------------------------
(* The tracker's watcher goroutine.                                        *)

\* A tick: nextSnapshot loads generatedRows first.
Tick ==
    /\ watcher = "select"
    /\ watcher' = "load"
    /\ seen' = generated
    /\ UNCHANGED <<request, main, ctxDone, groupErr, workerVars, table, generated, confirmed,
                   doneClosed, lastSample, finalTaken>>

\* Then confirmedRows, which may have moved since, and emits the sample.
Sample ==
    /\ watcher = "load"
    /\ watcher' = "select"
    /\ lastSample' = DisplayedRows(seen, confirmed)
    /\ seen' = 0
    /\ UNCHANGED <<request, main, ctxDone, groupErr, workerVars, table, generated, confirmed,
                   doneClosed, finalTaken>>

StopWatching ==
    /\ watcher = "select"
    /\ doneClosed \/ ctxDone
    /\ watcher' = "exited"
    /\ UNCHANGED <<request, main, ctxDone, groupErr, workerVars, table, generated, confirmed,
                   doneClosed, seen, lastSample, finalTaken>>

-----------------------------------------------------------------------------
(* The worker goroutines: prepare a cursor, then run the loop.             *)

unchangedByWorkers == <<request, main, ctxDone, trackerVars>>

WorkerGoto(c, from, to) == worker[c] = from /\ worker' = [worker EXCEPT ![c] = to]

GroupDone == ctxDone \/ groupErr

\* The loop is left with an error.
Fail(c, from) ==
    /\ WorkerGoto(c, from, "return")
    /\ failed' = [failed EXCEPT ![c] = TRUE]
    /\ UNCHANGED <<unchangedByWorkers, groupErr, pos, filled, pending, lateExecs, table,
                   generated, confirmed>>

\* Source.Prepare positions the cursor at the chunk, or fails.
Prepare(c) ==
    \/ /\ WorkerGoto(c, "prepare", IF path = "unnest" THEN "describe" ELSE "loop")
       /\ UNCHANGED <<unchangedByWorkers, groupErr, pos, filled, pending, failed,
                      lateExecs, table, generated, confirmed>>
    \/ Fail(c, "prepare")

\* describeColumnCastTypes, on a connection of its own.
Describe(c) ==
    \/ /\ WorkerGoto(c, "describe", "loop")
       /\ UNCHANGED <<unchangedByWorkers, groupErr, pos, filled, pending, failed,
                      lateExecs, table, generated, confirmed>>
    \/ Fail(c, "describe")

\* insertprogress.Canceled(ctx).
Canceled == GroupDone

CheckCanceled(c) ==
    \/ /\ ~Canceled
       /\ WorkerGoto(c, "loop", "next")
       /\ UNCHANGED <<unchangedByWorkers, groupErr, pos, filled, pending, failed,
                      lateExecs, table, generated, confirmed>>
    \/ Canceled /\ Fail(c, "loop")

\* filled >= batchSize; a COPY and the drain have no batches.
BatchFull(n) == path \notin {"copy", "discard"} /\ n >= batch

\* A statement goes to the database.
BeginStatement(c) == lateExecs' = [lateExecs EXCEPT ![c] = IF GroupDone THEN @ + 1 ELSE @]

\* copyFromRuntime: CopyFrom pulls the rows itself.
BeginCopy(c) ==
    /\ WorkerGoto(c, "loop", "next")
    /\ BeginStatement(c)
    /\ UNCHANGED <<unchangedByWorkers, groupErr, pos, filled, pending, failed, table,
                   generated, confirmed>>

\* The rows reported before the remainder is sent.  flushBulkInsertRemainder
\* flushes its own copy of the counter: the caller's pending rows stay pending.
ReportedAtEOF(c) ==
    CASE filled[c] = 0 \/ path = "copy" -> 0
      [] path = "upsert" -> filled[c]
      [] OTHER -> pending[c]

\* src.Next yields the next row of worker c, which is reported as generated now.
TakeRow(c, reported) ==
    /\ pos[c] < End(c)
    /\ pos' = [pos EXCEPT ![c] = @ + 1]
    /\ generated' = generated + reported
    /\ UNCHANGED <<unchangedByWorkers, groupErr, failed, lateExecs, table>>

\* RowCounter.Add: rows are reported by FlushEvery, or when the caller flushes.
Reported(c, flush) == IF flush \/ pending[c] + 1 >= FlushEvery THEN pending[c] + 1 ELSE 0
Count(c, flush) ==
    pending' = [pending EXCEPT ![c] = IF Reported(c, flush) > 0 THEN 0 ELSE @ + 1]

\* RunBulkInsert, bulkInsertRuntime, columnarInsertRuntime: the counter is
\* flushed when the batch is full.
NextRow(c) ==
    LET full == BatchFull(filled[c] + 1)
    IN  /\ WorkerGoto(c, "next", IF full THEN "exec" ELSE "loop")
        /\ TakeRow(c, Reported(c, full))
        /\ Count(c, full)
        /\ filled' = [filled EXCEPT ![c] = @ + 1]
        /\ UNCHANGED confirmed

\* rowSource.Next, called by pgx.
CopyRow(c) ==
    /\ WorkerGoto(c, "next", "next")
    /\ TakeRow(c, Reported(c, FALSE))
    /\ Count(c, FALSE)
    /\ filled' = [filled EXCEPT ![c] = @ + 1]
    /\ UNCHANGED confirmed

\* appendRowCtx: no counter, a batch is reported when it is sent.
AppendRow(c) ==
    LET full == BatchFull(filled[c] + 1)
    IN  /\ WorkerGoto(c, "next", IF full THEN "exec" ELSE "loop")
        /\ TakeRow(c, IF full THEN filled[c] + 1 ELSE 0)
        /\ filled' = [filled EXCEPT ![c] = @ + 1]
        /\ UNCHANGED <<pending, confirmed>>

\* drainSource counts a row as generated and as confirmed.
DrainRow(c) ==
    /\ WorkerGoto(c, "next", "loop")
    /\ TakeRow(c, Reported(c, FALSE))
    /\ Count(c, FALSE)
    /\ confirmed' = confirmed + Reported(c, FALSE)
    /\ UNCHANGED filled

\* io.EOF: what is left, if anything, goes out like a batch.  pgx ends the COPY
\* whether it carried rows or not.
NextEOF(c) ==
    LET leftover == filled[c] > 0
    IN  /\ pos[c] = End(c)
        /\ WorkerGoto(c, "next", IF leftover \/ path = "copy" THEN "exec" ELSE "return")
        /\ generated' = generated + ReportedAtEOF(c)
        /\ pending' = [pending EXCEPT ![c] = IF path \in {"values", "unnest"} /\ leftover THEN 0 ELSE @]
        /\ UNCHANGED <<unchangedByWorkers, groupErr, pos, filled, failed, lateExecs, table,
                       confirmed>>

\* The generator, a value's conversion or the describe of the table fails; a COPY
\* may fail, or notice its context, at any row.
NextError(c) == Fail(c, "next")

\* Mutant: a batch is built from one row too many.
BatchOverlap(c) == (pos[c] - filled[c] - 1)..(pos[c] - 1)

\* The rows of the batch being written.
Batch(c) == (pos[c] - filled[c])..(pos[c] - 1)

\* An upsert of a row that is there already changes nothing.
Stored(rows) ==
    [r \in Rows |-> IF r \notin rows THEN table[r]
                     ELSE IF path = "upsert" THEN 1 ELSE table[r] + 1]

\* A write of the batch succeeds, or fails having stored one of the sets of rows.
Write(c, partly) ==
    /\ \/ /\ WorkerGoto(c, "exec", "confirm")
          /\ table' = Stored(Batch(c))
          /\ UNCHANGED failed
       \/ /\ WorkerGoto(c, "exec", "return")
          /\ failed' = [failed EXCEPT ![c] = TRUE]
          /\ \E rows \in partly : table' = Stored(rows)
    /\ UNCHANGED <<unchangedByWorkers, groupErr, pos, filled, confirmed>>

\* A statement that reports an error (a timeout, a lost reply) may have applied.
AllOrNothing(c) == {{}, Batch(c)}

ExecBatch(c) ==
    /\ Write(c, AllOrNothing(c))
    /\ BeginStatement(c)
    /\ UNCHANGED <<generated, pending>>

\* BulkUpsert is no transaction: any of its rows may be there when it fails.
BulkUpsert(c) ==
    /\ Write(c, SUBSET Batch(c))
    /\ BeginStatement(c)
    /\ UNCHANGED <<generated, pending>>

\* CopyFrom returns; the counter is flushed in either case.
EndCopy(c) ==
    /\ Write(c, AllOrNothing(c))
    /\ generated' = generated + pending[c]
    /\ pending' = [pending EXCEPT ![c] = 0]
    /\ UNCHANGED lateExecs

\* Mutant: the remainder is confirmed as a full batch.
NominalRows(c) == batch

\* The rows AddConfirmed is told of.
BatchRows(c) == filled[c]

\* A batch that was short ends the drain, a full one continues it.
ConfirmBatch(c) ==
    /\ WorkerGoto(c, "confirm", IF BatchFull(filled[c]) THEN "loop" ELSE "return")
    /\ confirmed' = confirmed + BatchRows(c)
    /\ filled' = [filled EXCEPT ![c] = 0]
    /\ UNCHANGED <<unchangedByWorkers, groupErr, pos, pending, failed, lateExecs, table,
                   generated>>

\* The deferred flush of the counters, and the errgroup taking the result.
WorkerReturns(c) ==
    /\ WorkerGoto(c, "return", "done")
    /\ generated' = generated + pending[c]
    /\ confirmed' = IF path = "discard" THEN confirmed + pending[c] ELSE confirmed
    /\ pending' = [pending EXCEPT ![c] = 0]
    /\ groupErr' = (groupErr \/ failed[c])
    /\ UNCHANGED <<unchangedByWorkers, pos, filled, failed, lateExecs, table>>

\* A loop that sends a statement per batch.
BatchLoop(c) == \/ CheckCanceled(c) \/ NextRow(c) \/ NextEOF(c) \/ NextError(c)
                \/ ExecBatch(c) \/ ConfirmBatch(c)

RunBulkInsert(c) == path = "bulk" /\ BatchLoop(c)

BulkInsertRuntime(c) == path = "values" /\ BatchLoop(c)

ColumnarInsertRuntime(c) == path = "unnest" /\ (Describe(c) \/ BatchLoop(c))

CopyFromRuntime(c) ==
    /\ path = "copy"
    /\ \/ BeginCopy(c) \/ CopyRow(c) \/ NextEOF(c) \/ NextError(c)
       \/ EndCopy(c) \/ ConfirmBatch(c)

BulkUpsertRuntime(c) ==
    /\ path = "upsert"
    /\ \/ CheckCanceled(c) \/ AppendRow(c) \/ NextEOF(c) \/ NextError(c)
       \/ BulkUpsert(c) \/ ConfirmBatch(c)

DrainSource(c) ==
    path = "discard" /\ (CheckCanceled(c) \/ DrainRow(c) \/ NextEOF(c) \/ NextError(c))

Worker(c) ==
    \/ Prepare(c) \/ RunBulkInsert(c) \/ BulkInsertRuntime(c) \/ ColumnarInsertRuntime(c)
    \/ CopyFromRuntime(c) \/ BulkUpsertRuntime(c) \/ DrainSource(c) \/ WorkerReturns(c)

-----------------------------------------------------------------------------
CancelCaller ==
    /\ ~ctxDone
    /\ main = "loading"
    /\ ctxDone' = TRUE
    /\ UNCHANGED <<request, main, groupErr, workerVars, table, generated, confirmed, trackerVars>>

Returned == main = "returned" /\ watcher = "exited" /\ UNCHANGED vars

Next ==
    \/ Main \/ Tick \/ Sample \/ StopWatching \/ CancelCaller \/ Returned
    \/ \E c \in Parts : Worker(c)

Spec == Init /\ [][Next]_vars

\* Goroutines are scheduled and statements return.  The watcher's select chooses
\* among its ready cases at random, so a closed done channel is not ignored for
\* ever by a ticker that keeps firing.
Fairness ==
    /\ WF_vars(Main)
    /\ \A c \in Parts : WF_vars(Worker(c))
    /\ WF_vars(Sample)
    /\ SF_vars(StopWatching)

FairSpec == Spec /\ Fairness

-----------------------------------------------------------------------------
(* Properties.                                                             *)

Succeeded == main \in {"finish", "join", "sample", "returned"} /\ ~groupErr

\* No row is inserted twice, whatever fails and whenever the load is cancelled; and a load
\* that succeeds has stored, and confirmed, every row.
LoadedOnce ==
    /\ \A r \in Rows : table[r] <= 1
    /\ Succeeded => /\ confirmed = Total
                    /\ path # "discard" => \A r \in Rows : table[r] = 1

\* The progress never confirms a row the database does not hold (the noop driver,
\* which has none, confirms what it drains).
ConfirmedIsStored ==
    path # "discard" => confirmed <= Cardinality({r \in Rows : table[r] > 0})

\* A load that was stopped stops: once a worker failed or the caller cancelled, every other
\* worker runs at most the statement its batch was headed for, and when Insert finished
\* no worker is still writing and no progress sample follows the final one.
NothingLate ==
    /\ \A c \in Parts : lateExecs[c] <= 1
    /\ main \notin {"start", "loading"} => \A c \in Parts : worker[c] = "done"
    /\ finalTaken => watcher = "exited"

\* Successive samples never show fewer rows, though a sample loads its two
\* counters one after the other while the workers move them.
SamplesGrow == [][lastSample' >= lastSample]_vars

\* Insert returns.
InsertReturns == <>(main = "returned")

=============================================================================
