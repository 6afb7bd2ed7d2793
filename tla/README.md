# stroppy in TLA+

stroppy is a command-line tool that loads a database with generated data and runs
benchmark workloads (TPC-B, TPC-C, TPC-DS, TPC-H, ad-hoc SQL) against it. This
directory specifies it from the command line to the report: what a command runs, how its
driver opens, how tables are set up and loaded, the run and its virtual users (VUs), the
statements and transactions they execute, the shutdown on signals, and what TPC-C's
compliance report concludes. TLC checks the specifications on small instances; TLAPS
proves their safety, two properties excepted, for every number of users, rows, instances,
statements, signals and arguments.

## 1. The system

| component | code | state it keeps | operations |
|---|---|---|---|
| configuration and run command | `cmd/stroppy/commands/run`, `internal/runner`, `pkg/bench/param.go` | arguments, file, process environment, merged inputs | parsing, merging, routing, resolving parameters, driver options |
| process | `cmd/stroppy/commands/root.go` | exit status | `execute`, `exitCodeFor` |
| shutdown | `pkg/common/shutdown/signal.go` | signal channel of two, `stopped`, `firstSig`, `done` | `NotifyContext`, `monitorSignals`, `stop` |
| benchmark run | `pkg/bench/runtime.go` | iteration counter or deadline, scenario context, fatal-error channel of one, the deferred cleanups | `Run`, `runScenario`, `runWorker` |
| root state | `pkg/bench/root.go` | metrics provider, slots of shared drivers | `newRootState`, `Teardown`, `shutdownMetrics` |
| workloads | `internal/workloads/*`, `workloads/*/*.sql` | the step filter, random streams, history ids; the database | `Setup` with its steps, `Iterate`, `Teardown` |
| row generation | `pkg/gen` | cursors | indexed sources, fan-out, `Permute` |
| insert and progress | `pkg/bench/query.go`, `pkg/driver/insertprogress` | atomic row counters, watcher goroutine, last sample | `Bench.Insert`, `Tracker.Start/Finish/watch`, `RowCounter` |
| parallel load | `pkg/driver/common` | chunks, errgroup and its context | `SplitChunks`, `RunParallelBatch` |
| SQL drivers | `pkg/driver/{postgres,mysql,ydb,picodata,sqldriver}` | pool, cache of parsed queries, cursors, deadlines | `NewDriver`, `Insert`, `RunQuery`, `Begin`, `ClassifyError` |
| csv and noop drivers | `pkg/driver/{csv,noop}` | shards, merged files, manifest; nothing | `Insert`, `RunQuery`, `Teardown` |
| transactions, retry | `pkg/bench/query.go`, `retry.go` | attempt, open transaction | `Begin`, `BeginTx`, `Commit`, `Rollback`, `Retry0` |
| TPC-C transactions | `internal/workloads/tpcc`, `workloads/tpcc/pg.sql` | the database | `newOrder`, `payment`, `delivery`, `orderStatus`, `stockLevel` |
| report | `internal/workloads/tpcc/report.go`, `pkg/bench/snapshot.go` | totals, histograms, the steady series | `complianceReport`, `emitComplianceReport` |

How they interact: `execute` runs the command under a context the monitor goroutine
cancels at the first signal. The command merges arguments, file and environment and calls
`bench.Run`, which opens one driver, calls the workload's `Setup` (its steps create tables
and load them with `Bench.Insert`), starts one goroutine per VU and waits for them. A VU
calls the workload's `Iterate`, which runs transactions through `Retry0`; their statements
share the driver's pool and its cache of parsed queries. When the VUs are gone the
deferred calls unwind: the workload's `Teardown`, which prints TPC-C's report, the root's
`Teardown`, the summary, the metrics.

What is hard here: VUs racing on the counter, the context and the error channel; a
signal at any point, and a second one during the shutdown of the first; workers of a
load that fail while others write, with a watcher reading their counters; transactions
of different VUs interleaving statement by statement, lost answers to a commit, and
replays; deadlines that end a statement in the queue for a connection, at the server or
between two rows; a load, a crash and a next command that finds what they left; seven
channels that may each set a parameter; percentiles taken from a histogram of few buckets.
`hazards` in PROJECT.json lists each at its line.

What makes each part correct:

- command: what runs is what the command asked for, whatever weaker channel says.
- opening: what was opened is closed on failure, and opening ends.
- run: the budget is neither exceeded nor dropped; a fatal error or a cancellation is
  reported and never masked; cleanup follows load, once, on every path; `Run` returns.
- shutdown: the exit status tells the truth; a graceful exit cleaned up; only a second
  signal forces, and it always gets the process out.
- setup: a command that drops, creates and loads works on whatever is there, measures
  whole data, and a validation that passes means a whole population.
- load: every row once or an error; progress that never claims more than there is;
  nothing left running. For files: a table loaded well is complete, and the
  manifest claims no missing row of a table loaded once, and at most one source of rows
  more for each further load without a drop.
- statements: no connection, cursor or timer left behind; an answer that is true; an error
  of the right kind; never at the mercy of a silent server when a timeout is set.
- transactions: committed data keeps the consistency conditions; effects at most once;
  success only when it happened; no lock left behind.
- report: verdicts that are those of the transactions that ran.

## 2. The modules

| module | models | state and actions |
|---|---|---|
| `Params` | `param.go`, the scenario part of `runtime.go` | pure operators: the channels of a parameter, their order, legacy names, the executor |
| `DriverConfig` | `driver_preset.go`, the driver options of `run.go` | pure operators: presets, `-D` paths, pool options, what a driver is opened with |
| `RunCommand` | `stroppy run` | composes the two above: one action per argument parsed, then merge, route, process environment, `Define`, `Open`, `Setup` |
| `RunLifecycle` | what a run promises | phases idle, setup, load, cleanup, over; users begin and end iterations within a budget |
| `BenchRun` | `Run`, `runScenario`, `runWorker`, `RootState` | `main` is the line of the main goroutine, `pc[v]` that of VU `v`; one action per atomic step: the counter's decrement, the context check, the start and the end of an iteration, the `select` on the error channel, `cancel()`; then `Collect` and each deferred call |
| `Shutdown` | `NotifyContext`, `monitorSignals`, `stop`, `execute` | one action per statement of the monitor and of `stop` |
| `StroppyProcess` | the process | composes `BenchRun` (EXTENDS) and `Shutdown` (INSTANCE), which share `ctxDone`; the end of the process stops both |
| `DriverOpen` | `NewDriver` of every driver, `WaitForDB` | the constructor's stages, its clock in seconds, YDB's second attempt |
| `Population` | the rows of TPC-C, TPC-B and simple, `Permute`, `validatePopulation` | pure operators from an entity index to a row; the hash of a round and the exclusive or of `Permute` are constants |
| `WorkloadSetup` | commands of five workloads around one database | composes `Population` and `SplitChunks`: `phase[i]` is where instance `i`'s command stands, `todo[i]` the statements its `Setup` has left: one operator per step, a workload's script is the steps one after another, less those the filter skips; inserts chunk by chunk, the measured phase, a restart of the server |
| `SplitChunks` | `common.SplitChunks` | pure operators, shared by every load |
| `BulkLoad` | `Bench.Insert`, the tracker, `RunParallelBatch`, the insert paths of five drivers | `worker[c]` is the line of chunk `c`'s goroutine, `watcher` that of the tracker's; the table counts the copies of each row |
| `CsvDriver` | the csv driver and its directory across processes | one action per file operation of a worker, of the wipe, of `Teardown`; crashes between any two |
| `Statements` | `Exec` ... `QueryRows`, `RunQuery`, cursors, errors | `pc[v]` is the line of VU `v`'s call; the cache's three steps, the pool, the deadline and MySQL's hint as clocks, the server's choices |
| `TpccTx` | `Iterate`, `newOrder`, `payment`, `orderStatus`, `delivery`, `stockLevel`, `BeginTx`, `Retry0` on PostgreSQL | each VU executes its body's statements one by one; the database keeps row locks, snapshots and committed contents |
| `ComplianceReport` | the metric side of TPC-C, `report.go` | one transaction per VU with its attempts, the histograms and the series it adds to, then the report |
| `MC...` | | constants, symmetry, view and studies of the module they extend |
| `ProcessProofs` | | proofs about `BenchRun` and `StroppyProcess`, and about `WorkloadSetup`, what the run's workload does |
| `RunCommandProofs` | | proofs about `RunCommand` and `DriverOpen` |
| `SplitChunksProofs` | | proofs about `SplitChunks`, used by the proofs of every load |
| `BulkLoadProofs`, `CsvDriverProofs` | | proofs about `BulkLoad` and `CsvDriver` |
| `StatementsProofs`, `TpccTxProofs`, `ComplianceReportProofs` | | proofs about the module each is named after |

Choices worth knowing:

- The workload in `BenchRun` is its environment: `Setup`, `Iterate` and `Teardown` may
  succeed, fail, be fatal, or return the cancelled context's error. An operation that
  fails under a cancelled context may or may not wrap `context.Canceled`
  (`MaybeCanceled`), which is what the exit status depends on.
- `late` in `BenchRun`, `accepted` in `Shutdown`, `lateExecs` and `finalTaken` in
  `BulkLoad`, `applied` and `undone` in `TpccTx`, `loads`, `damaged`, `torn` and
  `spoiled` in `CsvDriver`, `began`, `alone` and `restarted` in `WorkloadSetup`,
  `durations` and `completed` in `ComplianceReport` are history variables: the guards that
  read them are bounds.
- `loads` counts the loads of a table since it was dropped or, without a drop, since the
  process started. `spoiled` is set by a load that follows a Teardown and by a removal that
  fails half-way, until the next drop; `CompleteFiles` and `ManifestIsBacked` say nothing
  of a Teardown after either.
- `alone` holds while neither another command nor a restart of the server overlaps an
  instance's command. A restart that came before the command began exempts nothing:
  what it emptied is one more thing an earlier command may have left.
- A database in `WorkloadSetup` refuses what its tables, keys, indexes and procedures make
  it refuse. ANALYZE is never refused: the statement of every `pg.sql` names no table, and
  MySQL reports a missing one in a row of the answer. One number `n` stands for the branch,
  the teller and the account a TPC-B transaction draws, so that the three foreign keys of
  its history row can be missed.
- In `BulkLoad` one statement may be applied and answered, refused, or applied and not
  answered; a BulkUpsert that fails may have stored a part of its batch. `FlushEvery` is
  `defaultRowReportEvery`, made small so that both ways a counter reports occur.
- `TpccTx` has one warehouse, district, customer and item, and one line per order: the
  contention the code is exposed to, concentrated. Within a transaction that
  writes, the reads that nothing depends on are left out; finding a customer by name is one
  read. The statement `get_stocks` of a `forced` new_order
  stands for the item read that misses; the `warehouse` row read by new_order is never
  locked. PostgreSQL itself is external to the repository: a write waits for the row's
  lock, and under REPEATABLE READ it fails when the row changed since the snapshot,
  which the transaction's first statement takes. A transaction that fails has its locks
  until `Rollback`.
- `Statements` treats `database/sql`, pgx and the servers as external: a context that ends
  may reach the caller as its own error, as the server's, or as both.
- `RunCommand` keeps arguments as tokens of four small vocabularies (`MCRunCommand`), one
  per question: the SQL, the scenario, the driver, the shape of the command.
- Texts are compared, never built: `Params` knows the numerals it parses by a table.
- Mutated operators (marked `Mutant`) stand next to the operator they change; no
  specification uses them.

## 3. What TLC checks

| run | instance | checks |
|---|---|---|
| `StroppyRun` | commands of up to three arguments from four vocabularies of 11 to 14, up to 17 files and 5 environments each | `NamedSqlRuns`, `RunAsAsked`, `PoolAsAsked` |
| `DriverOpen` | six drivers and one that is not registered, seconds up to the timeouts | `NothingLeftOpen`, liveness `OpeningEnds` |
| `Bench` | 3 VUs, 3 shared iterations or a deadline that admits 3 | `BudgetRespected`, `BudgetSpent`, `FatalReported`, `OneLateIteration`, `CleanupAfterLoad`, refinement `ImplementsLifecycle`, liveness `Terminates` |
| `Process` | 1 VU until a deadline that admits 2 iterations, up to 3 signals, SIGINT and SIGTERM | `TruthfulExit`, `StopClosesGate`, liveness `SecondSignalEnds` |
| `Setup` | one instance, 3 commands, 6 filters, 18 pairs of workload and driver, 2 warehouses | `RepairsDatabase`, `MeasuresWholeData`, `ValidatedIsWhole` |
| `BulkLoad` | 5 rows, 2 workers, batches of 2, reports every 3 rows, 5 drivers, 4 methods | `LoadedOnce`, `ConfirmedIsStored`, `NothingLate`, `SamplesGrow`, liveness `InsertReturns` |
| `Csv` | 2 tables of 2 rows, 2 workers, 2 inserts, 2 processes | `CompleteFiles`, `ManifestIsBacked` |
| `Statements` | 2 VUs, 1 connection, a cache of 1 for 3 templates, 3 statements, 4 drivers, 3 kinds of timeout | `NothingLeftBehind`, `HintKeepsConnection`, `CacheBounded`, `NeverAtServersMercy`, `AnswerIsTrue` |
| `TpccRepeatable` | 2 VUs, 3 iterations of any kind, 2 attempts, default isolation | `Consistent`, `DeliveredOnce`, `AppliedOnce`, `SuccessIsReal`, `NoOrphanTx` |
| `TpccCommitted` | 2 VUs, 2 new_orders or stock_levels, 2 attempts, READ COMMITTED | `NoDuplicateOrder`, liveness `IterationsEnd` |
| `Report` | 2 VUs, 3 transactions of 2 kinds, 2 attempts, 2 slots of 2 ms | `VerdictIsTrue`, `MeasuredOnce`, `SeriesIsWhole` |
| `ReportProcs` | 1 VU of stored procedures | a violation, see below |

The bounds. Three VUs are the fewest for which one reports a fatal error, one finds the
channel full and one observes the cancellation; three tickets let one VU take several
and another none. Three signals fill the channel of two while the monitor is busy.
Five rows between two workers in batches of two make a chunk of exactly one batch (no
remainder) and a chunk of a batch and a remainder. Three transactions between two VUs are
enough for a conflict, its replay, and a third transaction that meets either outcome; two
attempts for a replay that succeeds and one that runs out. One connection for two VUs
makes a queue. A cache of one may hold two templates, when both VUs pass the check of its
size together; that a third never enters is what the third template and the third
statement are for. Two csv processes are
a crash and the one that finds its files; two tables a merge that ends between them. Three
arguments set one value in a channel, again in another, and switch what it depends on; a
fourth would repeat one of these. Three commands on one database are one that leaves something, one that
fails on it or loads over it and one that uses it; two warehouses make a slice that
worker chunks split, and the factors of TPC-C (2 districts, 3 customers, 2 items) keep one
customer more than a power of two, for which the permutation has to walk. `Setup` has one
instance: `alone` restricts its properties to commands that do not overlap, which is all
the documentation promises of a schema step. `Report` looks at a paced run of the DML
transactions and an unpaced run of the procedures (`Combined`), since pacing decides only
what is reported; its view leaves out the rollback counters, which nothing reads; its
three buckets, two ceilings and the overflow are the cases of the percentile, and three
transactions on two slots cut a window short.

Fairness. `Bench` assumes that goroutines are scheduled, that every workload
call returns and that a clock advances; nothing obliges the caller to cancel.
`Process` assumes fairness only of the monitor goroutine and of the statements of
`stop`, and none of the run: the second signal must work when the run hangs. `BulkLoad`
assumes scheduled goroutines and statements that return, and strong fairness of the
watcher's exit, because Go's `select` picks among ready cases at random. `DriverOpen`
assumes a clock that advances and a constructor that is scheduled; the database owes
nothing. `TpccCommitted` assumes strong fairness of each VU: PostgreSQL grants a lock to
waiters in their order, so a VU that waits is not passed over for ever. Failing statements
are given no fairness, so no property rests on them. `Statements` states no fairness:
`NeverAtServersMercy` asks instead that a step that does not depend on the server is
enabled in every state of a call, which with finitely many steps per call is its return.

Deadlock is not checked in `Csv` and `Statements`, whose programs stop when their bounds
are used up; elsewhere a state that ends stutters explicitly.

`ReportProcs` shows where the code departs from what it says: a rollback prescribed by
TPC-C and raised by the stored procedure should be "a spec-mandated success"
(`procs.go:85`), but `isRollbackSentinel` looks for its text at the beginning of an error
that two layers have prefixed, so the VU ends at the first one.

### Seen while modelling

These are not runs: each is one path that reading shows.

- `RootState.Teardown` says it closes all shared drivers (`root.go:76`), but no driver is
  registered there, so the one `Run` opened is never closed; with the csv driver no merge
  happens in a run.
- "No force can fire once stop begins" (`signal.go:73`): the monitor may have claimed the
  gate (line 114) and not yet forced (115). What holds is `StopClosesGate`.
- A remainder batch is reported as generated twice (`insert_spec.go:153`): the counter is
  passed by value and flushed again by its owner's defer.
- `FOR UPDATE` does not eliminate the serialization failures under the default isolation
  (`pg.sql:613`), since an earlier statement took the snapshot; the retry absorbs them.
  Under READ COMMITTED it does, and `NoDuplicateOrder` rests on it.
- A script that is a `.sql` path in a configuration file is not what execute_sql reads
  (`run.go:491`), against `topic_config_file.go:62`.
- MySQL's padded deadline is "only a backstop" (`dialect.go:31`) for a statement that did
  not wait for its connection; after a wait longer than the grace it fires first
  (`HintKeepsConnection` has that condition).
- A second `Insert` of a csv table without a drop, after a first that succeeded or failed,
  adds its rows to the counts of the first (`insert_spec.go:228`) although `os.Create` has
  truncated the shards (`insert_spec.go:92`): the manifest then claims up to a source of
  rows more than the files hold. `ManifestIsBacked` states that bound, and TLC reaches it.
- The documented transaction phase of a distributed run (`workloads/tpcc/README.md:54`)
  still executes `create_indexes`, which only one instance can.
- History ids start again in every process (`tpcc.go:1228`), so a second process on the
  same data collides on history's key; each collision is one failed transaction.
- `--no-steps workload` leaves the Teardown of simple, which drops its table.
- Only the drivers over database/sql close their pool when `WaitForDB` fails; those over
  pgx leave it open, and the command then ends.
- The report counts failed and cancelled transactions as measured, judges a run that
  measured nothing as compliant in response times, and takes a percentile at the lower of
  two ranks. `VerdictIsTrue` states the bound that remains.
- The options of picodata's pool are parsed as those of `sql` and never applied; a driver
  type given by `-D` after a pool option does not move it (`PoolAsAsked` asks for a
  settled type).

## 4. What TLAPS proves

Every safety property of section 3 is proved for every value of the constants, except
`ValidatedIsWhole` and `NeverAtServersMercy`. None of them is inductive as it stands; each
part of the proofs begins with the inductive invariant that implies them (`IInv`, `PInv`,
`SetupIInv` or `HeldAt`), a conjunction of named parts, and shows part by part that each
action preserves it. The theorems listed in PROJECT.json come last.

### The run and the process (`ProcessProofs`)

About `BenchRun`, from `BenchRunAssumption` alone (at least one VU, at least one iteration,
one of the two executors: what `spec()` enforces): `TypeCorrect`, `Budget`, `BudgetIsSpent`,
`FatalIsReported`, `CancelIsReported`, `AtMostOneLate`, `CleanupIsLast`, and
`Implementation`, that every behaviour of `Run` is a behaviour of `RunLifecycle`. `IInv`
says:

- the counter: the iterations begun and the workers that hold a ticket and have not
  begun add up to what was taken from the counter while it was not negative. The sum
  is over a set of workers, so the proof uses the cardinality facts of
  `FiniteSetTheorems`. A worker left as exhausted only when the counter was below zero.
- the workers: a worker not yet spawned is idle; how it returned and where it stands
  agree; one that reports a fatal error has returned as fatal.
- the channel: a worker past its report implies that the channel is full, and a full
  channel implies that the worker named in it returned as fatal.
- cancellation: the scenario is cancelled before `Collect` only by a fatal error that
  is in the channel; a VU with a late iteration has passed its check, and cannot pass
  it again, because cancellation is never withdrawn.
- the main goroutine: from `Collect` on all workers have stopped; the driver and the
  metrics are as the phase says; the scenario's result is what `FatalReported`,
  `CancelReported` and `BudgetSpent` say of it, and later steps only add to it.

The refinement maps each action to one of the lifecycle's or to a stutter.

About `StroppyProcess`, from `ShutdownAssumption` (signal numbers are those of Unix), for
every set of signals and every number of them: `ShutdownTypeCorrect`, `ExitIsTruthful` and
`GateStaysClosed`. `PInv` is the argument:

- signalled: a monitor that holds a signal received one, a monitor past the first signal
  recorded it, and the signals that found room in the channel are at least those still in
  it, the one in hand and the one recorded. A second signal is the only way to `force`,
  so a forced exit took two. The context is cancelled by the first signal or, with none
  recorded, only by the last statement of `stop`.
- gated: past `CloseGate` the gate is closed, so `ClaimGate` fails.
- cleaned: how far the main goroutine of the run is tells whether its driver is open, its
  workload torn down and its metrics alive; its error contains a cancellation only if a
  signal was recorded.
- settled: a status is computed from the error of a run that is over, so nothing can
  change what it was computed from.

A step of the run changes nothing of the shutdown (`RunEffect`) and a step outside the
run nothing of the run (`OutsideTheRun`), so the lemma of each kind of step looks at one
half.

### The setup (the last part of `ProcessProofs`)

From `WorkloadSetupAssumption` and `PopulationAssumption` (scales, first warehouses and the
factors of the data are positive; a district has fewer delivered orders than orders; the
targets are built-in workloads on SQL drivers, YDB or picodata): `SetupTypes`,
`SetupRepairsDatabase` and `SetupMeasuresWholeData`, for every number of instances and
commands, overlapping ones included, every set of step filters, every warehouse range and
scale, number of load workers and size of the data. The hash of `Permute` and its exclusive
or are arbitrary functions: these theorems do not depend on what customers order.

`RepairsDatabase` speaks of a statement that was refused; what has to be invariant is that
the rest of a script fits the database it will meet. `SetupIInv` says so of an instance
that is `Relaying`: its command is alone, keeps drop_schema and create_schema, lost no rows
to a restart meanwhile and has not used its data.

- `Sole`: while a command runs alone, no other instance runs. One that starts meanwhile ends
  `alone` for both, so all the steps between are the instance's own.
- `Ordered`: the statements left come in the order of their steps, and those of a step
  after the schema are different.
- `SchemaFits`: a table the script will create does not exist or will be dropped first, and
  at the end all tables exist.
- `TablesFit`: a table that will not be dropped any more is empty until its insert and as
  a fresh load leaves it after, has no index the script will create, and is unlogged only
  while set_logged is still to come.
- `KeysFit`: a foreign key an earlier command left goes with its child before its parent is
  dropped, which MySQL insists on; one that stays was added by this script, after the loads.
- `ProceduresFit`: MySQL's procedures are dropped before they are created.
- `Complete`: the script inserts into what it empties, and logs what it unlogs.

The proof has three parts. Every script fits whatever it finds when it starts, if it drops
and creates (`LaysOutSchema`): a workload's script is shown to be nine steps in the order of
their ranks, some of them empty (`ScriptParted`), so that the facts about joining steps
serve all five workloads. A script that fits the database is not refused: `NotRefused` for
statements, where the parents of a foreign key are there because both tables are whole
(`ParentsThere`, an argument about the row formulas), and `InsertExecutes` for inserts, where
the table is empty and has no foreign key, and the chunks of the workers are the whole
source by `ChunksCover`. And a statement done leaves what the rest needs (`FitsAdvances`):
`Executes` says what each does to the database, table by table.

`MeasuresWholeData` is `TablesFit` of the empty script. Its slices are of the first
warehouse on, and `SliceOfWhole` shows that what an instance loads lies in its slice.

### The command and its driver (`RunCommandProofs`)

From `StudiesAssumption`, which says only that the tokens have the fields of their kind:
`NamedSqlWins`, `AcceptedIsAsked` and `PoolIsAsked`, for every list of arguments, file and
environment. `IInv` follows a value from where it is named to where it is used:
`Environment` (the process environment is the one it was started with, but for the SQL that
an explicit source masks), `Merged`, `Published` and `Carries` (where the steps and the SQL
are between the merge and `Setup`: in the plan, in one environment, in both, or in a typed
parameter), `Resolved` (the values a run begins with are those `Define` computed, which
nothing changed since) and `Configured`. The three theorems then need what the operators
compute for every input: that without a duration in any channel the legacy `DURATION` is
what counts, and that `ApplyDriverOpts`, a recursive function over the list of options,
leaves a field as the last option about it says (`OptsEffect`).

`NothingLeaks` is about `DriverOpen`, for every driver, every behaviour of the database and
every length of an attempt: `HeldAt` says what a constructor holds at each stage, and which
drivers reach the stage at all.

### The load (`SplitChunksProofs`, `BulkLoadProofs`, `CsvDriverProofs`)

`SplitChunksProofs`: for every number of units and of workers, zero and negative ones
included, the chunks lie within the units (`ChunksInside`), are disjoint
(`ChunksDisjoint`) and cover them (`ChunksCover`). The number of chunks times the base size
is at most the total, and falls short of it by less than a unit per chunk, so the last chunk
can take the remainder (`ChunkSizes`).

`BulkLoadProofs`, from `BulkLoadAssumption`: `LoadsOnce`, `ConfirmsTheStored`,
`StopsInTime`, `SamplesNeverShrink` and `TypeCorrect`, for every number of rows and
workers, batch size, reporting period, driver and method. `Cursors` and `Storage` are the
core: in a worker's chunk the rows before its batch are stored once, those from its cursor
on are not, and the batch itself is stored from the success of its statement on; the
disjointness of the chunks makes that independent of the other workers, and their cover
makes a load whose workers all left at the end of their chunks complete. `Counted` says the
confirmed counter is the number of rows confirmed, a cardinality. `Sampling` is why a sample
of two counters, read one after the other, still cannot shrink: each only grows, so the sum
is at least what the last sample saw. `Lateness` follows a worker that executes under a
cancelled group from that statement to its next check.

`CsvDriverProofs`, from `CsvAssumption` (among others, the value for a file that does not
exist is not the contents of one): `FilesAreComplete`, `ManifestIsHonest` and `TypeCorrect`,
for any number of tables, rows, workers, inserts and processes. `Untouched`
says that after a drop that worked the tables not loaded since have no file, so what other
processes left is gone. `Loading` is what the shards of the load in progress hold, worker
by worker, and that the rows counted for it are those of the workers that recorded theirs.
`Stored` says of a table no load is at work on that its rows are in the shards until
`Teardown` has removed them and in the merged file from then on; that they are at least
those counted, but for one source for each load before the last, whose shards the last one
truncated (`Earlier`); and that a single load that ended well counted and stored all.
`Torn` is how far `Teardown` got. Crashes leave all of these true because they speak of the
files, of `dropped` and of the counts, and a new process begins with no drop and no counts.

### The statements (`StatementsProofs`)

From `StatementsAssumption`: `LeavesNothingBehind`, `HintComesFirst`, `CacheStaysBounded`
and `AnswersTruly`, for every number of VUs, connections, templates and statements and every
limit of the cache. `Sound` is about one VU: where it holds a connection (`Connection`),
from where to where its context is armed and that a server under its own hint ends first
(`Context`), what the cursor has seen (`Rows`) and which causes its error has (`Errors`).
`Pooled` and `Cached` relate the VUs: idle and held connections add up to the pool; the
entries counted and those about to be are the entries of the cache; and the entries plus
the VUs past the check of its size exceed the limit by less than there are VUs, which is
inductive where `CacheBounded` alone is not. A call that looks up or stores has a template
(`Parsed`), so that the cache never holds the place of one.

### The transactions (`TpccTxProofs`)

From `TpccTxAssumption`, for any number of VUs, iterations, attempts and kinds of
transaction: `NoOrphan`, `AppliedAtMostOnce`, `SuccessSound`, `OrderNumbersUnique` and
`TypeCorrect` under both isolation levels, `ConsistentAlways` and `DeliveredAtMostOnce`
under the default one. The last two have the hypothesis `UsesSnapshot`. Without it
`DeliveredOnce` is false: under READ COMMITTED two deliveries that read the same oldest order
both deliver it. `Consistent` would survive in the model for a reason the code does not
have: the lock of the one district orders all new_orders, where the several districts of a
warehouse share its stock. `IInv` says:

- `Progress`: an open transaction wrote exactly what its statements before the next one
  write, and at its commit all of them. A commit therefore applies a whole transaction.
- `Control`: what error is at hand, where; effects are applied only after the commit, and
  with effects applied the error at hand is not one that `Retry0` repeats.
- `LocksExclude` and `OwnsNumber`: a row has one owner, so the VU that holds the district
  knows the next order number until it commits.
- `FreshRows`, `FreshReads`, `NotStale`: what a body read is still so unless the row has
  changed since its snapshot, and under the snapshot a row that changed is never locked. The
  values a commit writes are thus computed from the contents it changes.
- `Numbering`: orders are numbered without gaps; new orders are orders.

`Books`, the two consistency properties, then follow commit by commit.

### The report (`ComplianceReportProofs`)

From `ReportAssumption` (finitely many VUs; the buckets' bounds ascend; a ceiling is one of
the bounds, and not the last): `EveryTxMeasured`, `Verdicts`, `WholeSeries` and
`TypeCorrect`, for every number of VUs, kinds, attempts, buckets, slots and transactions.
`Placed` relates a VU's place to its transaction; `Agree` says that for each bound the
observations in the buckets up to it are as many as the durations no longer than it, which
is what the quantile of a histogram knows of them; `Recorded` that each slot counts the
completions that fall into it; `Told` that the report is of what `Teardown` found. The
verdict then needs that the prefix sums of a histogram grow, and the windows of
`rebucketRates` that they partition the slots.

### Induction over data

The library's induction theorems take an operator as a parameter, which no installed prover
instantiates. What the proofs need of lists, sums and recursive functions is instead shown
from the least-number principle, a fact about sets (`LeastNumber`, from
`WFMin` of `WellFoundedInduction`): the set of lengths at which a statement fails has a
least element, and the statement holds before it. In `ComplianceReportProofs` the folds of
the community modules are shown to unfold this way, and in `RunCommandProofs` the recursive
function of the options.

### What stays with TLC

- Liveness (`Terminates`, `SecondSignalEnds`, `InsertReturns`, `OpeningEnds`,
  `IterationsEnd`) needs ENABLED, and so does `NeverAtServersMercy`, which asks what is
  enabled; both are out of the prover's reach.
- `ValidatedIsWhole`. That a validation which passes means a whole population is not a
  matter of one command: it compares counts, sums and maxima with what every mixture of
  earlier commands, partial loads, transactions and restarts could have left, and rests on
  the order in which tables are created, loaded and unlogged. Its last conjunct is that
  `Permute` permutes, an induction along the walk of a recursive function. The run checks it
  for one instance and three commands.

## 5. Not modelled

- MySQL's mix of snapshot and current reads, YDB's serializable transactions under
  retry, picodata's dialect: each needs a database model of its own. `TpccTx` is about
  PostgreSQL, which the reference data and `pg.sql` are written for.
- TPC-C under isolation NONE, where an attempt is a sequence of statements that each
  commit: a replay repeats what the last one did. `Statements` has the mode, not its
  effect on the data.
- The ignore and fatal actions of a retry policy, which no built-in workload selects, and
  the length of sleeps: backoff, keying and think times. A step that waits may wait for
  any time.
- The ported dbgen and dsdgen generators, the random streams, names and texts of rows,
  value conversion and the answers of the analytical queries: pure data.
- Metric exporters, the summary's text, help, probe, logger, generated code and the
  offline tools: output, or code outside a run.
- The other helpers of `pkg/common/shutdown`: the run command does not call them.
- Two commands that overlap on one database: a schema step is documented as one
  instance's; the properties of `Setup` would not hold of it and do not claim to.

## 6. Plan

1. A proof of `ValidatedIsWhole` for the databases that one sequence of commands leaves:
   each table is a part of its source, and what transactions added shows in a maximum or
   in the district's next order.
2. A database model for isolation NONE and for YDB's retry classes, which would turn
   their two hazards into properties.
