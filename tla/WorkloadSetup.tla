---------------------------- MODULE WorkloadSetup ----------------------------
(***************************************************************************)
(* The workloads' life around one database: commands `stroppy run <workload>` *)
(* with their step filters, the statements their Setup runs step by step,  *)
(* the measured phase and Teardown.  Several instances of the tool share   *)
(* the database, each with its own range of warehouses (--warehouse-start  *)
(* and --scale-factor).                                                    *)
(*                                                                         *)
(* The database (external) is what the statements of the workloads' SQL    *)
(* files need of it: tables with or without a primary key, indexes,        *)
(* foreign keys, procedures, and PostgreSQL's unlogged tables, which a     *)
(* server restart empties.                                                 *)
(***************************************************************************)
EXTENDS Population, SequencesExt, SplitChunks

CONSTANTS
    Instances,         \* processes of the tool
    WarehouseStart,    \* their --warehouse-start
    ScaleFactor,       \* their --scale-factor
    LoadWorkers,       \* load-workers, the workers of every insert
    Targets,           \* the <<workload, driver>> pairs to run
    Filters,           \* the step filters: --steps and --no-steps
    MaxCommands,       \* bound: commands the instances run together
    MaxTransactions    \* bound: transactions of one measured phase

Workloads == {"tpcc", "tpcb", "tpch", "tpcds", "simple"}
DriverTypes == {"postgres", "mysql", "ydb", "picodata"}

ASSUME WorkloadSetupAssumption ==
    /\ WarehouseStart \in [Instances -> Nat \ {0}]
    /\ ScaleFactor \in [Instances -> Nat \ {0}]
    /\ LoadWorkers \in Nat \ {0}
    /\ Targets \subseteq Workloads \X DriverTypes
    /\ Filters \subseteq [only : SUBSET STRING, except : SUBSET STRING]
    /\ MaxCommands \in Nat
    /\ MaxTransactions \in Nat

VARIABLES
    workload, driverType, \* what the commands run, and where
    db,                \* the database
    phase,             \* where an instance stands
    filter,            \* its step filter
    todo,              \* the statements its Setup has left
    verdict,           \* how its last command went, "none" while it is well
    hid,               \* payments of its process, the ids it gave to history
    ran,               \* transactions of its measured phase
    began,             \* history: commands begun together
    alone,             \* history: no other command, and no restart of the server,
                       \* overlapped its command
    restarted          \* the database server restarted, which it does once

env == <<workload, driverType>>
process == <<filter, hid, ran, began, alone>>
setupVars == <<env, db, phase, todo, verdict, process, restarted>>

-----------------------------------------------------------------------------
(* The schemas, in the order of the SQL files.                             *)

CreateOrder ==
    CASE workload = "tpcc"  -> <<"warehouse", "district", "customer", "history",
                                 "new_order", "orders", "order_line", "item", "stock">>
      [] workload = "tpcb"  -> <<"pgbench_branches", "pgbench_tellers",
                                 "pgbench_accounts", "pgbench_history">>
      [] workload = "tpch"  -> <<"orders_h", "lineitem">>
      [] workload = "tpcds" -> <<"store_sales", "store_returns">>
      [] workload = "simple" -> <<"stroppy_demo">>

DropOrder ==
    IF workload = "tpcc"
    THEN <<"order_line", "new_order", "orders", "history", "stock", "customer",
           "district", "warehouse", "item">>
    ELSE Reverse(CreateOrder)

Tables == ToSet(CreateOrder)

\* tpcc's loadData, tpcb's load_data, tpchTables, tpcdsTables, and the demo table;
\* item is loaded by the instance that starts at the first warehouse.
LoadOrder(i) ==
    CASE workload = "tpcc" ->
             <<"warehouse", "district", "customer">>
                 \o (IF WarehouseStart[i] = 1 THEN <<"item">> ELSE <<>>)
                 \o <<"stock", "orders", "order_line", "new_order">>
      [] workload = "tpcb" -> Front(CreateOrder)
      [] OTHER -> CreateOrder

History == IF workload = "tpcc" THEN "history" ELSE "pgbench_history"

\* TPC-B numbers its rows from one whatever the instance.
Start(i) == IF workload = "tpcc" THEN WarehouseStart[i] ELSE 1

Sql == driverType \in {"postgres", "mysql"}

\* The indexes, by table, of create_indexes.
Indexed ==
    CASE workload = "tpcc" /\ driverType # "picodata" -> <<"customer", "orders">>
      [] workload = "tpcb" /\ Sql -> <<"pgbench_accounts", "pgbench_tellers">>
      [] workload = "tpch" /\ driverType # "ydb" -> <<"orders_h", "lineitem">>
      [] workload = "tpcds" /\ driverType # "ydb" -> <<"store_sales", "store_returns">>
      [] OTHER -> <<>>

\* create_foreign_keys, as pairs of a child and its parent.
ForeignKeys ==
    CASE workload = "tpcc" /\ driverType = "postgres" ->
             <<<<"district", "warehouse">>, <<"customer", "warehouse">>,
               <<"new_order", "warehouse">>, <<"orders", "warehouse">>,
               <<"order_line", "warehouse">>, <<"stock", "item">>,
               <<"stock", "warehouse">>>>
      [] workload = "tpcb" /\ Sql ->
             <<<<"pgbench_tellers", "pgbench_branches">>,
               <<"pgbench_accounts", "pgbench_branches">>,
               <<"pgbench_history", "pgbench_branches">>,
               <<"pgbench_history", "pgbench_tellers">>,
               <<"pgbench_history", "pgbench_accounts">>>>
      [] OTHER -> <<>>

\* TPC-DS declares no primary keys for the SQL drivers.
HasKeys == ~(workload = "tpcds" /\ Sql)

\* The workloads whose dialect file has create_procedures, and drops them.
HasProcedures == workload \in {"tpcb", "tpcc"} /\ Sql

\* BulkUpsert replaces the rows it finds.
Upserts == driverType = "ydb"

-----------------------------------------------------------------------------
(* The statements of a step.                                               *)

Do(op, tables) == [op |-> op, tables |-> tables]

Each(op, tables) == [n \in 1..Len(tables) |-> Do(op, <<tables[n]>>)]

DropProcedures == IF HasProcedures THEN <<Do("drop_procedures", <<>>)>> ELSE <<>>

\* Mutant: the procedures of an earlier run are not dropped.
DropTablesOnly ==
    IF workload = "tpcc" /\ driverType = "postgres" THEN <<Do("drop", DropOrder)>>
    ELSE Each("drop", DropOrder)

\* drop_schema: PostgreSQL drops TPC-C's tables in one statement.
DropSchema ==
    IF workload = "tpcc" /\ driverType = "postgres"
    THEN DropProcedures \o <<Do("drop", DropOrder)>>
    ELSE IF driverType = "mysql" THEN DropProcedures \o Each("drop", DropOrder)
    ELSE Each("drop", DropOrder) \o DropProcedures

\* create_schema; TPC-DS's for the SQL drivers drops each table it creates.
CreateSchema ==
    IF workload = "tpcds" /\ Sql
    THEN [n \in 1..(2 * Len(CreateOrder)) |->
             Do(IF n % 2 = 1 THEN "drop" ELSE "create", <<CreateOrder[(n + 1) \div 2]>>)]
    ELSE Each("create", CreateOrder)

\* stepFilterState.enabled.
Enabled(f, name) == /\ name \notin f.except
                    /\ f.only # {} => name \in f.only

\* What Setup executes of a step: Step skips one that the filter f leaves out.
Step(f, name, statements) == IF Enabled(f, name) THEN statements ELSE <<>>
When(condition, statements) == IF condition THEN statements ELSE <<>>

\* The steps, with no statements where the driver's SQL file has no such section; p is
\* the procs variant and u pg-unlogged.
Schema(f) == Step(f, "drop_schema", DropSchema) \o Step(f, "create_schema", CreateSchema)

Procedures(f, p) ==
    When(p /\ HasProcedures, Step(f, "create_procedures", <<Do("create_procedures", <<>>)>>))

\* set_unlogged and set_logged.
Logging(f, op, u) == When(u, Step(f, op, Each(op, CreateOrder)))

Load(i, f) == Step(f, "load_data", Each("insert", LoadOrder(i)))

Indexes(f) == Step(f, "create_indexes", Each("create_index", Indexed))

ForeignKeySteps(f) ==
    Step(f, "create_foreign_keys",
         [n \in 1..Len(ForeignKeys) |-> Do("add_foreign_key", ForeignKeys[n])])

Analyze(f) == When(Sql, Step(f, "analyze", Each("analyze", CreateOrder)))

TpccSteps(i, f, p, u) ==
    Schema(f) \o Procedures(f, p) \o Logging(f, "set_unlogged", u) \o Load(i, f)
        \o Indexes(f) \o Logging(f, "set_logged", u) \o ForeignKeySteps(f) \o Analyze(f)
        \o Step(f, "validate_population", <<Do("validate", <<>>)>>)

TpcbSteps(i, f, p) ==
    Schema(f) \o Procedures(f, p) \o Load(i, f) \o Indexes(f) \o ForeignKeySteps(f)
        \o Analyze(f)

\* Without validate_answers, whose queries' errors and differences are only logged.
TpchSteps(i, f, u) ==
    Schema(f) \o Logging(f, "set_unlogged", u) \o Load(i, f) \o Indexes(f)
        \o Logging(f, "set_logged", u) \o Analyze(f)

\* The same steps, and the same abstraction.
TpcdsSteps(i, f, u) ==
    Schema(f) \o Logging(f, "set_unlogged", u) \o Load(i, f) \o Indexes(f)
        \o Logging(f, "set_logged", u) \o Analyze(f)

SimpleSteps(i, f) == Schema(f) \o Load(i, f)

\* What Setup executes.
Script(i, f, p, u) ==
    CASE workload = "tpcc"  -> TpccSteps(i, f, p, u)
      [] workload = "tpcb"  -> TpcbSteps(i, f, p)
      [] workload = "tpch"  -> TpchSteps(i, f, u)
      [] workload = "tpcds" -> TpcdsSteps(i, f, u)
      [] workload = "simple" -> SimpleSteps(i, f)

-----------------------------------------------------------------------------
(* The database.                                                           *)

EmptyTable == [k \in {} |-> 0]

\* A table with rows added, or replaced.
Written(rows, table) ==
    [k \in DOMAIN rows \cup DOMAIN table |-> IF k \in DOMAIN rows THEN rows[k] ELSE table[k]]

OneRow(key, columns) == [k \in {key} |-> columns]

EmptyDatabase(tables) ==
    [exist |-> {}, rows |-> [t \in tables |-> EmptyTable], twice |-> {},
     unlogged |-> {}, indexed |-> {}, fks |-> {}, procs |-> FALSE]

\* The key of the parent row that row k of a child names.
ParentKey(fk, rows, k) ==
    CASE fk[2] = "item" -> <<k[2]>>
      [] workload = "tpcb" -> <<rows[k]>>
      [] OTHER -> <<k[1]>>

\* The rows of fk's child have their parents.
HasParents(fk, rows) ==
    \A k \in DOMAIN rows : ParentKey(fk, rows, k) \in DOMAIN db.rows[fk[2]]

Dropped(d, tables) ==
    [d EXCEPT !.exist = @ \ tables,
              !.rows = [t \in DOMAIN @ |-> IF t \in tables THEN EmptyTable ELSE @[t]],
              !.twice = @ \ tables,
              !.unlogged = @ \ tables,
              !.indexed = @ \ tables,
              !.fks = {fk \in @ : {fk[1], fk[2]} \cap tables = {}}]

\* A statement the database refuses for what it finds.  Drops are IF EXISTS; on
\* PostgreSQL they cascade, and procedures are created OR REPLACE.  A table cannot
\* be unlogged while a logged one references it.  ANALYZE meets no table it could miss
\* on PostgreSQL, where it names none, and MySQL answers with a row about one.
Refused(s) ==
    LET tables == ToSet(s.tables)
    IN  CASE s.op = "drop" ->
               /\ driverType = "mysql"
               /\ \E fk \in db.fks : fk[2] \in tables /\ fk[1] \notin tables
          [] s.op = "create" -> tables \cap db.exist # {}
          [] s.op = "drop_procedures" -> FALSE
          [] s.op = "create_procedures" -> driverType = "mysql" /\ db.procs
          [] s.op = "set_unlogged" ->
               \/ ~tables \subseteq db.exist
               \/ \E fk \in db.fks : fk[2] \in tables /\ fk[1] \notin db.unlogged \cup tables
          [] s.op = "set_logged" ->
               \/ ~tables \subseteq db.exist
               \/ \E fk \in db.fks : fk[1] \in tables /\ fk[2] \in db.unlogged \ tables
          [] s.op = "create_index" -> ~tables \subseteq db.exist \ db.indexed
          [] s.op = "add_foreign_key" ->
               \/ ~tables \subseteq db.exist
               \/ s.tables \in db.fks
               \/ ~HasParents(s.tables, db.rows[s.tables[1]])
          [] s.op = "analyze" -> FALSE

\* What a statement that is not refused does.
Effect(s) ==
    LET tables == ToSet(s.tables)
    IN  CASE s.op = "drop" -> Dropped(db, tables)
          [] s.op = "create" -> [db EXCEPT !.exist = @ \cup tables]
          [] s.op = "drop_procedures" -> [db EXCEPT !.procs = FALSE]
          [] s.op = "create_procedures" -> [db EXCEPT !.procs = TRUE]
          [] s.op = "set_unlogged" -> [db EXCEPT !.unlogged = @ \cup tables]
          [] s.op = "set_logged" -> [db EXCEPT !.unlogged = @ \ tables]
          [] s.op = "create_index" -> [db EXCEPT !.indexed = @ \cup tables]
          [] s.op = "add_foreign_key" -> [db EXCEPT !.fks = @ \cup {s.tables}]
          [] s.op = "analyze" -> db

-----------------------------------------------------------------------------
(* A command.                                                              *)

Idle(i) == phase[i] = "idle"
Running(i) == phase[i] = "setup" /\ todo[i] # <<>>

SetupInit ==
    /\ \E target \in Targets : workload = target[1] /\ driverType = target[2]
    /\ db = EmptyDatabase(Tables)
    /\ phase = [i \in Instances |-> "idle"]
    /\ filter = [i \in Instances |-> [only |-> {}, except |-> {}]]
    /\ todo = [i \in Instances |-> <<>>]
    /\ verdict = [i \in Instances |-> "none"]
    /\ hid = [i \in Instances |-> 0]
    /\ ran = [i \in Instances |-> 0]
    /\ began = 0
    /\ alone = [i \in Instances |-> TRUE]
    /\ restarted = FALSE

Enter(i, p) == phase' = [phase EXCEPT ![i] = p]
Fail(i, v) == verdict' = [verdict EXCEPT ![i] = v] /\ Enter(i, "teardown")

ProcsSupported == Sql

\* The first instance lays out the schema; an instance of a higher warehouse-start
\* runs only filters that leave the schema alone.
Admissible(i, f) ==
    WarehouseStart[i] = 1 \/ ~(Enabled(f, "drop_schema") \/ Enabled(f, "create_schema"))

\* The variants of a command: stored procedures, and unlogged tables on PostgreSQL.
Variants ==
    {v \in BOOLEAN \X BOOLEAN :
        /\ v[1] => workload \in {"tpcb", "tpcc"}
        /\ v[2] => driverType = "postgres" /\ workload \notin {"tpcb", "simple"}}

\* A command starts, in a new process: Setup lists its steps, or refuses the procs
\* variant for a driver without procedures.
StartCommand(i) ==
    /\ Idle(i)
    /\ began < MaxCommands
    /\ began' = began + 1
    /\ \E f \in Filters, v \in Variants :
          LET invalid == v[1] /\ ~ProcsSupported
          IN  /\ Admissible(i, f)
              /\ filter' = [filter EXCEPT ![i] = f]
              /\ todo' = [todo EXCEPT ![i] = IF invalid THEN <<>> ELSE Script(i, f, v[1], v[2])]
              /\ verdict' = [verdict EXCEPT ![i] = IF invalid THEN "invalid" ELSE "none"]
              /\ Enter(i, IF invalid THEN "teardown" ELSE "setup")
    /\ hid' = [hid EXCEPT ![i] = 0]
    /\ ran' = [ran EXCEPT ![i] = 0]
    /\ alone' = [j \in Instances |->
          IF j = i THEN \A k \in Instances : Idle(k) ELSE alone[j] /\ Idle(j)]
    /\ UNCHANGED <<workload, driverType, db, restarted>>

StepDone(i) == todo' = [todo EXCEPT ![i] = Tail(@)] /\ UNCHANGED <<phase, verdict>>
StepFails(i, v) == Fail(i, v) /\ todo' = [todo EXCEPT ![i] = <<>>]

\* runSection: one statement of a section; its error ends Setup.
ExecStatement(i) ==
    LET s == Head(todo[i])
    IN  /\ Running(i)
        /\ s.op \notin {"insert", "validate"}
        /\ IF Refused(s) THEN StepFails(i, "refused") /\ UNCHANGED db
                         ELSE StepDone(i) /\ db' = Effect(s)
        /\ UNCHANGED <<env, process, restarted>>

\* A statement's connection breaks, before or after it took effect.
StatementFails(i) ==
    LET s == Head(todo[i])
    IN  /\ Running(i)
        /\ s.op \notin {"insert", "validate"}
        /\ ~Refused(s)
        /\ StepFails(i, "fault")
        /\ db' \in {db, Effect(s)}
        /\ UNCHANGED <<env, process, restarted>>

\* The rows of worker c's chunk of table t.
Chunk(i, t, c) ==
    Rows(t, ChunkRows(TotalRows(t, ScaleFactor[i]), LoadWorkers, c), Start(i))

\* The database takes the rows: they are new, or replace their predecessors, and
\* they have parents.
Accepted(t, rows) ==
    /\ t \in db.exist
    /\ \/ Upserts
       \/ ~HasKeys
       \/ DOMAIN rows \cap DOMAIN db.rows[t] = {}
    /\ \A fk \in db.fks : fk[1] = t => HasParents(fk, rows)

\* The table after the chunks of the workers in C.
Stored(i, t, C) ==
    LET rows == Rows(t, UNION {ChunkRows(TotalRows(t, ScaleFactor[i]), LoadWorkers, c) :
                                   c \in C}, Start(i))
    IN  [db EXCEPT !.rows[t] = Written(rows, @),
                   !.twice = IF DOMAIN rows \cap DOMAIN db.rows[t] = {} \/ HasKeys
                             THEN @ ELSE @ \cup {t}]

\* Mutant: load_data goes on to the next table after an insert that failed.
GoesOn(i, v) == StepDone(i)

\* An insert's error ends load_data and Setup.
InsertFails(i, v) == StepFails(i, v)

\* Bench.Insert: the workers' chunks are stored, or some are and the insert fails.
InsertTable(i) ==
    LET t == Head(todo[i]).tables[1]
        chunks == Chunks(TotalRows(t, ScaleFactor[i]), LoadWorkers)
        accepted == {c \in chunks : Accepted(t, Chunk(i, t, c))}
    IN  /\ Running(i)
        /\ Head(todo[i]).op = "insert"
        /\ \/ /\ accepted = chunks
              /\ db' = Stored(i, t, chunks)
              /\ StepDone(i)
           \/ \E C \in SUBSET accepted :
                 /\ db' = IF C = {} THEN db ELSE Stored(i, t, C)
                 /\ InsertFails(i, IF accepted = chunks THEN "fault" ELSE "refused")
        /\ UNCHANGED <<env, process, restarted>>

\* validate_population: all checks pass, or Setup ends.
Validate(i) ==
    /\ Running(i)
    /\ Head(todo[i]).op = "validate"
    /\ \/ /\ ValidatePopulation(db.rows, WarehouseStart[i], ScaleFactor[i])
          /\ StepDone(i)
       \/ StepFails(i, "fault")
    /\ UNCHANGED <<env, db, process, restarted>>

SetupDone(i) ==
    /\ phase[i] = "setup" /\ todo[i] = <<>>
    /\ Enter(i, "measure")
    /\ UNCHANGED <<env, db, todo, verdict, process, restarted>>

-----------------------------------------------------------------------------
(* The measured phase.  An iteration is one transaction, all of it or      *)
(* nothing; only those of TPC-C and TPC-B write what is modelled.          *)

\* vuState: the ids a process gives to the history rows of its first VU.
HistoryId(i) == <<1, hid[i] + 1>>

\* The history row is refused when its id is taken, where YDB replaces the old one, or
\* when the rows that n names are not there.
HistoryTakes(i, n) ==
    /\ History \in db.exist
    /\ Upserts \/ HistoryId(i) \notin DOMAIN db.rows[History]
    /\ \A fk \in db.fks : fk[1] = History => HasParents(fk, OneRow(HistoryId(i), n))

WithHistory(i, rows, n) == [rows EXCEPT ![History] = Written(OneRow(HistoryId(i), n), @)]

\* payment: the warehouse's and the district's year to date, and a history row.
Paid(district) == [district EXCEPT !.ytd = @ + 1]

WithPayment(k, rows) ==
    [rows EXCEPT !["warehouse"][<<k[1]>>] = @ + 1, !["district"][k] = Paid(@)]

Payment(i, k) ==
    /\ hid' = [hid EXCEPT ![i] = @ + 1]
    /\ LET found == <<k[1]>> \in DOMAIN db.rows["warehouse"] /\ k \in DOMAIN db.rows["district"]
       IN  IF found /\ HistoryTakes(i, 0)
           THEN db' = [db EXCEPT !.rows = WithHistory(i, WithPayment(k, @), 0)]
           ELSE UNCHANGED db

\* new_order: the district's next order and its lines.
Numbered(district) == [district EXCEPT !.next = @ + 1]

WithOrder(k, rows) ==
    LET key == Append(k, rows["district"][k].next)
        lines == {Append(key, n) : n \in 1..OlCntFixed}
    IN  [rows EXCEPT !["district"][k] = Numbered(@),
                     !["orders"] = Written(OneRow(key, 1), @),
                     !["new_order"] = Written(OneRow(key, 0), @),
                     !["order_line"] = Written([l \in lines |-> 0], @)]

NewOrder(i, k) ==
    /\ IF k \in DOMAIN db.rows["district"] /\ {"orders", "new_order", "order_line"} \subseteq db.exist
       THEN db' = [db EXCEPT !.rows = WithOrder(k, @)]
       ELSE UNCHANGED db
    /\ UNCHANGED hid

\* delivery: the district's oldest new order goes.
WithDelivery(k, rows) ==
    LET new == rows["new_order"]
        oldest == Append(k, Min(Numbers(new, k)))
    IN  [rows EXCEPT !["new_order"] = [q \in DOMAIN new \ {oldest} |-> new[q]]]

Delivery(i, k) ==
    /\ IF Numbers(db.rows["new_order"], k) # {}
       THEN db' = [db EXCEPT !.rows = WithDelivery(k, @)]
       ELSE UNCHANGED db
    /\ UNCHANGED hid

\* TPC-B's transaction, as far as its history row: the balances are left out, and n
\* stands for the account, the teller and the branch it draws.
TpcbTransaction(i) ==
    /\ hid' = [hid EXCEPT ![i] = @ + 1]
    /\ \E n \in 1..ScaleFactor[i] :
          IF HistoryTakes(i, n) /\ <<n>> \in DOMAIN db.rows["pgbench_accounts"]
          THEN db' = [db EXCEPT !.rows = WithHistory(i, @, n)]
          ELSE UNCHANGED db

TpccTransaction(i) ==
    \E w \in WarehouseStart[i]..(WarehouseStart[i] + ScaleFactor[i] - 1),
       d \in 1..DistrictsPerWarehouse :
       Payment(i, <<w, d>>) \/ NewOrder(i, <<w, d>>) \/ Delivery(i, <<w, d>>)

\* The queries of TPC-H and TPC-DS.
ReadQueries(i) == UNCHANGED <<db, hid>>

\* simple counts the rows, and reads three.
ReadDemo(i) == UNCHANGED <<db, hid>>

\* Iterate, under the step "workload"; its errors are counted and end nothing.
Iterate(i) ==
    /\ phase[i] = "measure"
    /\ Enabled(filter[i], "workload")
    /\ ran[i] < MaxTransactions
    /\ ran' = [ran EXCEPT ![i] = @ + 1]
    /\ \/ workload = "tpcb" /\ TpcbTransaction(i)
       \/ workload = "tpcc" /\ TpccTransaction(i)
       \/ workload \in {"tpch", "tpcds"} /\ ReadQueries(i)
       \/ workload = "simple" /\ ReadDemo(i)
    /\ UNCHANGED <<env, phase, todo, verdict, filter, began, alone, restarted>>

EndMeasure(i) ==
    /\ phase[i] = "measure"
    /\ Enter(i, "teardown")
    /\ verdict' = [verdict EXCEPT ![i] = "ok"]
    /\ UNCHANGED <<env, db, todo, process, restarted>>

\* Teardown, which always runs: `simple` drops its table, whatever the filter.
TeardownWorkload(i) ==
    /\ phase[i] = "teardown"
    /\ Enter(i, "idle")
    /\ db' \in IF workload = "simple" THEN {db, Dropped(db, Tables)} ELSE {db}
    /\ UNCHANGED <<env, todo, verdict, process, restarted>>

\* PostgreSQL comes back from a crash with its unlogged tables empty.  The pool may
\* replace its connections between two statements, so that no command notices.
RestartServer ==
    /\ driverType = "postgres" /\ ~restarted /\ db.unlogged # {}
    /\ restarted' = TRUE
    /\ db' = [db EXCEPT !.rows = [t \in DOMAIN @ |->
                   IF t \in db.unlogged THEN EmptyTable ELSE @[t]]]
    /\ alone' = [i \in Instances |-> alone[i] /\ Idle(i)]
    /\ UNCHANGED <<env, phase, todo, verdict, filter, hid, ran, began>>

Instance(i) == \/ StartCommand(i) \/ ExecStatement(i) \/ StatementFails(i)
               \/ InsertTable(i) \/ Validate(i) \/ SetupDone(i)
               \/ Iterate(i) \/ EndMeasure(i) \/ TeardownWorkload(i)

NoMoreCommands == (\A i \in Instances : Idle(i)) /\ began = MaxCommands /\ UNCHANGED setupVars

SetupNext == (\E i \in Instances : Instance(i)) \/ RestartServer \/ NoMoreCommands

SetupSpec == SetupInit /\ [][SetupNext]_setupVars

-----------------------------------------------------------------------------
(* Properties.                                                             *)

\* The rows of table t that instance i loads are there, as a fresh load leaves them.
LoadedWhole(i, t) ==
    LET whole == Whole(t, Start(i), ScaleFactor[i])
        rows == IF t \in TpccSliced
                THEN Slice(db.rows[t], WarehouseStart[i], ScaleFactor[i])
                ELSE db.rows[t]
    IN  t \notin db.twice /\ rows = whole

\* Whatever earlier commands left behind, failed half-way or used by a run, a command
\* that drops and creates the schema meets nothing the database refuses, unless
\* another command overlapped it or the server lost rows under it.
RepairsDatabase ==
    \A i \in Instances :
        verdict[i] = "refused" /\ alone[i] =>
            ~(Enabled(filter[i], "drop_schema") /\ Enabled(filter[i], "create_schema"))

\* A command that drops, creates and loads the tables measures the whole of its data,
\* each row once, unless another command overlapped it or the server lost rows
\* meanwhile, and all of it durable unless its filter leaves the tables unlogged.
MeasuresWholeData ==
    \A i \in Instances :
        /\ phase[i] = "measure" /\ ran[i] = 0 /\ alone[i]
        /\ \A s \in {"drop_schema", "create_schema", "load_data"} : Enabled(filter[i], s)
        => /\ \A t \in ToSet(LoadOrder(i)) : LoadedWhole(i, t)
           /\ Enabled(filter[i], "set_logged") => db.unlogged = {}

\* A district's orders name each of its customers once.
EachCustomerOrders(i) ==
    \A k \in DOMAIN Slice(db.rows["district"], WarehouseStart[i], ScaleFactor[i]) :
        {db.rows["orders"][Append(k, o)] : o \in Numbers(db.rows["orders"], k)}
            = 1..CustomersPerDistrict

\* validate_population accepts only a slice exactly as a fresh load leaves it: not one
\* that a crash of the server emptied, a load left in part or a run has used.
ValidatedIsWhole ==
    [][\A i \in Instances :
          /\ Running(i) /\ Head(todo[i]).op = "validate" /\ todo'[i] = Tail(todo[i])
          /\ verdict'[i] = "none"
          => /\ \A t \in TpccSliced \cup {"item"} : LoadedWhole(i, t)
             /\ EachCustomerOrders(i)]_setupVars

=============================================================================
