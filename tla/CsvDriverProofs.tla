-------------------------- MODULE CsvDriverProofs --------------------------
(***************************************************************************)
(* The csv driver proved for any number of tables, rows, workers, inserts  *)
(* and processes: a table loaded once and well is complete in the files    *)
(* Teardown leaves, whatever earlier processes left in the directory, and  *)
(* the manifest claims no row the files do not hold, but for one source    *)
(* more with every load of the table after the first without a drop.       *)
(***************************************************************************)
EXTENDS CsvDriver, SplitChunksProofs, FiniteSetTheorems

-----------------------------------------------------------------------------
(* The inductive invariant. *)

Pairs == (1..MaxInserts) \X Rows
Contents == {Absent} \cup SUBSET Pairs

\* Every variable keeps its range.
TypeOK ==
    /\ cfg \in [header : BOOLEAN, merge : BOOLEAN]
    /\ shard \in [Tables -> [Shards -> Contents]]
    /\ merged \in [Tables -> Contents]
    /\ headed \subseteq Tables
    /\ resolved \in BOOLEAN
    /\ DOMAIN tables \subseteq Tables
    /\ \A t \in DOMAIN tables : tables[t] \in [shards : Nat, rows : Nat]
    /\ call \in {"none", "insert", "merge", "sidecars", "manifest"}
    /\ answer \in {"none", "ok", "error", "torn down"}
    /\ table \in Tables \cup {Absent}
    /\ workers \in 0..MaxWorkers
    /\ worker \in [Shards -> {"create", "drain", "record", "done", "failed"}]
    /\ written \in [Shards -> Nat]
    /\ todo \subseteq Tables
    /\ inserts \in 0..MaxInserts
    /\ dropped \in BOOLEAN
    /\ loads \in [Tables -> Nat]
    /\ damaged \subseteq Tables
    /\ torn \in BOOLEAN
    /\ spoiled \in BOOLEAN

\* A worker of a load writes the rows of its chunk.
Worker(w) ==
    /\ worker[w] # "done" => w \in Chunks(Total, workers)
    /\ worker[w] = "create" => written[w] = 0
    /\ worker[w] = "drain" => written[w] <= ChunkLength(w)
    /\ worker[w] = "record" => written[w] = ChunkLength(w)

\* A load runs on at least one worker, and its workers stand only in an Insert.
Calls ==
    /\ call = "insert" => /\ table \in Tables /\ workers > 0 /\ inserts > 0
                          /\ \A w \in Shards : Worker(w)
    /\ call # "insert" => table = Absent /\ \A w \in Shards : worker[w] = "done"
    /\ call = "insert" => loads[table] > 0
    /\ call = "insert" /\ torn => spoiled
    /\ call \in {"merge", "sidecars", "manifest"} \/ TornDown => torn
    /\ call = "merge" => cfg.merge /\ ShardDirExists
    /\ call = "sidecars" => ~cfg.merge
    /\ call \in {"merge", "sidecars"} => todo \subseteq DOMAIN tables
    /\ ~cfg.merge /\ ~cfg.header => headed = {}

\* A table that was not loaded is not recorded, and after a drop that worked has no shard.
Untouched ==
    ~spoiled => \A t \in Tables : loads[t] = 0 =>
        /\ t \notin DOMAIN tables
        /\ dropped => \A w \in Shards : shard[t][w] = Absent

\* Where worker w of the load in progress stands, and what its shard holds.
Finished(w) ==
    /\ worker[w] \in {"record", "done"} => shard[table][w] = AllFlushed(w)
    /\ worker[w] = "failed" => table \in damaged

\* The same for the first load of a table since the drop, which finds no shard of it.
Working(w) ==
    IF w \in Chunks(Total, workers)
    THEN shard[table][w] = Absent \/ shard[table][w] \subseteq AllFlushed(w)
    ELSE shard[table][w] = Absent

Done == {w \in Chunks(Total, workers) : worker[w] = "done"}
Flushed == UNION {AllFlushed(w) : w \in Done}

\* What the loads of table t before the last one can have recorded at most.
Earlier(t) == (loads[t] - 1) * Total

First(t) == dropped /\ loads[t] = 1

HasShard(t) == \E w \in Shards : shard[t][w] # Absent

\* A load while it runs: the rows recorded are those of the workers that are done, on top
\* of what earlier loads recorded.
Loading ==
    ~spoiled /\ call = "insert" =>
        /\ \A w \in Chunks(Total, workers) : Finished(w)
        /\ table \in DOMAIN tables => HasShard(table)
        /\ Recorded(table).rows <= Cardinality(Flushed) + Earlier(table)
        /\ Done # {} => table \in DOMAIN tables
        /\ First(table) => /\ \A w \in Shards : Working(w)
                           /\ Recorded(table).rows = Cardinality(Flushed)

\* The rows S of a file cover what is recorded of t, but for what loads before the last one
\* recorded; a single load that did not fail recorded all.
Holds(t, S) ==
    /\ IsFiniteSet(S)
    /\ tables[t].rows <= Cardinality(S) + Earlier(t)
    /\ LoadedOnce(t) => tables[t].rows = Total /\ Cardinality(S) = Total

MergedWell(t) ==
    merged[t] # Absent /\ Holds(t, merged[t]) /\ (cfg.header <=> t \in headed)

InShards(t) == HasShard(t) /\ Holds(t, ShardRows(t))
InMerged(t) == torn /\ cfg.merge /\ ~ShardDirExists /\ MergedWell(t)

\* The last load of a table, once it has ended: its rows are in the shards until Teardown
\* has removed them, and in the merged file from then on.
Ended(t) == ~spoiled /\ loads[t] > 0 /\ t # table
Stored ==
    \A t \in Tables : Ended(t) =>
        /\ LoadedOnce(t) => t \in DOMAIN tables
        /\ t \in DOMAIN tables => tables[t].rows <= loads[t] * Total
        /\ t \in DOMAIN tables => InShards(t) \/ InMerged(t)

\* How far Teardown got: the tables it visited are merged or have their header, and with
\* the shards gone nothing is left to merge.
Torn ==
    /\ call = "merge" =>
           \A t \in DOMAIN tables \ todo : Ended(t) => MergedWell(t)
    /\ call = "sidecars" /\ cfg.header => DOMAIN tables \ todo \subseteq headed
    /\ call = "manifest" \/ TornDown =>
           /\ ~cfg.merge /\ cfg.header => DOMAIN tables \subseteq headed
           /\ ~spoiled /\ cfg.merge => ~ShardDirExists
    /\ TornDown => manifest = [t \in DOMAIN tables |-> tables[t].rows]

IInv ==
    /\ TypeOK
    /\ Calls
    /\ Untouched
    /\ Loading
    /\ Stored
    /\ Torn

-----------------------------------------------------------------------------
(* What a worker writes. *)

LEMMA Sizes ==
    Total \in Nat /\ MaxWorkers \in Nat \ {0} /\ MaxInserts \in Nat /\ Absent \notin Tables
  BY CsvAssumption

\* The chunks of a load have a shard each, and start and end within the source.
LEMMA ChunkFacts ==
    ASSUME NEW n \in 1..MaxWorkers, NEW w \in Chunks(Total, n)
    PROVE  /\ w \in Shards
           /\ ChunkStart(Total, n, w) \in Nat /\ ChunkEnd(Total, n, w) \in Nat
           /\ ChunkStart(Total, n, w) <= ChunkEnd(Total, n, w)
           /\ ChunkEnd(Total, n, w) <= Total
<1> DEFINE m == NumChunks(Total, n)
           b == Base(Total, n)
<1>1. m \in Nat \ {0} /\ b \in Nat /\ m * b <= Total /\ w \in 0..(m - 1)
  BY Sizes, ChunkSizes DEF Chunks
<1>2. m <= n
  BY Sizes DEF NumChunks
<1> HIDE DEF m, b
<1>3. w * b \in Nat /\ w * b + b <= m * b /\ w * b <= m * b
  <2>1. 0 * b <= w * b /\ (w + 1) * b <= m * b /\ w * b <= m * b /\ w * b \in Int
    BY <1>1, ProductGrows
  <2>2. (w + 1) * b = w * b + b
    BY <1>1
  <2> QED
    BY <1>1, <2>1, <2>2
<1>4. m * b \in Int
  BY <1>1
<1>5. ChunkStart(Total, n, w) = w * b
  BY DEF ChunkStart, b
<1>6. ChunkEnd(Total, n, w) = IF w = m - 1 THEN Total ELSE w * b + b
  BY DEF ChunkEnd, ChunkStart, b, m
<1>7. w \in Shards
  BY <1>1, <1>2, Sizes DEF Shards
<1> QED
  BY <1>1, <1>3, <1>4, <1>5, <1>6, <1>7, Sizes

\* There is a worker even for an empty source.
LEMMA FirstChunk ==
    ASSUME NEW n \in 1..MaxWorkers
    PROVE  0 \in Chunks(Total, n)
<1>1. n \in Int /\ Total \in Nat
  BY Sizes
<1>2. NumChunks(Total, n) \in Nat \ {0}
  BY <1>1, ChunkSizes
<1> QED
  BY <1>2 DEF Chunks

\* The rows a worker has written are pairs of this load.
LEMMA FirstRowsInside ==
    ASSUME workers \in 1..MaxWorkers, inserts \in 1..MaxInserts,
           NEW w \in Chunks(Total, workers), NEW n \in 0..ChunkLength(w)
    PROVE  FirstRows(w, n) \subseteq {inserts} \X Rows /\ FirstRows(w, n) \in SUBSET Pairs
<1>1. ChunkStart(Total, workers, w) \in Nat /\ ChunkEnd(Total, workers, w) \in Nat
      /\ ChunkEnd(Total, workers, w) <= Total
  BY ChunkFacts
<1>2. n <= ChunkEnd(Total, workers, w) - ChunkStart(Total, workers, w)
  BY <1>1 DEF ChunkLength
<1>3. ASSUME NEW k \in 0..(n - 1)
      PROVE  ChunkStart(Total, workers, w) + k \in Rows
  BY <1>1, <1>2, Sizes DEF Rows, ChunkLength
<1> QED
  BY <1>3 DEF FirstRows, RowOf, Pairs

\* Less is written earlier.
LEMMA FirstRowsGrow ==
    ASSUME workers \in 1..MaxWorkers,
           NEW w \in Chunks(Total, workers), NEW n \in 0..ChunkLength(w)
    PROVE  FirstRows(w, n) \subseteq AllFlushed(w)
<1>1. ChunkLength(w) \in Nat
  BY ChunkFacts DEF ChunkLength
<1> QED
  BY <1>1 DEF FirstRows, AllFlushed

\* A whole shard holds the rows of the chunk.
LEMMA WholeShard ==
    ASSUME workers \in 1..MaxWorkers, inserts \in 1..MaxInserts,
           NEW w \in Chunks(Total, workers)
    PROVE  /\ ChunkLength(w) \in Nat
           /\ AllFlushed(w) = {inserts} \X ChunkRows(Total, workers, w)
           /\ AllFlushed(w) \in SUBSET Pairs
           /\ IsFiniteSet(AllFlushed(w))
           /\ Cardinality(AllFlushed(w)) = ChunkLength(w)
<1> DEFINE s == ChunkStart(Total, workers, w)
           e == ChunkEnd(Total, workers, w)
<1>1. s \in Nat /\ e \in Nat /\ s <= e
  BY ChunkFacts
<1>2. ChunkLength(w) = e - s /\ ChunkRows(Total, workers, w) = s..(e - 1)
  BY DEF ChunkLength, ChunkRows
<1>3. AllFlushed(w) = {<<inserts, s + k>> : k \in 0..(e - s - 1)}
  BY <1>2 DEF AllFlushed, FirstRows, RowOf
<1> HIDE DEF s, e
<1>4. AllFlushed(w) = {inserts} \X (s..(e - 1))
  <2>1. ASSUME NEW r \in s..(e - 1)
        PROVE  r - s \in 0..(e - s - 1) /\ r = s + (r - s)
    BY <1>1
  <2>2. ASSUME NEW k \in 0..(e - s - 1)
        PROVE  s + k \in s..(e - 1)
    BY <1>1
  <2>3. AllFlushed(w) \subseteq {inserts} \X (s..(e - 1))
    BY <1>3, <2>2
  <2>4. ASSUME NEW r \in s..(e - 1)
        PROVE  <<inserts, r>> \in AllFlushed(w)
    BY <1>3, <2>1
  <2> QED
    BY <2>3, <2>4
<1>5. IsFiniteSet(s..(e - 1)) /\ Cardinality(s..(e - 1)) = e - s
  <2>1. s \in Int /\ e - 1 \in Int /\ (IF s > e - 1 THEN 0 ELSE (e - 1) - s + 1) = e - s
    BY <1>1
  <2>2. /\ IsFiniteSet(s..(e - 1))
        /\ Cardinality(s..(e - 1)) = IF s > e - 1 THEN 0 ELSE (e - 1) - s + 1
    BY <2>1, FS_Interval
  <2> QED
    BY <2>1, <2>2
<1>6. IsFiniteSet({inserts}) /\ Cardinality({inserts}) = 1
  BY FS_Singleton
<1>7. IsFiniteSet(AllFlushed(w)) /\ Cardinality(AllFlushed(w)) = 1 * (e - s)
  BY <1>4, <1>5, <1>6, FS_Product
<1>8. AllFlushed(w) \in SUBSET Pairs
  <2>1. ChunkLength(w) \in 0..ChunkLength(w)
    BY <1>1, <1>2
  <2> QED
    BY <2>1, FirstRowsInside DEF AllFlushed
<1> QED
  BY <1>1, <1>2, <1>4, <1>7, <1>8

\* The shards of two workers share no row, and all together hold the source.
LEMMA ShardsPartition ==
    ASSUME workers \in 1..MaxWorkers, inserts \in 1..MaxInserts
    PROVE  /\ \A v, w \in Chunks(Total, workers) :
                  v # w => AllFlushed(v) \cap AllFlushed(w) = {}
           /\ UNION {AllFlushed(w) : w \in Chunks(Total, workers)} = {inserts} \X Rows
           /\ IsFiniteSet({inserts} \X Rows) /\ Cardinality({inserts} \X Rows) = Total
<1>1. \A w \in Chunks(Total, workers) :
          AllFlushed(w) = {inserts} \X ChunkRows(Total, workers, w)
  BY WholeShard
<1>2. ASSUME NEW v \in Chunks(Total, workers), NEW w \in Chunks(Total, workers), v # w
      PROVE  ChunkRows(Total, workers, v) \cap ChunkRows(Total, workers, w) = {}
  <2>1. v \in Int /\ w \in Int
    BY ChunkFacts DEF Shards
  <2>2. v < w \/ w < v
    BY <1>2, <2>1
  <2> QED
    BY <2>2, ChunksDisjoint, Sizes
<1>3. \A w \in Chunks(Total, workers) : ChunkRows(Total, workers, w) \subseteq Rows
  BY ChunksInside, Sizes DEF Rows
<1>4. \A r \in Rows : \E w \in Chunks(Total, workers) : r \in ChunkRows(Total, workers, w)
  BY ChunksCover, Sizes DEF Rows
<1>5. UNION {AllFlushed(w) : w \in Chunks(Total, workers)} = {inserts} \X Rows
  <2>1. UNION {AllFlushed(w) : w \in Chunks(Total, workers)} \subseteq {inserts} \X Rows
    BY <1>1, <1>3
  <2>2. ASSUME NEW p \in {inserts} \X Rows
        PROVE  p \in UNION {AllFlushed(w) : w \in Chunks(Total, workers)}
    <3>1. PICK w \in Chunks(Total, workers) : p[2] \in ChunkRows(Total, workers, w)
      BY <1>4
    <3>2. p \in AllFlushed(w)
      BY <1>1, <3>1
    <3> QED
      BY <3>2
  <2> QED
    BY <2>1, <2>2
<1>6. IsFiniteSet(Rows) /\ Cardinality(Rows) = Total
  BY FS_Interval, Sizes DEF Rows
<1>7. IsFiniteSet({inserts}) /\ Cardinality({inserts}) = 1
  BY FS_Singleton
<1>8. IsFiniteSet({inserts} \X Rows) /\ Cardinality({inserts} \X Rows) = 1 * Total
  BY <1>6, <1>7, FS_Product
<1>9. \A v, w \in Chunks(Total, workers) : v # w => AllFlushed(v) \cap AllFlushed(w) = {}
  BY <1>1, <1>2
<1> QED
  BY <1>5, <1>8, <1>9, Sizes

\* A file that exists is a set of pairs, and every set of pairs is a file that exists.
LEMMA FilesExist == \A S \in SUBSET Pairs : S # Absent
  BY CsvAssumption DEF Pairs, Rows

\* What the loads before the last one recorded, as their number grows.
LEMMA EarlierGrows ==
    ASSUME NEW n \in Nat
    PROVE  n * Total \in Nat /\ ((n + 1) - 1) * Total = n * Total
           /\ (n > 0 => (n - 1) * Total \in Nat /\ n * Total = (n - 1) * Total + Total)
<1>1. Total \in Nat /\ (n + 1) - 1 = n
  BY Sizes
<1>2. n * Total \in Nat
  BY <1>1
<1>3. ASSUME n > 0
      PROVE  (n - 1) * Total \in Nat /\ n * Total = (n - 1) * Total + Total
  <2>1. PICK m \in Nat : n = m + 1
    BY <1>3
  <2>2. n - 1 = m /\ m * Total \in Nat /\ (m + 1) * Total = m * Total + Total
    BY <1>1, <2>1
  <2> QED
    BY <2>1, <2>2
<1> QED
  BY <1>1, <1>2, <1>3

\* What the merge concatenates are pairs, of which there are finitely many.
LEMMA ConcatenatedPairs ==
    ASSUME TypeOK, NEW t \in Tables
    PROVE  /\ ShardRows(t) \in SUBSET Pairs
           /\ IsFiniteSet(ShardRows(t)) /\ Cardinality(ShardRows(t)) \in Nat
<1>1. ASSUME NEW w \in Shards, shard[t][w] # Absent
      PROVE  shard[t][w] \in SUBSET Pairs
  <2>1. shard \in [Tables -> [Shards -> Contents]]
    BY DEF TypeOK
  <2>2. shard[t][w] \in Contents
    BY <2>1
  <2> QED
    BY <1>1, <2>2 DEF Contents
<1>2. ASSUME NEW p \in ShardRows(t)
      PROVE  p \in Pairs
  <2>1. PICK w \in Shards : shard[t][w] # Absent /\ p \in shard[t][w]
    BY DEF ShardRows
  <2> QED
    BY <1>1, <2>1
<1>3. IsFiniteSet(Pairs)
  <2>1. IsFiniteSet(1..MaxInserts) /\ IsFiniteSet(Rows)
    BY FS_Interval, Sizes DEF Rows
  <2> QED
    BY <2>1, FS_Product DEF Pairs
<1>4. IsFiniteSet(ShardRows(t))
  BY <1>2, <1>3, FS_Subset
<1> QED
  BY <1>2, <1>4, FS_CardinalityType

-----------------------------------------------------------------------------
(* The steps by what they touch. *)

\* A call that changes nothing but how it is answered.
Quiet == AcceptDDL \/ RejectQuery \/ RefuseMethod

\* A worker of the load takes a step.
Step(w) ==
    CreateShard(w) \/ WriteRow(w) \/ CloseShard(w) \/ AbandonShard(w) \/ RecordShards(w)

LEMMA Cases ==
    ASSUME [Next]_vars
    PROVE  \/ Quiet \/ UNCHANGED vars \/ WipeWorkloadDir \/ StartInsert \/ EndInsert
           \/ call = "insert" /\ \E w \in Shards : Step(w)
           \/ StartTeardown \/ MergeTable \/ RemoveShards \/ EmitHeaderSidecars
           \/ WriteManifest \/ Restart
  BY DEF Next, Insert, Teardown, Step, Quiet

\* What a quiet call leaves alone.
LEMMA QuietFrame ==
    ASSUME Quiet
    PROVE  /\ call = "none" /\ call' = "none" /\ answer' \in {"ok", "error"}
           /\ UNCHANGED <<cfg, shard, merged, headed, manifest, process, resolved, tables, table,
                          workers, worker, written, todo, inserts, dropped, loads, damaged,
                          torn, spoiled>>
  BY DEF Quiet, AcceptDDL, RejectQuery, RefuseMethod, Return, files, driver, inserting, history

\* What every step of a worker leaves alone.
LEMMA StepFrame ==
    ASSUME NEW w \in Shards, Step(w)
    PROVE  /\ UNCHANGED <<cfg, merged, headed, manifest, process, call, answer, table,
                          workers, todo, inserts, dropped, loads, torn, spoiled>>
           /\ worker[w] \notin {"done", "failed"}
  BY DEF Step, InInsert, CreateShard, WriteRow, CloseShard, AbandonShard, RecordShards

\* A worker's step writes its own shard, its own place and its own count, and what it
\* records is its table's.
LEMMA StepEffect ==
    ASSUME TypeOK, Calls, call = "insert", NEW w \in Shards, Step(w)
    PROVE  /\ w \in Chunks(Total, workers) /\ table \in Tables
           /\ workers \in 1..MaxWorkers /\ inserts \in 1..MaxInserts
           /\ ChunkLength(w) \in Nat
           /\ \E file \in Contents : shard' = [shard EXCEPT ![table][w] = file]
           /\ \E place \in {"drain", "record", "done", "failed"} :
                  worker' = [worker EXCEPT ![w] = place]
           /\ \E n \in Nat : written' = [written EXCEPT ![w] = n]
           /\ damaged \subseteq damaged' /\ damaged' \subseteq damaged \cup {table}
           /\ resolved' \in {TRUE, resolved}
           /\ \/ UNCHANGED tables
              \/ /\ DOMAIN tables' = DOMAIN tables \cup {table}
                 /\ \A t \in DOMAIN tables' :
                        tables'[t] = IF t = table THEN Count(Recorded(t), written[w]) ELSE tables[t]
<1>1. w \in Chunks(Total, workers) /\ table \in Tables
      /\ workers \in 1..MaxWorkers /\ inserts \in 1..MaxInserts
      /\ (worker[w] = "drain" => written[w] <= ChunkLength(w))
  <2>1. /\ table \in Tables /\ workers > 0 /\ inserts > 0
        /\ \A v \in Shards : Worker(v)
    BY DEF Calls
  <2>2. workers \in 0..MaxWorkers /\ inserts \in 0..MaxInserts
    BY DEF TypeOK
  <2>3. workers \in 1..MaxWorkers /\ inserts \in 1..MaxInserts
    BY <2>1, <2>2, Sizes
  <2>4. w \in Chunks(Total, workers) /\ (worker[w] = "drain" => written[w] <= ChunkLength(w))
    BY <2>1, StepFrame DEF Worker
  <2> QED
    BY <2>1, <2>3, <2>4
<1>2. ChunkLength(w) \in Nat /\ AllFlushed(w) \in SUBSET Pairs
  BY <1>1, WholeShard
<1>3. /\ shard \in [Tables -> [Shards -> Contents]]
      /\ worker \in [Shards -> {"create", "drain", "record", "done", "failed"}]
      /\ written \in [Shards -> Nat]
  BY DEF TypeOK
<1>4. shard = [shard EXCEPT ![table][w] = shard[table][w]] /\ shard[table][w] \in Contents
  BY <1>1, <1>3
<1>5. written = [written EXCEPT ![w] = written[w]] /\ written[w] \in Nat
  BY <1>3
<1>6. CASE CreateShard(w)
  <2>1. {} \in Contents
    BY DEF Contents
  <2>2. \E file \in Contents : shard' = [shard EXCEPT ![table][w] = file]
    BY <1>4, <1>6, <2>1 DEF CreateShard, Create
  <2> QED
    BY <1>1, <1>2, <1>5, <1>6, <2>2 DEF CreateShard
<1>7. CASE WriteRow(w)
  <2>1. worker = [worker EXCEPT ![w] = "drain"] /\ written[w] + 1 \in Nat
    BY <1>3, <1>7 DEF WriteRow
  <2>2. written' = [written EXCEPT ![w] = written[w] + 1] /\ UNCHANGED <<shard, worker>>
        /\ UNCHANGED <<resolved, tables, damaged>>
    BY <1>7 DEF WriteRow, driver
  <2> QED
    BY <1>1, <1>2, <1>4, <2>1, <2>2
<1>8. CASE CloseShard(w)
  <2>1. AllFlushed(w) \in Contents
    BY <1>2 DEF Contents
  <2> QED
    BY <1>1, <1>2, <1>5, <1>8, <2>1 DEF CloseShard, driver
<1>9. CASE AbandonShard(w)
  <2>1. PICK n \in 0..written[w] : shard' = [shard EXCEPT ![table][w] = FirstRows(w, n)]
    BY <1>9 DEF AbandonShard
  <2>2. n \in 0..ChunkLength(w)
    BY <1>1, <1>2, <1>5, <1>9 DEF AbandonShard
  <2>3. FirstRows(w, n) \in Contents
    BY <1>1, <2>2, FirstRowsInside DEF Contents
  <2> QED
    BY <1>1, <1>2, <1>5, <1>9, <2>1, <2>3 DEF AbandonShard, driver
<1>10. CASE RecordShards(w)
  BY <1>1, <1>2, <1>4, <1>5, <1>10 DEF RecordShards
<1> QED
  BY <1>6, <1>7, <1>8, <1>9, <1>10 DEF Step

-----------------------------------------------------------------------------
(* Types. *)

LEMMA TypeStep ==
    ASSUME TypeOK, Calls, [Next]_vars
    PROVE  TypeOK'
<1>1. shard \in [Tables -> [Shards -> Contents]] /\ merged \in [Tables -> Contents]
  BY DEF TypeOK
<1>2. ShardsRemoved \in [Tables -> [Shards -> Contents]]
  BY DEF ShardsRemoved, Contents
<1>3. {} \in Contents /\ Absent \in Contents
  BY DEF Contents
<1>4. CASE Quiet \/ UNCHANGED vars
  BY <1>4 DEF TypeOK, Quiet, AcceptDDL, RejectQuery, RefuseMethod, Return, vars, files, driver,
              inserting, history
<1>5. CASE WipeWorkloadDir
  <2>1. shard' \in [Tables -> [Shards -> Contents]]
    BY <1>1, <1>2, <1>5 DEF WipeWorkloadDir
  <2>2. merged' \in [Tables -> Contents]
    BY <1>1, <1>3, <1>5 DEF WipeWorkloadDir
  <2>3. /\ DOMAIN tables' \subseteq Tables
        /\ \A t \in DOMAIN tables' : tables'[t] \in [shards : Nat, rows : Nat]
    <3>1. tables' = Unrecorded \/ tables' = tables
      BY <1>5 DEF WipeWorkloadDir, Forget
    <3> QED
      BY <3>1 DEF TypeOK, Unrecorded
  <2>4. headed' \subseteq Tables /\ spoiled' \in BOOLEAN
    BY <1>5 DEF WipeWorkloadDir, TypeOK
  <2> QED
    <3>1. /\ resolved' = TRUE /\ call' = "none" /\ answer' \in {"ok", "error"}
          /\ UNCHANGED <<cfg, table, workers, worker, written, todo, inserts>>
      BY <1>5 DEF WipeWorkloadDir, Return, inserting
    <3>2. loads' = [t \in Tables |-> 0] \/ loads' = loads
      BY <1>5 DEF WipeWorkloadDir
    <3>3. dropped' \in {TRUE, dropped} /\ torn' \in {FALSE, torn} /\ damaged' \in {{}, damaged}
      BY <1>5 DEF WipeWorkloadDir
    <3> QED
      <4>1. loads' \in [Tables -> Nat]
        <5>1. loads \in [Tables -> Nat]
          BY DEF TypeOK
        <5> QED
          BY <3>2, <5>1
      <4>2. dropped' \in BOOLEAN /\ torn' \in BOOLEAN /\ resolved' \in BOOLEAN
        BY <3>1, <3>3 DEF TypeOK
      <4>3. damaged' \subseteq Tables
        BY <3>3 DEF TypeOK
      <4> QED
        BY <2>1, <2>2, <2>3, <2>4, <3>1, <4>1, <4>2, <4>3 DEF TypeOK
<1>6. CASE StartInsert
  <2>1. PICK t \in Tables, n \in 1..MaxWorkers :
             /\ table' = t
             /\ workers' = n
             /\ worker' = [w \in Shards |-> IF w \in Chunks(Total, n) THEN "create" ELSE "done"]
             /\ loads' = [loads EXCEPT ![t] = @ + 1]
    BY <1>6 DEF StartInsert
  <2>2. loads' \in [Tables -> Nat] /\ workers' \in 0..MaxWorkers
    <3>1. loads \in [Tables -> Nat]
      BY DEF TypeOK
    <3>2. loads' = [loads EXCEPT ![t] = loads[t] + 1]
      BY <2>1
    <3>3. loads[t] + 1 \in Nat
      BY <3>1
    <3> QED
      BY <2>1, <3>1, <3>2, <3>3, Sizes
  <2>3. inserts' \in 0..MaxInserts /\ written' \in [Shards -> Nat]
    <3>1. inserts \in 0..MaxInserts /\ inserts < MaxInserts
      BY <1>6 DEF TypeOK, StartInsert
    <3>2. inserts' = inserts + 1 /\ written' = [w \in Shards |-> 0]
      BY <1>6 DEF StartInsert
    <3> QED
      BY <3>1, <3>2, Sizes
  <2>4. worker' \in [Shards -> {"create", "drain", "record", "done", "failed"}]
    BY <2>1
  <2> QED
    BY <1>6, <2>1, <2>2, <2>3, <2>4 DEF TypeOK, StartInsert, files, driver
<1>7. CASE EndInsert
  <2>1. worker' \in [Shards -> {"create", "drain", "record", "done", "failed"}]
        /\ written' \in [Shards -> Nat] /\ workers' \in 0..MaxWorkers
    BY <1>7, Sizes DEF EndInsert
  <2> QED
    BY <1>7, <2>1 DEF TypeOK, EndInsert, Return, files, driver, history
<1>8. CASE call = "insert" /\ \E w \in Shards : Step(w)
  <2>1. PICK w \in Shards : Step(w)
    BY <1>8
  <2>2. shard' \in [Tables -> [Shards -> Contents]]
    <3>1. PICK file \in Contents : shard' = [shard EXCEPT ![table][w] = file]
      BY <1>8, <2>1, StepEffect
    <3> QED
      BY <1>1, <3>1
  <2>3. worker' \in [Shards -> {"create", "drain", "record", "done", "failed"}]
    <3>1. PICK place \in {"drain", "record", "done", "failed"} :
              worker' = [worker EXCEPT ![w] = place]
      BY <1>8, <2>1, StepEffect
    <3> QED
      BY <3>1 DEF TypeOK
  <2>4. written' \in [Shards -> Nat]
    <3>1. PICK n \in Nat : written' = [written EXCEPT ![w] = n]
      BY <1>8, <2>1, StepEffect
    <3> QED
      BY <3>1 DEF TypeOK
  <2>5. /\ DOMAIN tables' \subseteq Tables
        /\ \A t \in DOMAIN tables' : tables'[t] \in [shards : Nat, rows : Nat]
    <3>1. table \in Tables
      BY <1>8, <2>1, StepEffect
    <3>2. Count(Recorded(table), written[w]) \in [shards : Nat, rows : Nat]
      <4>1. written[w] \in Nat
        BY DEF TypeOK
      <4>2. Recorded(table) \in [shards : Nat, rows : Nat]
        BY DEF TypeOK, Recorded
      <4> QED
        BY <4>1, <4>2 DEF Count
    <3>3. CASE UNCHANGED tables
      BY <3>3 DEF TypeOK
    <3>4. CASE /\ DOMAIN tables' = DOMAIN tables \cup {table}
               /\ \A t \in DOMAIN tables' :
                      tables'[t] = IF t = table THEN Count(Recorded(t), written[w]) ELSE tables[t]
      BY <3>1, <3>2, <3>4 DEF TypeOK
    <3> QED
      BY <1>8, <2>1, <3>3, <3>4, StepEffect
  <2>6. damaged' \subseteq Tables /\ resolved' \in BOOLEAN
    BY <1>8, <2>1, StepEffect DEF TypeOK
  <2>7. UNCHANGED <<cfg, merged, headed, call, answer, table, workers, todo, inserts, dropped,
                    loads, torn, spoiled>>
    BY <2>1, StepFrame
  <2> QED
    BY <2>2, <2>3, <2>4, <2>5, <2>6, <2>7 DEF TypeOK
<1>9. CASE StartTeardown
  BY <1>9 DEF TypeOK, StartTeardown, InTeardown, Return, files, driver, inserting
<1>10. CASE MergeTable
  <2>1. merged' \in [Tables -> Contents]
    <3>1. PICK t \in todo :
            \/ merged' = [merged EXCEPT ![t] = ShardRows(t)]
            \/ \E part \in {{}, shard[t][0]} \ {Absent} : merged' = [merged EXCEPT ![t] = part]
      BY <1>10 DEF MergeTable, Concatenated
    <3>2. t \in Tables
      BY DEF TypeOK
    <3>3. 0 \in Shards
      BY Sizes DEF Shards
    <3>4. ShardRows(t) \in Contents /\ shard[t][0] \in Contents
      BY <1>1, <3>2, <3>3, ConcatenatedPairs DEF Contents
    <3> QED
      BY <1>1, <1>3, <3>1, <3>4
  <2>2. headed' \subseteq Tables
    BY <1>10 DEF MergeTable, TypeOK
  <2> QED
    BY <1>10, <2>1, <2>2 DEF TypeOK, MergeTable, InTeardown, Return, driver, inserting
<1>11. CASE RemoveShards
  <2>1. shard' \in [Tables -> [Shards -> Contents]]
    <3>1. \/ shard' = ShardsRemoved
          \/ \E t \in Tables, w \in Shards : shard' = [shard EXCEPT ![t][w] = Absent]
      BY <1>11 DEF RemoveShards
    <3> QED
      <4>1. CASE shard' = ShardsRemoved
        BY <1>2, <4>1
      <4>2. ASSUME NEW t \in Tables, NEW w \in Shards,
                   shard' = [shard EXCEPT ![t][w] = Absent]
            PROVE  shard' \in [Tables -> [Shards -> Contents]]
        BY <1>1, <1>3, <4>2
      <4> QED
        BY <3>1, <4>1, <4>2
  <2> QED
    BY <1>11, <2>1 DEF TypeOK, RemoveShards, InTeardown, Return, driver, inserting
<1>12. CASE EmitHeaderSidecars
  <2>1. headed' \subseteq Tables /\ todo' \subseteq Tables
    <3>1. headed \subseteq Tables /\ todo \subseteq Tables
      BY DEF TypeOK
    <3>2. \/ UNCHANGED <<headed, todo>>
          \/ \E t \in todo : headed' = headed \cup {t} /\ todo' = todo \ {t}
      BY <1>12 DEF EmitHeaderSidecars
    <3> QED
      BY <3>1, <3>2
  <2> QED
    BY <1>12, <2>1 DEF TypeOK, EmitHeaderSidecars, InTeardown, Return, driver, inserting
<1>13. CASE WriteManifest
  BY <1>13 DEF TypeOK, WriteManifest, InTeardown, Return, driver, inserting
<1>14. CASE Restart
  <2>1. shard' \in [Tables -> [Shards -> Contents]]
    <3>1. PICK n \in 0..Total :
         shard' = [t \in Tables |-> [w \in Shards |->
                     IF t = table /\ worker[w] = "drain" /\ n <= written[w]
                     THEN FirstRows(w, n) ELSE shard[t][w]]]
      BY <1>14 DEF Restart
    <3>2. ASSUME NEW w \in Shards, worker[w] = "drain", n <= written[w]
          PROVE  FirstRows(w, n) \in Contents
      <4>1. call = "insert"
        BY <3>2 DEF Calls, TypeOK
      <4>2. /\ workers > 0 /\ inserts > 0
            /\ Worker(w)
        BY <4>1 DEF Calls
      <4>3. workers \in 0..MaxWorkers /\ inserts \in 0..MaxInserts /\ written[w] \in Nat
        BY DEF TypeOK
      <4>4. workers \in 1..MaxWorkers /\ inserts \in 1..MaxInserts
        BY <4>2, <4>3, Sizes
      <4>5. w \in Chunks(Total, workers) /\ written[w] <= ChunkLength(w)
        BY <3>2, <4>2 DEF Worker
      <4>6. ChunkLength(w) \in Nat
        BY <4>4, <4>5, WholeShard
      <4>7. n \in 0..ChunkLength(w)
        BY <3>2, <4>3, <4>5, <4>6
      <4> QED
        BY <4>4, <4>5, <4>7, FirstRowsInside DEF Contents
    <3> QED
      BY <1>1, <3>1, <3>2
  <2>2. worker' \in [Shards -> {"create", "drain", "record", "done", "failed"}]
        /\ written' \in [Shards -> Nat] /\ workers' \in 0..MaxWorkers /\ loads' \in [Tables -> Nat]
    BY <1>14, Sizes DEF Restart
  <2>3. DOMAIN tables' = {}
    BY <1>14 DEF Restart, Unrecorded
  <2> QED
    BY <1>14, <2>1, <2>2, <2>3 DEF TypeOK, Restart
<1> QED
  BY <1>4, <1>5, <1>6, <1>7, <1>8, <1>9, <1>10, <1>11, <1>12, <1>13, <1>14, Cases

-----------------------------------------------------------------------------
(* Calls. *)

\* A worker's own step keeps it within its chunk.
LEMMA WorkerStep ==
    ASSUME TypeOK, Calls, call = "insert", NEW w \in Shards, Step(w)
    PROVE  \A v \in Shards : Worker(v)'
<1>1. \A v \in Shards : Worker(v)
  BY DEF Calls
<1>2. worker \in [Shards -> {"create", "drain", "record", "done", "failed"}]
      /\ written \in [Shards -> Nat]
  BY DEF TypeOK
<1>3. UNCHANGED workers
  BY StepFrame
<1>4. w \in Chunks(Total, workers) /\ ChunkLength(w) \in Nat
  BY StepEffect
<1>5. ASSUME NEW v \in Shards
      PROVE  Worker(v)'
  <2>1. UNCHANGED ChunkLength(v)
    BY <1>3 DEF ChunkLength
  <2>2. CASE v # w
    <3>1. worker'[v] = worker[v] /\ written'[v] = written[v]
      BY <1>2, <2>2, StepEffect
    <3> QED
      BY <1>1, <1>3, <2>1, <3>1 DEF Worker
  <2>3. CASE v = w
    <3>1. CASE CreateShard(w)
      <4>1. worker'[w] \in {"drain", "failed"} /\ written'[w] = written[w]
        BY <1>2, <3>1 DEF CreateShard
      <4>2. written[w] = 0
        BY <1>1, <3>1 DEF Worker, CreateShard
      <4> QED
        BY <1>3, <1>4, <2>1, <2>3, <4>1, <4>2 DEF Worker
    <3>2. CASE WriteRow(w)
      <4>1. worker'[w] = "drain" /\ written'[w] = written[w] + 1 /\ written[w] < ChunkLength(w)
        BY <1>2, <3>2 DEF WriteRow
      <4>2. written[w] + 1 <= ChunkLength(w)
        BY <1>2, <1>4, <4>1
      <4> QED
        BY <1>3, <1>4, <2>1, <2>3, <4>1, <4>2 DEF Worker
    <3>3. CASE CloseShard(w)
      <4>1. worker'[w] = "record" /\ written'[w] = ChunkLength(w)
        BY <1>2, <3>3 DEF CloseShard
      <4> QED
        BY <1>3, <1>4, <2>1, <2>3, <4>1 DEF Worker
    <3>4. CASE AbandonShard(w)
      <4>1. worker'[w] = "failed"
        BY <1>2, <3>4 DEF AbandonShard
      <4> QED
        BY <1>3, <1>4, <2>1, <2>3, <4>1 DEF Worker
    <3>5. CASE RecordShards(w)
      <4>1. worker'[w] = "done"
        BY <1>2, <3>5 DEF RecordShards
      <4> QED
        BY <1>3, <1>4, <2>1, <2>3, <4>1 DEF Worker
    <3> QED
      BY <3>1, <3>2, <3>3, <3>4, <3>5 DEF Step
  <2> QED
    BY <2>2, <2>3
<1> QED
  BY <1>5

LEMMA CallsStep ==
    ASSUME TypeOK, Calls, [Next]_vars
    PROVE  Calls'
<1>1. CASE UNCHANGED vars
  BY <1>1 DEF Calls, Worker, ChunkLength, TornDown, ShardDirExists, vars, files, driver, inserting,
              history
<1>2. CASE Quiet
  <2>1. /\ call = "none" /\ call' = "none" /\ answer' # "torn down"
        /\ UNCHANGED <<cfg, headed, resolved, table, worker, dropped>>
    BY <1>2, QuietFrame
  <2> QED
    BY <2>1 DEF Calls, TornDown
<1>3. CASE WipeWorkloadDir
  BY <1>3 DEF Calls, TornDown, WipeWorkloadDir, Return, inserting
<1>4. CASE StartInsert
  <2>1. PICK t \in Tables, n \in 1..MaxWorkers :
             /\ table' = t
             /\ workers' = n
             /\ worker' = [w \in Shards |-> IF w \in Chunks(Total, n) THEN "create" ELSE "done"]
             /\ loads' = [loads EXCEPT ![t] = @ + 1]
    BY <1>4 DEF StartInsert
  <2>2. \A w \in Shards : Worker(w)'
    <3>1. written' = [w \in Shards |-> 0]
      BY <1>4 DEF StartInsert
    <3> QED
      BY <2>1, <3>1 DEF Worker
  <2>3. workers' > 0 /\ inserts' > 0
    <3>1. inserts \in 0..MaxInserts /\ inserts' = inserts + 1
      BY <1>4 DEF StartInsert, TypeOK
    <3> QED
      BY <2>1, <3>1, Sizes
  <2>4. loads'[t] > 0
    <3>1. loads \in [Tables -> Nat]
      BY DEF TypeOK
    <3>2. loads'[t] = loads[t] + 1 /\ loads[t] \in Nat
      BY <2>1, <3>1
    <3> QED
      BY <3>2
  <2>5. /\ call' = "insert" /\ answer' = "none" /\ spoiled' = (spoiled \/ torn)
        /\ UNCHANGED <<cfg, headed, resolved, dropped, torn>>
    BY <1>4 DEF StartInsert, files, driver
  <2> QED
    BY <2>1, <2>2, <2>3, <2>4, <2>5 DEF Calls, TornDown
<1>5. CASE EndInsert
  <2>1. \A w \in Shards : worker'[w] = "done"
    BY <1>5 DEF EndInsert
  <2> QED
    BY <1>5, <2>1 DEF Calls, TornDown, EndInsert, Return, files, driver, history
<1>6. CASE call = "insert" /\ \E w \in Shards : Step(w)
  <2>1. PICK w \in Shards : Step(w)
    BY <1>6
  <2>2. \A v \in Shards : Worker(v)'
    BY <1>6, <2>1, WorkerStep
  <2>3. UNCHANGED <<cfg, headed, call, answer, table, workers, inserts, dropped, loads, torn, spoiled>>
    BY <2>1, StepFrame
  <2>4. resolved => resolved'
    BY <1>6, <2>1, StepEffect
  <2> QED
    BY <1>6, <2>2, <2>3, <2>4 DEF Calls, TornDown
<1>7. CASE StartTeardown
  BY <1>7 DEF Calls, TornDown, ShardDirExists, StartTeardown, InTeardown, Return, files, driver,
              inserting
<1>8. CASE MergeTable
  <2>1. ~(~cfg.merge /\ ~cfg.header)
    BY <1>8 DEF Calls, MergeTable
  <2>2. /\ UNCHANGED <<cfg, shard, resolved, tables, table, worker, dropped, torn>>
        /\ call = "merge" /\ call' \in {"merge", "none"} /\ todo' \subseteq todo
        /\ call' = "none" => answer' = "error"
    BY <1>8 DEF MergeTable, InTeardown, Return, driver, inserting
  <2>3. UNCHANGED ShardDirExists
    BY <2>2 DEF ShardDirExists
  <2> QED
    BY <2>1, <2>2, <2>3 DEF Calls, TornDown
<1>9. CASE RemoveShards
  BY <1>9 DEF Calls, TornDown, RemoveShards, InTeardown, Return, driver, inserting
<1>10. CASE EmitHeaderSidecars
  <2>1. /\ UNCHANGED <<cfg, resolved, tables, table, worker, dropped, torn>>
        /\ call = "sidecars" /\ call' \in {"sidecars", "manifest", "none"} /\ todo' \subseteq todo
        /\ call' = "none" => answer' = "error"
        /\ ~cfg.header => headed' = headed
    BY <1>10 DEF EmitHeaderSidecars, InTeardown, Return, driver, inserting
  <2> QED
    BY <2>1 DEF Calls, TornDown
<1>11. CASE WriteManifest
  BY <1>11 DEF Calls, TornDown, WriteManifest, InTeardown, Return, driver, inserting
<1>12. CASE Restart
  BY <1>12 DEF Calls, TornDown, Restart
<1> QED
  BY <1>1, <1>2, <1>3, <1>4, <1>5, <1>6, <1>7, <1>8, <1>9, <1>10, <1>11, <1>12, Cases

-----------------------------------------------------------------------------
(* Tables that were not loaded since the drop. *)

LEMMA UntouchedStep ==
    ASSUME TypeOK, Calls, Untouched, [Next]_vars
    PROVE  Untouched'
<1>1. CASE UNCHANGED vars
  BY <1>1 DEF Untouched, vars, files, driver, history
<1>2. CASE Quiet
  BY <1>2, QuietFrame DEF Untouched
<1>3. CASE WipeWorkloadDir
  <2>1. CASE spoiled' = TRUE
    BY <2>1 DEF Untouched
  <2>2. CASE shard' = ShardsRemoved /\ tables' = Unrecorded
    BY <2>2 DEF Untouched, ShardsRemoved, Unrecorded
  <2> QED
    BY <1>3, <2>1, <2>2 DEF WipeWorkloadDir, Forget
<1>4. CASE StartInsert
  <2>1. /\ ~spoiled' => ~spoiled
        /\ UNCHANGED <<shard, tables, dropped>>
    BY <1>4 DEF StartInsert, files, driver
  <2>2. ASSUME NEW t \in Tables, loads'[t] = 0
        PROVE  loads[t] = 0
    <3>1. loads \in [Tables -> Nat]
      BY DEF TypeOK
    <3>2. PICK u \in Tables : loads' = [loads EXCEPT ![u] = loads[u] + 1]
      BY <1>4 DEF StartInsert
    <3> QED
      BY <2>2, <3>1, <3>2
  <2> QED
    BY <2>1, <2>2 DEF Untouched
<1>5. CASE EndInsert
  BY <1>5 DEF Untouched, EndInsert, files, driver, history
<1>6. CASE call = "insert" /\ \E w \in Shards : Step(w)
  <2>1. PICK w \in Shards : Step(w)
    BY <1>6
  <2>2. UNCHANGED <<call, table, dropped, loads, spoiled>>
    BY <2>1, StepFrame
  <2>3. ASSUME NEW t \in Tables, loads[t] = 0
        PROVE  t # table
    BY <1>6, <2>3 DEF Calls
  <2>4. ASSUME NEW t \in Tables, t # table
        PROVE  shard'[t] = shard[t] /\ (t \in DOMAIN tables' <=> t \in DOMAIN tables)
    <3>1. shard \in [Tables -> [Shards -> Contents]]
      BY DEF TypeOK
    <3>2. shard'[t] = shard[t]
      BY <1>6, <2>1, <2>4, <3>1, StepEffect
    <3>3. t \in DOMAIN tables' <=> t \in DOMAIN tables
      BY <1>6, <2>1, <2>4, StepEffect
    <3> QED
      BY <3>2, <3>3
  <2> QED
    BY <2>2, <2>3, <2>4 DEF Untouched
<1>7. CASE StartTeardown \/ MergeTable \/ EmitHeaderSidecars \/ WriteManifest
  BY <1>7 DEF Untouched, StartTeardown, MergeTable, EmitHeaderSidecars, WriteManifest,
              InTeardown, files, driver
<1>8. CASE RemoveShards
  <2>1. UNCHANGED <<tables, loads, dropped>>
    BY <1>8 DEF RemoveShards, InTeardown, driver
  <2>2. CASE shard' = ShardsRemoved /\ UNCHANGED spoiled
    BY <2>1, <2>2 DEF Untouched, ShardsRemoved
  <2>3. CASE spoiled' = TRUE
    BY <2>1, <2>3 DEF Untouched
  <2> QED
    BY <1>8, <2>2, <2>3 DEF RemoveShards
<1>9. CASE Restart
  BY <1>9 DEF Untouched, Restart, Unrecorded
<1> QED
  BY <1>1, <1>2, <1>3, <1>4, <1>5, <1>6, <1>7, <1>8, <1>9, Cases

-----------------------------------------------------------------------------
(* The load in progress. *)

\* What the workers that are done have flushed are rows of this load.
LEMMA FlushedFinite ==
    ASSUME workers \in 1..MaxWorkers, inserts \in 1..MaxInserts
    PROVE  /\ Flushed \subseteq {inserts} \X Rows
           /\ IsFiniteSet(Flushed) /\ Cardinality(Flushed) \in Nat
           /\ \A w \in Chunks(Total, workers) : w \notin Done => Flushed \cap AllFlushed(w) = {}
<1>1. Flushed \subseteq {inserts} \X Rows
  BY ShardsPartition DEF Flushed, Done
<1>2. IsFiniteSet(Flushed)
  BY <1>1, ShardsPartition, FS_Subset
<1>3. Cardinality(Flushed) \in Nat
  BY <1>2, FS_CardinalityType
<1>4. ASSUME NEW w \in Chunks(Total, workers), w \notin Done
      PROVE  Flushed \cap AllFlushed(w) = {}
  <2>1. \A v \in Done : AllFlushed(v) \cap AllFlushed(w) = {}
    BY <1>4, ShardsPartition DEF Done
  <2> QED
    BY <2>1 DEF Flushed
<1> QED
  BY <1>1, <1>2, <1>3, <1>4

\* When a load begins, all that is recorded of its table is of earlier loads; the first one
\* since a drop finds no shard.
LEMMA LoadingBegins ==
    ASSUME TypeOK, Calls, Untouched, Stored, StartInsert
    PROVE  Loading'
<1>1. PICK t \in Tables, n \in 1..MaxWorkers :
         /\ table' = t
         /\ workers' = n
         /\ worker' = [w \in Shards |-> IF w \in Chunks(Total, n) THEN "create" ELSE "done"]
         /\ loads' = [loads EXCEPT ![t] = @ + 1]
  BY DEF StartInsert
<1>2. UNCHANGED <<shard, tables, dropped>> /\ spoiled' = (spoiled \/ torn) /\ call = "none"
  BY DEF StartInsert, files, driver
<1> SUFFICES ASSUME ~spoiled'
             PROVE  /\ \A w \in Chunks(Total, workers') : Finished(w)'
                    /\ table' \in DOMAIN tables' => HasShard(table)'
                    /\ Recorded(table)'.rows <= Cardinality(Flushed') + Earlier(table)'
                    /\ Done' # {} => table' \in DOMAIN tables'
                    /\ First(table)' => /\ \A w \in Shards : Working(w)'
                                        /\ Recorded(table)'.rows = Cardinality(Flushed')
  BY <1>1 DEF Loading
<1>3. ~spoiled /\ ~torn
  BY <1>2
<1>4. loads[t] \in Nat /\ loads'[t] = loads[t] + 1
  <2>1. loads \in [Tables -> Nat]
    BY DEF TypeOK
  <2>2. loads' = [loads EXCEPT ![t] = loads[t] + 1]
    BY <1>1
  <2> QED
    BY <2>1, <2>2
<1>5. loads[t] = 0 => t \notin DOMAIN tables
  BY <1>3 DEF Untouched
<1>6. ASSUME t \in DOMAIN tables
      PROVE  HasShard(t) /\ tables[t].rows <= loads[t] * Total
  <2>1. t # table
    BY <1>2, Sizes DEF Calls
  <2>2. loads[t] > 0
    BY <1>4, <1>5, <1>6
  <2>3. Ended(t)
    BY <1>3, <2>1, <2>2 DEF Ended
  <2>4. tables[t].rows <= loads[t] * Total /\ (InShards(t) \/ InMerged(t))
    BY <1>6, <2>3 DEF Stored
  <2> QED
    BY <1>3, <2>4 DEF InShards, InMerged
<1>7. \A w \in Chunks(Total, n) : w \in Shards /\ worker'[w] = "create"
  BY <1>1, ChunkFacts
<1>8. \A w \in Chunks(Total, workers') : Finished(w)'
  BY <1>1, <1>7 DEF Finished
<1>9. t \in DOMAIN tables' => HasShard(t)'
  BY <1>2, <1>6 DEF HasShard
<1>10. Done' = {}
  BY <1>1, <1>7 DEF Done
<1>11. Flushed' = {}
  BY <1>10 DEF Flushed
<1>12. Cardinality(Flushed') = 0
  BY <1>11, FS_EmptySet
<1>13. Recorded(table)' = Recorded(t)
  BY <1>1, <1>2 DEF Recorded
<1>14. Earlier(table)' = loads[t] * Total /\ loads[t] * Total \in Nat
  <2>1. Earlier(table)' = (loads'[t] - 1) * Total
    BY <1>1 DEF Earlier
  <2>2. /\ loads[t] * Total \in Nat
        /\ ((loads[t] + 1) - 1) * Total = loads[t] * Total
    BY <1>4, EarlierGrows
  <2> QED
    BY <1>4, <2>1, <2>2
<1>15. Recorded(t).rows <= loads[t] * Total
  BY <1>6, <1>14 DEF Recorded
<1>16. Recorded(t).rows \in Nat
  BY DEF Recorded, TypeOK
<1>17. ASSUME First(table)'
       PROVE  /\ \A w \in Shards : Working(w)'
              /\ Recorded(table)'.rows = Cardinality(Flushed')
  <2>1. loads[t] = 0 /\ dropped
    BY <1>1, <1>2, <1>4, <1>17 DEF First
  <2>2. t \notin DOMAIN tables /\ \A w \in Shards : shard[t][w] = Absent
    BY <1>3, <2>1 DEF Untouched
  <2>3. \A w \in Shards : Working(w)'
    BY <1>1, <1>2, <2>2 DEF Working
  <2>4. Recorded(t).rows = 0
    BY <2>2 DEF Recorded
  <2> QED
    BY <1>12, <1>13, <2>3, <2>4
<1>18. Recorded(table)'.rows <= Cardinality(Flushed') + Earlier(table)'
  BY <1>12, <1>13, <1>14, <1>15, <1>16
<1> QED
  BY <1>1, <1>8, <1>9, <1>10, <1>17, <1>18

\* A worker records what its shard holds, after its shard holds it.
LEMMA LoadingGoesOn ==
    ASSUME TypeOK, Calls, Loading, call = "insert", NEW w \in Shards, Step(w)
    PROVE  Loading'
<1>1. UNCHANGED <<call, table, workers, inserts, dropped, loads, spoiled>>
      /\ worker[w] \notin {"done", "failed"}
  BY StepFrame
<1> SUFFICES ASSUME ~spoiled
             PROVE  /\ \A v \in Chunks(Total, workers) : Finished(v)'
                    /\ table \in DOMAIN tables' => HasShard(table)'
                    /\ Recorded(table)'.rows <= Cardinality(Flushed') + Earlier(table)
                    /\ Done' # {} => table \in DOMAIN tables'
                    /\ First(table) => /\ \A v \in Shards : Working(v)'
                                       /\ Recorded(table)'.rows = Cardinality(Flushed')
  BY <1>1 DEF Loading, Earlier, First
<1>2. /\ \A v \in Chunks(Total, workers) : Finished(v)
      /\ table \in DOMAIN tables => HasShard(table)
      /\ Recorded(table).rows <= Cardinality(Flushed) + Earlier(table)
      /\ Done # {} => table \in DOMAIN tables
      /\ First(table) => /\ \A v \in Shards : Working(v)
                         /\ Recorded(table).rows = Cardinality(Flushed)
  BY DEF Loading
<1>3. workers \in 1..MaxWorkers /\ inserts \in 1..MaxInserts /\ table \in Tables
      /\ w \in Chunks(Total, workers) /\ ChunkLength(w) \in Nat
      /\ damaged \subseteq damaged'
  BY StepEffect
<1>4. shard \in [Tables -> [Shards -> Contents]]
      /\ worker \in [Shards -> {"create", "drain", "record", "done", "failed"}]
  BY DEF TypeOK
<1>5. \A v \in Shards : UNCHANGED AllFlushed(v)
  BY <1>1 DEF AllFlushed, FirstRows, RowOf, ChunkLength
<1>6. Worker(w)
  BY DEF Calls
<1>7. \/ worker'[w] = "drain" /\ shard'[table][w] = {}
      \/ /\ worker'[w] = "failed" /\ table \in damaged'
         /\ shard'[table][w] = shard[table][w] \/ shard'[table][w] \in SUBSET AllFlushed(w)
      \/ worker'[w] = "drain" /\ shard'[table][w] = shard[table][w]
      \/ worker'[w] = "record" /\ shard'[table][w] = AllFlushed(w)
      \/ /\ worker[w] = "record" /\ worker'[w] = "done"
         /\ shard'[table][w] = shard[table][w]
  <2>1. CASE CreateShard(w)
    BY <1>3, <1>4, <2>1 DEF CreateShard, Create
  <2>2. CASE WriteRow(w)
    BY <2>2 DEF WriteRow
  <2>3. CASE CloseShard(w)
    BY <1>3, <1>4, <2>3 DEF CloseShard
  <2>4. CASE AbandonShard(w)
    <3>1. PICK n \in 0..written[w] : shard' = [shard EXCEPT ![table][w] = FirstRows(w, n)]
      BY <2>4 DEF AbandonShard
    <3>2. n \in 0..ChunkLength(w)
      <4>1. written[w] <= ChunkLength(w) /\ written[w] \in Nat
        BY <1>6, <2>4 DEF Worker, AbandonShard, TypeOK
      <4> QED
        BY <1>3, <3>1, <4>1
    <3>3. shard'[table][w] \in SUBSET AllFlushed(w)
      BY <1>3, <1>4, <3>1, <3>2, FirstRowsGrow
    <3>4. worker'[w] = "failed" /\ table \in damaged'
      BY <1>4, <2>4 DEF AbandonShard
    <3> QED
      BY <3>3, <3>4
  <2>5. CASE RecordShards(w)
    BY <1>4, <2>5 DEF RecordShards
  <2> QED
    BY <2>1, <2>2, <2>3, <2>4, <2>5 DEF Step
<1>8. \A v \in Shards \ {w} : worker'[v] = worker[v] /\ shard'[table][v] = shard[table][v]
  <2>1. PICK file \in Contents : shard' = [shard EXCEPT ![table][w] = file]
    BY StepEffect
  <2>2. PICK place \in {"drain", "record", "done", "failed"} :
            worker' = [worker EXCEPT ![w] = place]
    BY StepEffect
  <2> QED
    BY <1>3, <1>4, <2>1, <2>2
<1>9. Chunks(Total, workers) \subseteq Shards
  BY <1>3, ChunkFacts
<1>10. ASSUME NEW v \in Chunks(Total, workers)
       PROVE  Finished(v)'
  <2>1. CASE v # w
    BY <1>1, <1>2, <1>3, <1>5, <1>8, <1>9, <2>1 DEF Finished
  <2>2. CASE v = w
    BY <1>1, <1>2, <1>3, <1>5, <1>7, <1>9, <2>2 DEF Finished
  <2> QED
    BY <2>1, <2>2
<1>11. ASSUME First(table), NEW v \in Shards
       PROVE  Working(v)'
  <2>1. CASE v # w
    BY <1>1, <1>2, <1>5, <1>8, <1>11, <2>1 DEF Working
  <2>2. CASE v = w
    BY <1>1, <1>2, <1>3, <1>5, <1>7, <1>11, <2>2 DEF Working
  <2> QED
    BY <2>1, <2>2
<1>12. shard[table][w] # Absent => shard'[table][w] # Absent
  <2>1. {} # Absent /\ \A S \in SUBSET AllFlushed(w) : S # Absent
    <3>1. AllFlushed(w) \in SUBSET Pairs
      BY <1>3, WholeShard
    <3> QED
      BY <3>1, FilesExist
  <2> QED
    BY <1>7, <2>1
<1>13. HasShard(table) => HasShard(table)'
  BY <1>1, <1>8, <1>12 DEF HasShard
<1>14. Earlier(table) \in Nat
  <2>1. loads[table] \in Nat /\ loads[table] > 0
    BY <1>3 DEF TypeOK, Calls
  <2> QED
    BY <2>1, EarlierGrows DEF Earlier
<1>15. CASE RecordShards(w)
  <2>1. /\ worker[w] = "record" /\ worker'[w] = "done"
        /\ tables' = [t \in DOMAIN tables \cup {table} |->
                         IF t = table THEN Count(Recorded(t), written[w]) ELSE tables[t]]
    BY <1>4, <1>15 DEF RecordShards
  <2>2. Done' = Done \cup {w} /\ w \notin Done
    BY <1>1, <1>3, <1>8, <1>9, <2>1 DEF Done
  <2>3. Flushed' = Flushed \cup AllFlushed(w)
    <3>1. \A v \in Done' : AllFlushed(v)' = AllFlushed(v)
      BY <1>1, <1>5, <1>9 DEF Done
    <3>2. Flushed' = UNION {AllFlushed(v) : v \in Done \cup {w}}
      BY <2>2, <3>1 DEF Flushed
    <3> QED
      BY <3>2 DEF Flushed
  <2>4. Cardinality(Flushed') = Cardinality(Flushed) + ChunkLength(w)
    <3>1. IsFiniteSet(Flushed) /\ Cardinality(Flushed) \in Nat /\ Flushed \cap AllFlushed(w) = {}
      BY <1>3, <2>2, FlushedFinite
    <3>2. IsFiniteSet(AllFlushed(w)) /\ Cardinality(AllFlushed(w)) = ChunkLength(w)
      BY <1>3, WholeShard
    <3>3. Cardinality(Flushed \cup AllFlushed(w)) =
             Cardinality(Flushed) + Cardinality(AllFlushed(w)) - Cardinality(Flushed \cap AllFlushed(w))
      BY <3>1, <3>2, FS_Union
    <3>4. Cardinality({}) = 0
      BY FS_EmptySet
    <3> QED
      <4>1. Cardinality(Flushed \cap AllFlushed(w)) = 0
        BY <3>1, <3>4
      <4>2. Cardinality(Flushed \cup AllFlushed(w)) = Cardinality(Flushed) + ChunkLength(w) - 0
        BY <3>2, <3>3, <4>1
      <4> QED
        BY <1>3, <2>3, <3>1, <4>2
  <2>5. Recorded(table)'.rows = Recorded(table).rows + ChunkLength(w)
    <3>1. written[w] = ChunkLength(w)
      BY <1>6, <2>1 DEF Worker
    <3>2. Recorded(table)' = Count(Recorded(table), written[w])
      BY <1>1, <2>1 DEF Recorded
    <3> QED
      BY <3>1, <3>2 DEF Count
  <2>6. table \in DOMAIN tables'
    BY <2>1
  <2>7. HasShard(table)'
    <3>1. shard[table][w] = AllFlushed(w) /\ AllFlushed(w) \in SUBSET Pairs
      BY <1>2, <1>3, <2>1, WholeShard DEF Finished
    <3>2. shard[table][w] # Absent
      BY <3>1, FilesExist
    <3> QED
      BY <1>1, <1>12, <3>2 DEF HasShard
  <2>8. Recorded(table)'.rows <= Cardinality(Flushed') + Earlier(table)
    <3>1. Cardinality(Flushed) \in Nat
      BY <1>3, FlushedFinite
    <3>2. Recorded(table).rows \in Nat
      BY DEF Recorded, TypeOK
    <3>3. Earlier(table) \in Nat
      BY <1>14
    <3> QED
      BY <1>2, <1>3, <2>4, <2>5, <3>1, <3>2, <3>3
  <2> QED
    BY <1>2, <1>10, <1>11, <2>2, <2>4, <2>5, <2>6, <2>7, <2>8
<1>16. CASE ~RecordShards(w)
  <2>1. UNCHANGED tables /\ worker'[w] # "done"
    BY <1>4, <1>16 DEF Step, CreateShard, WriteRow, CloseShard, AbandonShard, driver
  <2>2. Done' = Done
    BY <1>1, <1>3, <1>8, <1>9, <2>1 DEF Done
  <2>3. Flushed' = Flushed
    <3>1. \A v \in Done : AllFlushed(v)' = AllFlushed(v)
      BY <1>5, <1>9 DEF Done
    <3> QED
      BY <2>2, <3>1 DEF Flushed
  <2>4. Recorded(table)' = Recorded(table)
    BY <1>1, <2>1 DEF Recorded
  <2> QED
    BY <1>2, <1>10, <1>11, <1>13, <2>1, <2>2, <2>3, <2>4
<1> QED
  BY <1>15, <1>16

LEMMA LoadingStep ==
    ASSUME TypeOK, Calls, Untouched, Stored, Loading, [Next]_vars
    PROVE  Loading'
<1>1. CASE UNCHANGED vars
  BY <1>1 DEF Loading, Finished, Working, HasShard, Earlier, First, Done, Flushed, AllFlushed,
     FirstRows, RowOf, ChunkLength, Recorded, vars, files, driver, inserting, history
<1>2. CASE \/ Quiet \/ WipeWorkloadDir \/ EndInsert \/ StartTeardown \/ MergeTable \/ RemoveShards
           \/ EmitHeaderSidecars \/ WriteManifest \/ Restart
  <2>1. call' # "insert"
    BY <1>2, QuietFrame DEF WipeWorkloadDir, EndInsert, StartTeardown, MergeTable, RemoveShards,
            EmitHeaderSidecars, WriteManifest, Restart, Return
  <2> QED
    BY <2>1 DEF Loading
<1>3. CASE StartInsert
  BY <1>3, LoadingBegins
<1>4. CASE call = "insert" /\ \E w \in Shards : Step(w)
  BY <1>4, LoadingGoesOn
<1> QED
  BY <1>1, <1>2, <1>3, <1>4, Cases

-----------------------------------------------------------------------------
(* The load that has ended. *)

\* What Holds, InShards and the merged file of a table depend on.
LEMMA HoldsFrame ==
    ASSUME NEW t \in Tables, tables'[t] = tables[t], loads'[t] = loads[t],
           UNCHANGED dropped, t \in damaged => t \in damaged'
    PROVE  /\ \A S : Holds(t, S) =>
                 /\ IsFiniteSet(S)
                 /\ tables'[t].rows <= Cardinality(S) + Earlier(t)'
                 /\ LoadedOnce(t)' => tables'[t].rows = Total /\ Cardinality(S) = Total
           /\ shard'[t] = shard[t] /\ InShards(t) => InShards(t)'
           /\ UNCHANGED <<cfg, shard, merged, headed>> /\ (torn => torn') /\ InMerged(t)
                 => InMerged(t)'
<1>1. Earlier(t)' = Earlier(t) /\ (LoadedOnce(t)' => LoadedOnce(t))
  BY DEF Earlier, LoadedOnce
<1>2. \A S : Holds(t, S) =>
                 /\ IsFiniteSet(S)
                 /\ tables'[t].rows <= Cardinality(S) + Earlier(t)'
                 /\ LoadedOnce(t)' => tables'[t].rows = Total /\ Cardinality(S) = Total
  BY <1>1 DEF Holds
<1>3. ASSUME shard'[t] = shard[t], InShards(t)
      PROVE  InShards(t)'
  <2>1. ShardRows(t)' = ShardRows(t) /\ (HasShard(t)' <=> HasShard(t))
    BY <1>3 DEF ShardRows, HasShard
  <2>2. Holds(t, ShardRows(t))
    BY <1>3 DEF InShards
  <2>3. Holds(t, ShardRows(t))'
    BY <1>2, <2>1, <2>2 DEF Holds
  <2> QED
    BY <1>3, <2>1, <2>3 DEF InShards
<1>4. ASSUME UNCHANGED <<cfg, shard, merged, headed>>, torn => torn', InMerged(t)
      PROVE  InMerged(t)'
  <2>1. Holds(t, merged[t]) /\ merged[t] # Absent /\ (cfg.header <=> t \in headed)
        /\ torn /\ cfg.merge /\ ~ShardDirExists
    BY <1>4 DEF InMerged, MergedWell
  <2>2. Holds(t, merged[t])'
    BY <1>2, <1>4, <2>1 DEF Holds
  <2>3. ~ShardDirExists'
    BY <1>4, <2>1 DEF ShardDirExists
  <2>4. MergedWell(t)'
    BY <1>4, <2>1, <2>2 DEF MergedWell
  <2> QED
    BY <1>4, <2>1, <2>3, <2>4 DEF InMerged
<1> QED
  BY <1>2, <1>3, <1>4

\* When the workers of a load are through, the shards of its table hold at least what this
\* load recorded; after a first load that did not fail, the whole source.
LEMMA LoadEnds ==
    ASSUME TypeOK, Calls, Loading, ~spoiled, EndInsert
    PROVE  /\ LoadedOnce(table) => table \in DOMAIN tables
           /\ table \in DOMAIN tables => tables[table].rows <= loads[table] * Total
           /\ table \in DOMAIN tables => InShards(table)
<1>1. call = "insert" /\ Active = {}
  BY DEF EndInsert
<1>2. /\ \A w \in Chunks(Total, workers) : Finished(w)
      /\ table \in DOMAIN tables => HasShard(table)
      /\ Recorded(table).rows <= Cardinality(Flushed) + Earlier(table)
      /\ Done # {} => table \in DOMAIN tables
      /\ First(table) => /\ \A w \in Shards : Working(w)
                         /\ Recorded(table).rows = Cardinality(Flushed)
  BY <1>1 DEF Loading
<1>3. table \in Tables /\ workers \in 1..MaxWorkers /\ inserts \in 1..MaxInserts
  <2>1. table \in Tables /\ workers > 0 /\ inserts > 0
    BY <1>1 DEF Calls
  <2>2. workers \in 0..MaxWorkers /\ inserts \in 0..MaxInserts
    BY DEF TypeOK
  <2> QED
    BY <2>1, <2>2, Sizes
<1>4. Chunks(Total, workers) \subseteq Shards
  BY <1>3, ChunkFacts
<1>5. \A w \in Shards : worker[w] \in {"done", "failed"}
  BY <1>1 DEF Active, TypeOK
<1>6. \A w \in Done : w \in Shards /\ shard[table][w] = AllFlushed(w) /\ AllFlushed(w) # Absent
  <2>1. \A w \in Chunks(Total, workers) : AllFlushed(w) # Absent
    BY <1>3, WholeShard, FilesExist
  <2> QED
    BY <1>2, <1>4, <2>1 DEF Done, Finished
<1>7. Flushed \subseteq ShardRows(table)
  BY <1>6 DEF Flushed, ShardRows
<1>8. IsFiniteSet(ShardRows(table)) /\ Cardinality(ShardRows(table)) \in Nat
  BY <1>3, ConcatenatedPairs
<1>9. Cardinality(Flushed) <= Cardinality(ShardRows(table)) /\ Cardinality(Flushed) \in Nat
  BY <1>3, <1>7, <1>8, FS_Subset, FlushedFinite
<1>10. Cardinality(Flushed) <= Total
  <2>1. Flushed \subseteq {inserts} \X Rows
    BY <1>3, FlushedFinite
  <2>2. IsFiniteSet({inserts} \X Rows) /\ Cardinality({inserts} \X Rows) = Total
    BY <1>3, ShardsPartition
  <2>3. Cardinality(Flushed) <= Cardinality({inserts} \X Rows)
    BY <2>1, <2>2, FS_Subset
  <2> QED
    BY <2>2, <2>3
<1>11. ASSUME LoadedOnce(table)
       PROVE  /\ Done # {}
              /\ Recorded(table).rows = Total /\ Cardinality(ShardRows(table)) = Total
  <2>1. First(table) /\ table \notin damaged
    BY <1>11 DEF First, LoadedOnce
  <2>2. ASSUME NEW w \in Chunks(Total, workers)
        PROVE  worker[w] = "done"
    BY <1>2, <1>4, <1>5, <2>1 DEF Finished
  <2>3. Done = Chunks(Total, workers)
    BY <2>2 DEF Done
  <2>4. Done # {}
    BY <1>3, <2>3, FirstChunk
  <2>5. Flushed = {inserts} \X Rows
    BY <1>3, <2>3, ShardsPartition DEF Flushed
  <2>6. ShardRows(table) \subseteq {inserts} \X Rows
    <3>1. ASSUME NEW w \in Shards, shard[table][w] # Absent
          PROVE  w \in Chunks(Total, workers) /\ shard[table][w] \subseteq AllFlushed(w)
      BY <1>2, <2>1, <3>1 DEF Working
    <3>2. \A w \in Chunks(Total, workers) : AllFlushed(w) \subseteq {inserts} \X Rows
      BY <1>3, ShardsPartition
    <3> QED
      BY <3>1, <3>2 DEF ShardRows
  <2>7. ShardRows(table) = Flushed
    BY <1>7, <2>5, <2>6
  <2>8. Cardinality(Flushed) = Total
    BY <1>3, <2>5, ShardsPartition
  <2> QED
    BY <1>2, <2>1, <2>4, <2>7, <2>8
<1>12. ASSUME table \in DOMAIN tables
       PROVE  InShards(table) /\ tables[table].rows <= loads[table] * Total
  <2>1. Recorded(table) = tables[table] /\ tables[table].rows \in Nat
    BY <1>12 DEF Recorded, TypeOK
  <2>2. Earlier(table) \in Nat /\ loads[table] * Total = Earlier(table) + Total
    <3>1. loads[table] \in Nat /\ loads[table] > 0
      BY <1>1, <1>3 DEF TypeOK, Calls
    <3> QED
      BY <3>1, EarlierGrows DEF Earlier
  <2>3. tables[table].rows <= Cardinality(Flushed) + Earlier(table)
    BY <1>2, <2>1
  <2>4. tables[table].rows <= Cardinality(ShardRows(table)) + Earlier(table)
    BY <1>8, <1>9, <2>1, <2>2, <2>3
  <2>5. tables[table].rows <= loads[table] * Total
    BY <1>9, <1>10, <2>1, <2>2, <2>3, Sizes
  <2>6. Holds(table, ShardRows(table))
    BY <1>8, <1>11, <2>1, <2>4 DEF Holds
  <2> QED
    BY <1>2, <1>12, <2>5, <2>6 DEF InShards
<1> QED
  BY <1>2, <1>11, <1>12

LEMMA StoredStep ==
    ASSUME IInv, [Next]_vars
    PROVE  Stored'
<1>1. TypeOK /\ Calls /\ Untouched /\ Loading /\ Stored /\ Torn
  BY DEF IInv
<1> SUFFICES ASSUME NEW t \in Tables, Ended(t)'
             PROVE  /\ LoadedOnce(t)' => t \in DOMAIN tables'
                    /\ t \in DOMAIN tables' => tables'[t].rows <= loads'[t] * Total
                    /\ t \in DOMAIN tables' => InShards(t)' \/ InMerged(t)'
  BY DEF Stored
<1>2. Ended(t) => /\ LoadedOnce(t) => t \in DOMAIN tables
                  /\ t \in DOMAIN tables => tables[t].rows <= loads[t] * Total
                  /\ t \in DOMAIN tables => InShards(t) \/ InMerged(t)
  BY <1>1 DEF Stored
<1>3. ASSUME /\ LoadedOnce(t) => t \in DOMAIN tables
             /\ t \in DOMAIN tables => tables[t].rows <= loads[t] * Total
             /\ t \in DOMAIN tables => InShards(t) \/ InMerged(t),
             UNCHANGED <<cfg, shard, merged, headed, tables, dropped, damaged>>,
             loads'[t] = loads[t], torn => torn'
      PROVE  /\ LoadedOnce(t)' => t \in DOMAIN tables'
             /\ t \in DOMAIN tables' => tables'[t].rows <= loads'[t] * Total
             /\ t \in DOMAIN tables' => InShards(t)' \/ InMerged(t)'
  <2>1. LoadedOnce(t)' <=> LoadedOnce(t)
    BY <1>3 DEF LoadedOnce
  <2>2. (InShards(t) => InShards(t)') /\ (InMerged(t) => InMerged(t)')
    BY <1>3, HoldsFrame
  <2> QED
    BY <1>3, <2>1, <2>2
<1>4. CASE UNCHANGED vars \/ Quiet \/ StartTeardown \/ WriteManifest
  <2>1. UNCHANGED <<cfg, shard, merged, headed, tables, table, dropped, spoiled, loads, damaged>>
        /\ (torn => torn')
    <3>1. CASE UNCHANGED vars
      BY <3>1 DEF vars, files, driver, inserting, history
    <3>2. CASE Quiet
      BY <3>2, QuietFrame
    <3>3. CASE StartTeardown
      BY <3>3 DEF StartTeardown, InTeardown, files, driver, inserting
    <3>4. CASE WriteManifest
      BY <3>4 DEF WriteManifest, InTeardown, driver, inserting
    <3> QED
      BY <1>4, <3>1, <3>2, <3>3, <3>4
  <2>2. Ended(t)
    BY <2>1 DEF Ended
  <2> QED
    BY <1>2, <1>3, <2>1, <2>2
<1>5. CASE WipeWorkloadDir
  <2>1. loads' = [u \in Tables |-> 0] \/ spoiled' = TRUE
    BY <1>5 DEF WipeWorkloadDir
  <2> QED
    BY <2>1 DEF Ended
<1>6. CASE StartInsert
  <2>1. PICK u \in Tables : table' = u /\ loads' = [loads EXCEPT ![u] = @ + 1]
    BY <1>6 DEF StartInsert
  <2>2. /\ UNCHANGED <<cfg, shard, merged, headed, tables, dropped, damaged, torn>>
        /\ spoiled' = (spoiled \/ torn) /\ call = "none"
    BY <1>6 DEF StartInsert, files, driver
  <2>3. t # u /\ loads'[t] = loads[t] /\ ~spoiled
    <3>1. loads \in [Tables -> Nat]
      BY <1>1 DEF TypeOK
    <3> QED
      BY <2>1, <2>2, <3>1 DEF Ended
  <2>4. Ended(t)
    <3>1. t # table
      BY <1>1, <2>2, Sizes DEF Calls
    <3> QED
      BY <2>3, <3>1 DEF Ended
  <2> QED
    BY <1>2, <1>3, <2>2, <2>3, <2>4
<1>7. CASE EndInsert
  <2>1. UNCHANGED <<cfg, shard, merged, headed, tables, dropped, spoiled, loads, damaged, torn>>
    BY <1>7 DEF EndInsert, files, driver, history
  <2>2. ~spoiled /\ loads[t] > 0
    BY <2>1 DEF Ended
  <2>3. /\ LoadedOnce(t) => t \in DOMAIN tables
        /\ t \in DOMAIN tables => tables[t].rows <= loads[t] * Total
        /\ t \in DOMAIN tables => InShards(t) \/ InMerged(t)
    <3>1. CASE t = table
      BY <1>1, <1>7, <2>2, <3>1, LoadEnds
    <3>2. CASE t # table
      BY <1>2, <2>2, <3>2 DEF Ended
    <3> QED
      BY <3>1, <3>2
  <2> QED
    BY <1>3, <2>1, <2>3
<1>8. CASE call = "insert" /\ \E w \in Shards : Step(w)
  <2>1. PICK w \in Shards : Step(w)
    BY <1>8
  <2>2. UNCHANGED <<cfg, merged, headed, table, dropped, loads, torn, spoiled>>
    BY <2>1, StepFrame
  <2>3. Ended(t) /\ t # table /\ ~torn
    BY <1>1, <1>8, <2>2 DEF Ended, Calls
  <2>4. table \in Tables /\ damaged \subseteq damaged' /\ damaged' \subseteq damaged \cup {table}
    BY <1>1, <1>8, <2>1, StepEffect
  <2>5. shard'[t] = shard[t]
    <3>1. PICK file \in Contents : shard' = [shard EXCEPT ![table][w] = file]
      BY <1>1, <1>8, <2>1, StepEffect
    <3>2. shard \in [Tables -> [Shards -> Contents]]
      BY <1>1 DEF TypeOK
    <3> QED
      BY <2>3, <2>4, <3>1, <3>2
  <2>6. /\ t \in DOMAIN tables' <=> t \in DOMAIN tables
        /\ t \in DOMAIN tables => tables'[t] = tables[t]
    BY <1>1, <1>8, <2>1, <2>3, StepEffect
  <2>7. t \in DOMAIN tables' => InShards(t)'
    <3>1. t \in DOMAIN tables => InShards(t)
      BY <1>2, <2>3 DEF InMerged
    <3> QED
      BY <2>2, <2>4, <2>5, <2>6, <3>1, HoldsFrame
  <2>8. LoadedOnce(t)' => LoadedOnce(t)
    BY <2>2, <2>4 DEF LoadedOnce
  <2> QED
    BY <1>2, <2>2, <2>3, <2>6, <2>7, <2>8
<1>9. CASE MergeTable \/ EmitHeaderSidecars
  <2>1. UNCHANGED <<shard, tables, table, dropped, spoiled, loads, damaged>>
    BY <1>9 DEF MergeTable, EmitHeaderSidecars, InTeardown, driver, inserting
  <2>2. Ended(t) /\ (LoadedOnce(t)' <=> LoadedOnce(t))
    BY <2>1 DEF Ended, LoadedOnce
  <2>3. ~InMerged(t)
    BY <1>1, <1>9 DEF MergeTable, EmitHeaderSidecars, Calls, InMerged
  <2>4. InShards(t) => InShards(t)'
    BY <2>1, HoldsFrame
  <2> QED
    BY <1>2, <2>1, <2>2, <2>3, <2>4
<1>10. CASE RemoveShards
  <2>1. /\ UNCHANGED <<cfg, merged, headed, tables, table, dropped, loads, damaged, torn>>
        /\ call = "merge" /\ todo = {}
    BY <1>10 DEF RemoveShards, InTeardown, driver, inserting
  <2>2. shard' = ShardsRemoved /\ UNCHANGED spoiled
    BY <1>10, <2>1 DEF RemoveShards, Ended
  <2>3. Ended(t) /\ torn /\ cfg.merge /\ (LoadedOnce(t)' <=> LoadedOnce(t))
    BY <1>1, <2>1, <2>2 DEF Ended, LoadedOnce, Calls
  <2>4. ~ShardDirExists'
    BY <2>2 DEF ShardDirExists, ShardsRemoved
  <2>5. t \in DOMAIN tables => MergedWell(t)
    BY <1>1, <2>1, <2>3 DEF Torn
  <2>6. MergedWell(t) => MergedWell(t)'
    BY <2>1 DEF MergedWell, Holds, Earlier, LoadedOnce
  <2> QED
    BY <1>2, <2>1, <2>3, <2>4, <2>5, <2>6 DEF InMerged
<1>11. CASE Restart
  BY <1>11 DEF Ended, Restart
<1> QED
  BY <1>4, <1>5, <1>6, <1>7, <1>8, <1>9, <1>10, <1>11, Cases

-----------------------------------------------------------------------------
(* Teardown. *)

\* The table just merged holds what its shards hold, under a header if one is asked for.
LEMMA MergeIsWhole ==
    ASSUME TypeOK, Calls, Stored, MergeTable, NEW t \in Tables, Ended(t), t \in DOMAIN tables,
           merged' = [merged EXCEPT ![t] = Concatenated(t)],
           headed' = IF cfg.header THEN headed \cup {t} ELSE headed \ {t}
    PROVE  MergedWell(t)'
<1>1. UNCHANGED <<cfg, tables, loads, dropped, damaged>>
  BY DEF MergeTable, InTeardown, driver
<1>2. Holds(t, ShardRows(t))
  BY DEF Stored, InMerged, InShards, MergeTable, Calls
<1>3. merged'[t] = ShardRows(t) /\ ShardRows(t) # Absent
  <2>1. merged \in [Tables -> Contents]
    BY DEF TypeOK
  <2>2. ShardRows(t) # Absent
    BY ConcatenatedPairs, FilesExist
  <2> QED
    BY <2>1, <2>2 DEF Concatenated
<1>4. cfg'.header <=> t \in headed'
  BY <1>1
<1>5. Holds(t, merged[t])'
  BY <1>1, <1>2, <1>3 DEF Holds, Earlier, LoadedOnce
<1> QED
  BY <1>3, <1>4, <1>5 DEF MergedWell

LEMMA TornStep ==
    ASSUME IInv, [Next]_vars
    PROVE  Torn'
<1>1. TypeOK /\ Calls /\ Untouched /\ Loading /\ Stored /\ Torn
  BY DEF IInv
<1>2. CASE UNCHANGED vars
  BY <1>1, <1>2 DEF Torn, Ended, MergedWell, Holds, Earlier, LoadedOnce, TornDown,
     ShardDirExists, vars, files, driver, inserting, history
<1>3. CASE Quiet \/ WipeWorkloadDir \/ EndInsert \/ Restart
  <2>1. call' = "none" /\ answer' # "torn down"
    BY <1>3, QuietFrame DEF WipeWorkloadDir, EndInsert, Restart, Return
  <2> QED
    BY <2>1 DEF Torn, TornDown
<1>4. CASE StartInsert \/ (call = "insert" /\ \E w \in Shards : Step(w))
  <2>1. call' = "insert"
    BY <1>4, StepFrame DEF StartInsert
  <2> QED
    BY <2>1 DEF Torn, TornDown
<1>5. CASE StartTeardown
  <2>1. UNCHANGED <<cfg, shard, tables>>
    BY <1>5 DEF StartTeardown, InTeardown, files, driver
  <2>2. CASE ~resolved
    BY <1>5, <2>2 DEF StartTeardown, Return, Torn, TornDown
  <2>3. CASE resolved
    <3>1. /\ todo' = DOMAIN tables
          /\ call' = IF ~cfg.merge THEN "sidecars"
                     ELSE IF ShardDirExists THEN "merge" ELSE "manifest"
          /\ answer' = "none"
      BY <1>5, <2>3 DEF StartTeardown
    <3>2. UNCHANGED ShardDirExists
      BY <2>1 DEF ShardDirExists
    <3> QED
      BY <2>1, <3>1, <3>2 DEF Torn, TornDown
  <2> QED
    BY <2>2, <2>3
<1>6. CASE MergeTable
  <2>1. UNCHANGED <<cfg, shard, tables, table, dropped, spoiled, loads, damaged>> /\ call = "merge"
    BY <1>6 DEF MergeTable, InTeardown, driver, inserting
  <2>2. CASE call' = "none" /\ answer' = "error"
    BY <2>2 DEF Torn, TornDown
  <2>3. ASSUME NEW t \in todo,
               merged' = [merged EXCEPT ![t] = Concatenated(t)],
               headed' = IF cfg.header THEN headed \cup {t} ELSE headed \ {t},
               todo' = todo \ {t}, call' = call
        PROVE  Torn'
    <3>1. t \in Tables /\ t \in DOMAIN tables /\ merged \in [Tables -> Contents]
          /\ DOMAIN tables \subseteq Tables
      BY <1>1, <2>1 DEF TypeOK, Calls
    <3>2. ASSUME NEW u \in DOMAIN tables \ todo', Ended(u)
          PROVE  MergedWell(u)'
      <4>1. CASE u = t
        BY <1>1, <1>6, <2>3, <3>1, <3>2, <4>1, MergeIsWhole
      <4>2. CASE u # t
        <5>1. MergedWell(u)
          BY <1>1, <2>1, <2>3, <3>2, <4>2 DEF Torn
        <5>2. merged'[u] = merged[u] /\ (u \in headed' <=> u \in headed)
          BY <2>3, <3>1, <4>2
        <5> QED
          BY <2>1, <5>1, <5>2 DEF MergedWell, Holds, Earlier, LoadedOnce
      <4> QED
        BY <4>1, <4>2
    <3>3. \A u \in DOMAIN tables : Ended(u)' => Ended(u)
      BY <2>1 DEF Ended
    <3> QED
      BY <2>1, <2>3, <3>2, <3>3 DEF Torn, TornDown
  <2> QED
    BY <1>6, <2>2, <2>3 DEF MergeTable, Return
<1>7. CASE RemoveShards
  <2>1. UNCHANGED cfg /\ cfg.merge
    BY <1>1, <1>7 DEF RemoveShards, InTeardown, Calls
  <2>2. CASE call' = "none" /\ answer' = "error"
    BY <2>2 DEF Torn, TornDown
  <2>3. CASE shard' = ShardsRemoved /\ call' = "manifest"
    <3>1. ~ShardDirExists'
      BY <2>3 DEF ShardDirExists, ShardsRemoved
    <3> QED
      BY <2>1, <2>3, <3>1 DEF Torn, TornDown
  <2> QED
    BY <1>7, <2>2, <2>3 DEF RemoveShards, Return
<1>8. CASE EmitHeaderSidecars
  <2>1. UNCHANGED <<cfg, tables>> /\ ~cfg.merge /\ call = "sidecars"
    BY <1>1, <1>8 DEF EmitHeaderSidecars, InTeardown, Calls, driver
  <2>2. cfg.header => DOMAIN tables \ todo \subseteq headed
    BY <1>1, <2>1 DEF Torn
  <2>3. CASE call' = "none" /\ answer' = "error"
    BY <2>3 DEF Torn, TornDown
  <2>4. CASE call' = "sidecars"
    <3>1. \E t \in todo : headed' = headed \cup {t} /\ todo' = todo \ {t}
      BY <1>8, <2>4 DEF EmitHeaderSidecars, Return
    <3> QED
      BY <2>1, <2>2, <2>4, <3>1 DEF Torn, TornDown
  <2>5. CASE call' = "manifest"
    <3>1. (cfg.header => todo = {}) /\ UNCHANGED headed
      BY <1>8, <2>1, <2>5 DEF EmitHeaderSidecars, Return
    <3> QED
      BY <2>1, <2>2, <2>5, <3>1 DEF Torn, TornDown
  <2> QED
    BY <1>8, <2>1, <2>3, <2>4, <2>5 DEF EmitHeaderSidecars, Return
<1>9. CASE WriteManifest
  <2>1. /\ UNCHANGED <<cfg, shard, headed, tables, dropped, spoiled>>
        /\ call = "manifest" /\ call' = "none"
        /\ answer' = "torn down" => manifest' = [t \in DOMAIN tables |-> tables[t].rows]
    BY <1>9 DEF WriteManifest, InTeardown, Return, driver
  <2>2. /\ ~cfg.merge /\ cfg.header => DOMAIN tables \subseteq headed
        /\ ~spoiled /\ cfg.merge => ~ShardDirExists
    BY <1>1, <2>1 DEF Torn
  <2>3. UNCHANGED ShardDirExists
    BY <2>1 DEF ShardDirExists
  <2> QED
    BY <2>1, <2>2, <2>3 DEF Torn, TornDown
<1> QED
  BY <1>2, <1>3, <1>4, <1>5, <1>6, <1>7, <1>8, <1>9, Cases

-----------------------------------------------------------------------------
(* Theorems. *)

LEMMA InitInvariant == Init => IInv
<1> SUFFICES ASSUME Init
             PROVE  IInv
  OBVIOUS
<1>1. call = "none" /\ answer = "ok" /\ dropped = FALSE /\ headed = {} /\ table = Absent
      /\ \A w \in Shards : worker[w] = "done"
  BY DEF Init
<1>2. DOMAIN tables = {} /\ \A t \in Tables : loads[t] = 0
  BY DEF Init, Unrecorded
<1>3. TypeOK
  <2>1. cfg \in [header : BOOLEAN, merge : BOOLEAN]
    <3>1. \A value : OptionIsOn(value) \in BOOLEAN
      BY DEF OptionIsOn
    <3>2. \E h, g : cfg = [header |-> OptionIsOn(h), merge |-> OptionIsOn(g)]
      BY DEF Init, Configs
    <3> QED
      BY <3>1, <3>2
  <2>2. shard \in [Tables -> [Shards -> Contents]] /\ merged \in [Tables -> Contents]
    BY DEF Init, Contents
  <2>3. workers \in 0..MaxWorkers /\ inserts \in 0..MaxInserts
    BY Sizes DEF Init
  <2>4. /\ worker \in [Shards -> {"create", "drain", "record", "done", "failed"}]
        /\ written \in [Shards -> Nat] /\ loads \in [Tables -> Nat]
    BY DEF Init
  <2> QED
    BY <1>2, <2>1, <2>2, <2>3, <2>4 DEF Init, TypeOK
<1>4. Calls
  BY <1>1 DEF Calls, TornDown
<1>5. Untouched /\ Loading
  BY <1>1, <1>2 DEF Untouched, Loading
<1>6. Stored
  BY <1>2 DEF Stored, Ended
<1>7. Torn
  BY <1>1 DEF Torn, TornDown
<1> QED
  BY <1>3, <1>4, <1>5, <1>6, <1>7 DEF IInv

\* Spec keeps the inductive invariant.
THEOREM Invariance == Spec => []IInv
<1>1. IInv /\ [Next]_vars => IInv'
  BY TypeStep, CallsStep, UntouchedStep, LoadingStep, StoredStep, TornStep DEF IInv
<1> QED
  BY <1>1, InitInvariant, PTL DEF Spec

\* Every variable keeps its range; what a file holds are rows of loads that took place.
THEOREM TypeCorrect == Spec => []TypeOK
<1>1. IInv => TypeOK
  BY DEF IInv
<1> QED
  BY <1>1, Invariance, PTL

\* What a Teardown that succeeded left of a table that was loaded.
LEMMA TornDownTable ==
    ASSUME IInv, TornDown, ~spoiled, NEW t \in Tables, t \in DOMAIN tables
    PROVE  /\ manifest[t] = tables[t].rows
           /\ Holds(t, Visible(t))
           /\ cfg.header <=> t \in headed
<1>1. TypeOK /\ Calls /\ Untouched /\ Stored /\ Torn
  BY DEF IInv
<1>2. Ended(t)
  <2>1. loads[t] \in Nat /\ loads[t] # 0
    <3>1. loads[t] \in Nat
      BY <1>1 DEF TypeOK
    <3>2. loads[t] # 0
      BY <1>1 DEF Untouched
    <3> QED
      BY <3>1, <3>2
  <2>2. t # table
    BY <1>1, Sizes DEF Calls, TornDown
  <2> QED
    BY <2>1, <2>2 DEF Ended
<1>3. InShards(t) \/ InMerged(t)
  BY <1>1, <1>2 DEF Stored
<1>4. manifest[t] = tables[t].rows
  BY <1>1 DEF Torn
<1>5. CASE cfg.merge
  <2>1. ~ShardDirExists
    BY <1>1, <1>5 DEF Torn
  <2>2. InMerged(t)
    BY <1>3, <2>1 DEF InShards, HasShard, ShardDirExists
  <2> QED
    BY <1>4, <1>5, <2>2 DEF InMerged, MergedWell, Visible
<1>6. CASE ~cfg.merge
  <2>1. InShards(t)
    BY <1>3, <1>6 DEF InMerged
  <2>2. cfg.header <=> t \in headed
    BY <1>1, <1>6 DEF Torn, Calls
  <2> QED
    BY <1>4, <1>6, <2>1, <2>2 DEF InShards, Visible
<1> QED
  BY <1>5, <1>6

\* A table loaded once and well since the drop is complete when Teardown succeeds, in its
\* file, in the manifest and under its header.
THEOREM FilesAreComplete == Spec => []CompleteFiles
<1>1. ASSUME IInv
      PROVE  CompleteFiles
  <2> SUFFICES ASSUME TornDown, ~spoiled, NEW t \in Tables, LoadedOnce(t)
               PROVE  /\ Cardinality(Visible(t)) = Total
                      /\ manifest[t] = Total
                      /\ cfg.header <=> t \in headed
    BY DEF CompleteFiles
  <2>1. loads[t] = 1
    BY DEF LoadedOnce
  <2>2. t \in DOMAIN tables
    <3>1. t # table
      BY <1>1, Sizes DEF IInv, Calls, TornDown
    <3> QED
      BY <1>1, <2>1, <3>1 DEF IInv, Stored, Ended
  <2>3. manifest[t] = tables[t].rows /\ Holds(t, Visible(t)) /\ (cfg.header <=> t \in headed)
    BY <1>1, <2>1, <2>2, TornDownTable
  <2> QED
    BY <2>1, <2>3 DEF Holds
<1> QED
  BY <1>1, Invariance, PTL

\* Whatever loads failed and whatever processes crashed, the manifest of a Teardown that
\* succeeded claims no row of a table loaded once that is not in its files, and for every
\* further load without a drop at most one source more than they hold; the Teardown did not
\* follow a load after another one, and no removal of files failed half-way.
THEOREM ManifestIsHonest == Spec => []ManifestIsBacked
<1>1. ASSUME IInv
      PROVE  ManifestIsBacked
  <2> SUFFICES ASSUME TornDown, ~spoiled, NEW t \in DOMAIN manifest
               PROVE  manifest[t] <= Cardinality(Visible(t)) + (loads[t] - 1) * Total
    BY DEF ManifestIsBacked
  <2>1. t \in DOMAIN tables /\ t \in Tables
    BY <1>1 DEF IInv, Torn, TypeOK
  <2>2. manifest[t] = tables[t].rows /\ Holds(t, Visible(t))
    BY <1>1, <2>1, TornDownTable
  <2> QED
    BY <2>2 DEF Holds, Earlier
<1> QED
  BY <1>1, Invariance, PTL

=============================================================================
