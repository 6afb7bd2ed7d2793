------------------------------ MODULE CsvDriver ------------------------------
(***************************************************************************)
(* The csv driver (pkg/driver/csv) and the directory it writes.  The       *)
(* directory outlives the process: a process may crash between any two     *)
(* steps, and the next one finds what it left.  A caller makes one call of *)
(* the driver at a time; an Insert fans out into concurrent workers, each  *)
(* writing one shard, and Teardown merges the shards and writes the        *)
(* manifest, one file operation per step.                                  *)
(*                                                                         *)
(* What a file holds is a set of pairs <<insert, row>>: the number of the  *)
(* Insert call tells a row apart from the same row of an earlier load.     *)
(* Encoding and buffering are abstracted: a file that is closed without an *)
(* error holds all rows written to it, one that is not holds some of them. *)
(***************************************************************************)
EXTENDS SplitChunks, FiniteSets, Functions

CONSTANTS
    Tables,       \* the tables the workload loads
    Total,        \* rows of each table's source
    MaxWorkers,   \* bound: InsertRequest.Workers of a call
    MaxInserts,   \* bound: Insert calls, over all processes
    MaxProcesses, \* bound: processes started one after the other
    Absent        \* stands for a file that does not exist

ASSUME CsvAssumption ==
    /\ IsFiniteSet(Tables)
    /\ Total \in Nat
    /\ MaxWorkers \in Nat \ {0}
    /\ MaxInserts \in Nat
    /\ MaxProcesses \in Nat \ {0}
    /\ Absent \notin Tables
    /\ \A file \in SUBSET ((1..MaxInserts) \X (0..(Total - 1))) : file # Absent

Rows == 0..(Total - 1)
Shards == 0..(MaxWorkers - 1)

VARIABLES
    cfg,        \* config.header and config.merge
    shard,      \* <table>.w%03d.csv: its rows, or Absent
    merged,     \* <table>.csv: its rows, or Absent
    headed,     \* tables whose merged file or sidecar carries the header row
    manifest,   \* MANIFEST.json: rows per table, or Absent
    process,    \* processes started so far
    resolved,   \* workloadDir is set
    tables,     \* Driver.tables: shards and rows recorded per table
    call,       \* the call the caller is in
    answer,     \* how the last call ended
    table,      \* Insert: the table being loaded, or Absent
    workers,    \* Insert: how many workers
    worker,     \* Insert: where each worker stands
    written,    \* Insert: rows each worker has written so far
    todo,       \* Teardown: tables the pass has still to visit
    inserts,    \* Insert calls so far
    dropped,    \* history: this process has wiped the directory; since it last did so,
                \*   or else since it started:
    loads,      \* history: Insert calls per table,
    damaged,    \* history: tables a load of which did not end well,
    torn,       \* history: a Teardown has begun,
    spoiled     \* history: a load followed it, or a removal failed half-way

files    == <<shard, merged, headed, manifest>>
driver   == <<resolved, tables>>
inserting == <<table, workers, worker, written>>
history  == <<dropped, loads, damaged, torn, spoiled>>
vars == <<cfg, files, process, driver, call, answer, inserting, todo, inserts, history>>

\* What parseConfig makes of ?header= and ?merge=: both default to true; any
\* value that is not a known spelling of a bool refuses the driver altogether.
OptionIsOn(value) == value # "false"
Configs ==
    {[header |-> OptionIsOn(h), merge |-> OptionIsOn(g)] :
        h \in {"unset", "true", "false"}, g \in {"unset", "true", "false"}}

\* NewDriver starts with no table recorded.
Unrecorded == [t \in {} |-> [shards |-> 0, rows |-> 0]]

Init ==
    /\ cfg \in Configs
    /\ shard = [t \in Tables |-> [w \in Shards |-> Absent]]
    /\ merged = [t \in Tables |-> Absent]
    /\ headed = {}
    /\ manifest = Absent
    /\ process = 1
    /\ resolved = FALSE
    /\ tables = Unrecorded
    /\ call = "none"
    /\ answer = "ok"
    /\ table = Absent
    /\ workers = 0
    /\ worker = [w \in Shards |-> "done"]
    /\ written = [w \in Shards |-> 0]
    /\ todo = {}
    /\ inserts = 0
    /\ dropped = FALSE
    /\ loads = [t \in Tables |-> 0]
    /\ damaged = {}
    /\ torn = FALSE
    /\ spoiled = FALSE

-----------------------------------------------------------------------------
(* Queries.                                                                *)

Return(result) == call' = "none" /\ answer' = result

\* RunQuery of CREATE, ALTER, COMMENT, SET or nothing.
AcceptDDL ==
    /\ call = "none"
    /\ Return("ok")
    /\ UNCHANGED <<cfg, files, process, driver, inserting, todo, inserts, history>>

\* RunQuery of anything else, and Begin.
RejectQuery ==
    /\ call = "none"
    /\ Return("error")
    /\ UNCHANGED <<cfg, files, process, driver, inserting, todo, inserts, history>>

\* Mutant: the directory goes, the driver's memory of it stays.
Remember == tables

\* tables is made anew when the directory is gone.
Forget == Unrecorded

\* Mutant: only the merged files are removed.
ShardsKept == shard

\* os.RemoveAll takes the shards with the directory.
ShardsRemoved == [t \in Tables |-> [w \in Shards |-> Absent]]

\* RunQuery of DROP or TRUNCATE: wipeWorkloadDir.  When os.RemoveAll fails some
\* files are gone and the tables stay recorded.
WipeWorkloadDir ==
    /\ call = "none"
    /\ resolved' = TRUE
    /\ \/ /\ shard' = ShardsRemoved
          /\ merged' = [t \in Tables |-> Absent]
          /\ headed' = {}
          /\ manifest' = Absent
          /\ tables' = Forget
          /\ dropped' = TRUE
          /\ loads' = [t \in Tables |-> 0]
          /\ damaged' = {}
          /\ torn' = FALSE
          /\ spoiled' = FALSE
          /\ Return("ok")
       \/ /\ \E gone \in SUBSET Tables :
               /\ shard' = [t \in Tables |-> IF t \in gone THEN ShardsRemoved[t] ELSE shard[t]]
               /\ merged' = [t \in Tables |-> IF t \in gone THEN Absent ELSE merged[t]]
               /\ headed' = headed \ gone
          /\ spoiled' = TRUE
          /\ Return("error")
          /\ UNCHANGED <<manifest, tables, dropped, loads, damaged, torn>>
    /\ UNCHANGED <<cfg, process, inserting, todo, inserts>>

-----------------------------------------------------------------------------
(* Insert.                                                                 *)

\* A method other than NATIVE is refused before anything is touched.
RefuseMethod ==
    /\ call = "none"
    /\ Return("error")
    /\ UNCHANGED <<cfg, files, process, driver, inserting, todo, inserts, history>>

\* workers < 1 is taken as 1 by the driver and by SplitChunks alike.
StartInsert ==
    /\ call = "none"
    /\ inserts < MaxInserts
    /\ \E t \in Tables, n \in 1..MaxWorkers :
         /\ table' = t
         /\ workers' = n
         /\ worker' = [w \in Shards |-> IF w \in Chunks(Total, n) THEN "create" ELSE "done"]
         /\ loads' = [loads EXCEPT ![t] = @ + 1]
    /\ written' = [w \in Shards |-> 0]
    /\ inserts' = inserts + 1
    /\ call' = "insert"
    /\ answer' = "none"
    /\ spoiled' = (spoiled \/ torn)
    /\ UNCHANGED <<cfg, files, process, driver, todo, dropped, damaged, torn>>

Active == {w \in Shards : worker[w] \notin {"done", "failed"}}

GroupCanceled == \E w \in Shards : worker[w] = "failed"

InInsert == UNCHANGED <<cfg, merged, headed, manifest, process, call, answer, table,
                        workers, todo, inserts, dropped, loads, torn, spoiled>>

\* The row pairs worker w writes, in order.
RowOf(w, n) == <<inserts, ChunkStart(Total, workers, w) + n>>
FirstRows(w, n) == {RowOf(w, k) : k \in 0..(n - 1)}
ChunkLength(w) == ChunkEnd(Total, workers, w) - ChunkStart(Total, workers, w)

\* os.Create truncates a shard that is already there.
Create(old) == {}

\* writeShard: resolveWorkload, MkdirAll and os.Create, or one of them fails.
CreateShard(w) ==
    /\ worker[w] = "create"
    /\ resolved' = TRUE
    /\ \/ /\ shard' = [shard EXCEPT ![table][w] = Create(@)]
          /\ worker' = [worker EXCEPT ![w] = "drain"]
          /\ UNCHANGED damaged
       \/ /\ worker' = [worker EXCEPT ![w] = "failed"]
          /\ damaged' = damaged \cup {table}
          /\ UNCHANGED shard
    /\ InInsert
    /\ UNCHANGED <<tables, written>>

\* drainRows: one row goes to the writer.
WriteRow(w) ==
    /\ worker[w] = "drain"
    /\ ~GroupCanceled
    /\ written[w] < ChunkLength(w)
    /\ written' = [written EXCEPT ![w] = @ + 1]
    /\ InInsert
    /\ UNCHANGED <<shard, driver, worker, damaged>>

AllFlushed(w) == FirstRows(w, ChunkLength(w))

\* io.EOF, both flushes, and close.
CloseShard(w) ==
    /\ worker[w] = "drain"
    /\ ~GroupCanceled
    /\ written[w] = ChunkLength(w)
    /\ shard' = [shard EXCEPT ![table][w] = AllFlushed(w)]
    /\ worker' = [worker EXCEPT ![w] = "record"]
    /\ InInsert
    /\ UNCHANGED <<driver, written, damaged>>

\* A cancelled group, a failing source, or a failing write, flush or close:
\* some of the written rows are in the file.
AbandonShard(w) ==
    /\ worker[w] = "drain"
    /\ \E n \in 0..written[w] : shard' = [shard EXCEPT ![table][w] = FirstRows(w, n)]
    /\ worker' = [worker EXCEPT ![w] = "failed"]
    /\ damaged' = damaged \cup {table}
    /\ InInsert
    /\ UNCHANGED <<driver, written>>

Recorded(t) == IF t \in DOMAIN tables THEN tables[t] ELSE [shards |-> 0, rows |-> 0]

Count(old, n) == [shards |-> old.shards + 1, rows |-> old.rows + n]

\* recordShards, under the driver's mutex.
RecordShards(w) ==
    /\ worker[w] = "record"
    /\ tables' = [t \in DOMAIN tables \cup {table} |->
                    IF t = table THEN Count(Recorded(t), written[w]) ELSE tables[t]]
    /\ worker' = [worker EXCEPT ![w] = "done"]
    /\ InInsert
    /\ UNCHANGED <<shard, resolved, written, damaged>>

\* group.Wait.
EndInsert ==
    /\ call = "insert"
    /\ Active = {}
    /\ Return(IF GroupCanceled THEN "error" ELSE "ok")
    /\ worker' = [w \in Shards |-> "done"]
    /\ written' = [w \in Shards |-> 0]
    /\ table' = Absent
    /\ workers' = 0
    /\ UNCHANGED <<cfg, files, process, driver, todo, inserts, history>>

Insert == EndInsert \/ \E w \in Shards :
              call = "insert" /\ \/ CreateShard(w) \/ WriteRow(w) \/ CloseShard(w)
                                 \/ AbandonShard(w) \/ RecordShards(w)

-----------------------------------------------------------------------------
(* Teardown.  The tables are snapshot under the mutex; no other call runs. *)

InTeardown == UNCHANGED <<cfg, process, driver, inserting, inserts, dropped, loads, damaged>>

ShardDirExists == \E t \in Tables : \E w \in Shards : shard[t][w] # Absent

StartTeardown ==
    /\ call = "none"
    /\ IF ~resolved
       THEN Return("ok") /\ UNCHANGED todo
       ELSE /\ todo' = DOMAIN tables
            /\ call' = IF ~cfg.merge THEN "sidecars"
                       ELSE IF ShardDirExists THEN "merge" ELSE "manifest"
            /\ answer' = "none"
    /\ torn' = (torn \/ resolved)
    /\ InTeardown
    /\ UNCHANGED <<files, spoiled>>

ShardRows(t) == UNION {shard[t][w] : w \in {v \in Shards : shard[t][v] # Absent}}

\* mergeTable concatenates whatever the glob finds.
Concatenated(t) == ShardRows(t)

\* mergeAll, in the order of the names: os.Create truncates <table>.csv, and an
\* error on the way leaves part of it.
MergeTable ==
    /\ call = "merge"
    /\ \E t \in todo :
         \/ /\ merged' = [merged EXCEPT ![t] = Concatenated(t)]
            /\ headed' = IF cfg.header THEN headed \cup {t} ELSE headed \ {t}
            /\ todo' = todo \ {t}
            /\ UNCHANGED <<call, answer>>
         \/ /\ \E part \in {{}, shard[t][0]} \ {Absent} : merged' = [merged EXCEPT ![t] = part]
            /\ headed' \in {headed \cup {t}, headed \ {t}}
            /\ Return("error")
            /\ UNCHANGED todo
    /\ InTeardown
    /\ UNCHANGED <<shard, manifest, torn, spoiled>>

\* os.RemoveAll(.shards), which may fail half-way.
RemoveShards ==
    /\ call = "merge"
    /\ todo = {}
    /\ \/ /\ shard' = ShardsRemoved
          /\ call' = "manifest"
          /\ UNCHANGED <<answer, spoiled>>
       \/ /\ \E t \in Tables, w \in Shards : shard' = [shard EXCEPT ![t][w] = Absent]
          /\ spoiled' = TRUE
          /\ Return("error")
    /\ InTeardown
    /\ UNCHANGED <<merged, headed, manifest, todo, torn>>

\* emitHeaderSidecars: <table>.header.csv when merge=false.
EmitHeaderSidecars ==
    /\ call = "sidecars"
    /\ IF cfg.header /\ todo # {}
       THEN \E t \in todo :
              \/ headed' = headed \cup {t} /\ todo' = todo \ {t} /\ UNCHANGED <<call, answer>>
              \/ Return("error") /\ UNCHANGED <<headed, todo>>
       ELSE call' = "manifest" /\ UNCHANGED <<headed, todo, answer>>
    /\ InTeardown
    /\ UNCHANGED <<shard, merged, manifest, torn, spoiled>>

\* A write that fails half-way leaves no manifest that can be read.
WriteManifest ==
    /\ call = "manifest"
    /\ \/ /\ manifest' = [t \in DOMAIN tables |-> tables[t].rows]
          /\ Return("torn down")
       \/ manifest' \in {manifest, Absent} /\ Return("error")
    /\ InTeardown
    /\ UNCHANGED <<shard, merged, headed, todo, torn, spoiled>>

Teardown == StartTeardown \/ MergeTable \/ RemoveShards \/ EmitHeaderSidecars \/ WriteManifest

-----------------------------------------------------------------------------
\* The process ends, orderly or not, wherever it is.  The directory stays, with
\* as much of the shards being written as had left the buffers.
Restart ==
    /\ process < MaxProcesses
    /\ process' = process + 1
    /\ \E n \in 0..Total :
         shard' = [t \in Tables |-> [w \in Shards |->
                     IF t = table /\ worker[w] = "drain" /\ n <= written[w]
                     THEN FirstRows(w, n) ELSE shard[t][w]]]
    /\ resolved' = FALSE
    /\ tables' = Unrecorded
    /\ call' = "none"
    /\ answer' = "ok"
    /\ worker' = [w \in Shards |-> "done"]
    /\ written' = [w \in Shards |-> 0]
    /\ todo' = {}
    /\ dropped' = FALSE
    /\ table' = Absent
    /\ workers' = 0
    /\ loads' = [t \in Tables |-> 0]
    /\ damaged' = {}
    /\ torn' = FALSE
    /\ spoiled' = FALSE
    /\ UNCHANGED <<cfg, merged, headed, manifest, inserts>>

Next ==
    \/ AcceptDDL \/ RejectQuery \/ WipeWorkloadDir \/ RefuseMethod
    \/ StartInsert \/ Insert \/ Teardown \/ Restart

Spec == Init /\ [][Next]_vars

-----------------------------------------------------------------------------
(* Properties.                                                             *)

\* The rows a reader of the directory finds for table t.
Visible(t) ==
    IF ~cfg.merge THEN ShardRows(t) ELSE IF merged[t] = Absent THEN {} ELSE merged[t]

TornDown == call = "none" /\ answer = "torn down"

\* Table t was loaded once, well, by a process that dropped its directory first.
LoadedOnce(t) == dropped /\ loads[t] = 1 /\ t \notin damaged

\* A table loaded once after a drop is complete when Teardown succeeds, whatever
\* earlier processes left in the directory, and however many workers loaded it;
\* also when an earlier Teardown failed in its merge or its manifest.
CompleteFiles ==
    TornDown /\ ~spoiled =>
        \A t \in Tables : LoadedOnce(t) =>
            /\ Cardinality(Visible(t)) = Total
            /\ manifest[t] = Total
            /\ cfg.header <=> t \in headed

\* The rows the manifest claims of a table loaded once, since the last drop or since the
\* process started, are in its files, though a failed load leaves shards that were never
\* recorded and the merge takes what it finds.  Every further load without a drop counts
\* its rows on top of the earlier ones (recordShards) while os.Create truncates the shards
\* of those: the manifest then claims up to one source more than the files hold for each
\* such load, and never more.  Not said of a Teardown that follows a load after another
\* Teardown, nor after a removal that failed half-way.
ManifestIsBacked ==
    TornDown /\ ~spoiled =>
        \A t \in DOMAIN manifest :
            manifest[t] <= Cardinality(Visible(t)) + (loads[t] - 1) * Total

=============================================================================
