---------------------------- MODULE DriverConfig ----------------------------
(***************************************************************************)
(* A driver's configuration, from the options of the command line and the  *)
(* configuration file to the message a driver is opened with               *)
(* (internal/runner/driver_preset.go, cmd/stroppy/commands/run/run.go):    *)
(* pure operators.  The nested options are a function from paths, such as  *)
(* <<"pool", "maxConns">>, to texts.                                       *)
(***************************************************************************)
EXTENDS Params

Rejected == [rejected |-> TRUE]
IsRejected(x) == x = Rejected

NoOptions == [path \in {} |-> ""]
NoDriver == [type |-> "", url |-> "", extra |-> NoOptions]

Presets ==
    [pg |-> "postgres", mysql |-> "mysql", pico |-> "picodata", ydb |-> "ydb", noop |-> "noop"]

NewDriverFromPreset(name) == [NoDriver EXCEPT !.type = Presets[name], !.url = name]

\* -d takes the name of a preset, or a JSON object.
UnknownPreset(p) == p.value \notin DOMAIN Presets \cup {"json"}

KnownFields == {"driverType", "url"}

IsPrefixOf(p, q) == Len(p) < Len(q) /\ SubSeq(q, 1, Len(p)) = p

\* An option may not be an object for one path and a value for another, and a field of the
\* driver itself is no object.
Conflicts(extra, path) ==
    \/ Len(path) > 1 /\ path[1] \in KnownFields
    \/ \E other \in DOMAIN extra : IsPrefixOf(path, other) \/ IsPrefixOf(other, path)

InvalidPath(path) == \E i \in DOMAIN path : path[i] = ""

With(values, key, value) ==
    [k \in DOMAIN values \cup {key} |-> IF k = key THEN value ELSE values[k]]

ApplyOverride(cfg, path, value) ==
    CASE path = <<"driverType">> -> [cfg EXCEPT !.type = value]
      [] path = <<"url">>        -> [cfg EXCEPT !.url = value]
      [] OTHER -> IF InvalidPath(path) \/ Conflicts(cfg.extra, path) THEN Rejected
                  ELSE [cfg EXCEPT !.extra = With(cfg.extra, path, value)]

-----------------------------------------------------------------------------
(* The pool: pool.f for any driver, and the driver's own block. *)

PostgresFields == {"maxConns", "minConns", "defaultQueryExecMode", "statementCacheCapacity"}
SqlFields == {"maxOpenConns", "maxIdleConns", "connMaxLifetime"}

Block(type) == IF type = "postgres" THEN "postgres" ELSE "sql"
BlockFields(block) == IF block = "postgres" THEN PostgresFields ELSE SqlFields

DriverSupportsPool(type) == type \in {"postgres", "mysql", "picodata", "ydb"}

\* Mutant: a pool option is never copied.
NeverSpecific(type, path) == {}

\* The driver's own name of a pool option, when the driver's type is known by now.
PoolSpecific(type, path) ==
    IF /\ Len(path) = 2 /\ path[1] = "pool" /\ DriverSupportsPool(type)
       /\ path[2] \in BlockFields(Block(type))
    THEN {<<Block(type), path[2]>>} ELSE {}

\* -D key=value: the option, and its copy into the driver's own block.
ApplyDriverOpt(cfg, path, value) ==
    LET set == ApplyOverride(cfg, path, value) IN
    IF IsRejected(set) \/ PoolSpecific(set.type, path) = {} THEN set
    ELSE ApplyOverride(set, CHOOSE p \in PoolSpecific(set.type, path) : TRUE, value)

\* Presets replace what the file says of a driver; options then apply in their order.
FileOrPreset(driverFile, presets) ==
    IF presets = {} THEN driverFile
    ELSE {IF p.value = "json" THEN p.json ELSE NewDriverFromPreset(p.value) : p \in presets}

ApplyDriverOpts(cfg, opts) ==
    LET step[n \in 0..Len(opts)] ==
            IF n = 0 THEN cfg
            ELSE IF IsRejected(step[n - 1]) THEN Rejected
            ELSE ApplyDriverOpt(step[n - 1], opts[n].path, opts[n].value)
    IN step[Len(opts)]

-----------------------------------------------------------------------------
(* The message a driver is opened with. *)

DriverType(text) ==
    CASE text = ""                     -> {"unspecified"}
      [] text \in {"picodata", "pico"} -> {"picodata"}
      [] text \in {"postgres", "mysql", "ydb", "noop", "csv"} -> {text}
      [] OTHER -> {}

ErrorModes == {"", "silent", "log", "throw", "fail", "abort"}
ScalarFields == {"bulkSize", "caCertFile", "authUser", "authPassword", "authToken"}

\* The options under a first name: the value itself has the path <<>>.
Under(extra, name) ==
    LET paths == {p \in DOMAIN extra : p[1] = name} IN
    [p \in {Tail(q) : q \in paths} |-> extra[<<name>> \o p]]

Given(extra, name) == Under(extra, name) # NoOptions

\* The blocks the driver's type leaves in the message: a postgres driver drops sql, the
\* others drop postgres, and a driver without a pool ignores pool.
KeptBlocks(type) ==
    (IF type = "postgres" THEN {"postgres"} ELSE {"sql"})
        \cup (IF DriverSupportsPool(type) THEN {"pool"} ELSE {})
DroppedBlocks(type) == {"pool", "postgres", "sql"} \ KeptBlocks(type)

\* protojson accepts a block: every field is one of the message's.
ValidBlock(values, fields) == \A p \in DOMAIN values : Len(p) = 1 /\ p[1] \in fields

ExtrasAccepted(type, extra) ==
    LET names == {p[1] : p \in DOMAIN extra} \ (DroppedBlocks(type) \cup {"defaultTxIsolation"})
        fields == BlockFields(Block(type)) IN
    /\ names \subseteq ScalarFields \cup {"errorMode"} \cup KeptBlocks(type)
    /\ \A p \in DOMAIN extra :
          p[1] \in names \cap (ScalarFields \cup {"errorMode"}) => Len(p) = 1
    /\ "errorMode" \in names => extra[<<"errorMode">>] \in ErrorModes
    /\ \A b \in KeptBlocks(type) : ValidBlock(Under(extra, b), fields)

\* mergePoolDriverSpecific: a field of the driver's own block wins over pool's.
MergePool(type, extra) ==
    LET pool == IF DriverSupportsPool(type) THEN Under(extra, "pool") ELSE NoOptions
        own == Under(extra, Block(type)) IN
    [p \in DOMAIN pool \cup DOMAIN own |-> IF p \in DOMAIN own THEN own[p] ELSE pool[p]]

\* POOL_SIZE, from the process before the merged -e and file values; what is not a positive
\* number is ignored.
LegacyPoolSize(environ, rootEnv) ==
    LET size == IF "POOL_SIZE" \in DOMAIN environ THEN environ["POOL_SIZE"]
                ELSE IF "POOL_SIZE" \in DOMAIN rootEnv THEN rootEnv["POOL_SIZE"] ELSE "" IN
    IF size \in DOMAIN Numerals.int /\ size \notin {"-1", "0"} THEN {size} ELSE {}

ApplyLegacyPoolSize(type, pool, size) ==
    IF type = "postgres" /\ size # {}
    THEN LET n == CHOOSE s \in size : TRUE IN
         With(With(pool, <<"maxConns">>, n), <<"minConns">>, n)
    ELSE pool

BuildDriverConfig(cfg, environ, rootEnv) ==
    IF DriverType(cfg.type) = {} THEN Rejected
    ELSE LET type == CHOOSE t \in DriverType(cfg.type) : TRUE IN
         IF ~ExtrasAccepted(type, cfg.extra) THEN Rejected
         ELSE [type |-> type, url |-> cfg.url,
               pool |-> ApplyLegacyPoolSize(type, MergePool(type, cfg.extra),
                                            LegacyPoolSize(environ, rootEnv))]

\* Without driver 0, the local postgres.
DefaultDriver == [type |-> "postgres", url |-> "local", pool |-> NoOptions]
=============================================================================
