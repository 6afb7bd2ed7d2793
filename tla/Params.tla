------------------------------- MODULE Params -------------------------------
(***************************************************************************)
(* Workload parameters (pkg/bench/param.go) and the scenario they describe *)
(* (defineWorkload and spec in pkg/bench/runtime.go): pure operators over  *)
(* the channels a value may come from.  A map from names to texts is a     *)
(* function over the names present.                                        *)
(***************************************************************************)
EXTENDS Integers, Sequences, FiniteSets

Nothing == [key \in {} |-> ""]

At(values, key) == IF key \in DOMAIN values THEN {values[key]} ELSE {}

Least(S) == CHOOSE i \in S : \A j \in S : i <= j

\* The value of the first of names that is set, as a set of at most one.
FirstSet(values, names) ==
    LET present == {i \in DOMAIN names : names[i] \in DOMAIN values} IN
    IF present = {} THEN {} ELSE {values[names[Least(present)]]}

-----------------------------------------------------------------------------
(* Texts and what they parse to. *)

Numerals == [int      |-> [t \in {"-1", "0", "1", "2"} |->
                             CASE t = "-1" -> -1 [] t = "0" -> 0 [] t = "1" -> 1 [] t = "2" -> 2],
             duration |-> [t \in {"-1s", "0s", "10s"} |->
                             CASE t = "-1s" -> -1 [] t = "0s" -> 0 [] t = "10s" -> 10]]

\* Strings accept every text; a JSON null is refused by every type.
Readable(type, source, text) ==
    /\ source = "config" => text # "null"
    /\ type # "string" => text \in DOMAIN Numerals[type]

-----------------------------------------------------------------------------
(* Declarations. *)

Declared(scope, name, env, config, type, default, aliases) ==
    [scope |-> scope, name |-> name, env |-> env, config |-> config, type |-> type,
     default |-> default, aliases |-> aliases]

\* ITER names the iterations, except when a legacy DURATION decides the run.
ScenarioParams(legacyDuration) ==
    <<Declared("run", "executor", "EXECUTOR", "executor", "string", "shared-iterations", <<>>),
      Declared("run", "vus", "VUS", "vus", "int", "1", <<>>),
      Declared("run", "iterations", "ITERATIONS", "iterations", "int", "1",
               IF legacyDuration THEN <<>> ELSE <<"ITER">>),
      Declared("run", "duration", "DURATION", "duration", "duration", "0s", <<>>),
      Declared("run", "query-timeout", "QUERY_TIMEOUT", "queryTimeout", "duration", "0s", <<>>)>>

SqlFileParam == Declared("workload", "sql-file", "SQL_FILE", "sqlFile", "string", "", <<>>)
WarehousesParam ==
    Declared("workload", "scale-factor", "SCALE_FACTOR", "scaleFactor", "int", "1", <<"WAREHOUSES">>)

\* The registered workloads, each with the parameters that differ in kind.
WorkloadParams ==
    [execute_sql |-> <<SqlFileParam>>, tpcc |-> <<WarehousesParam, SqlFileParam>>, simple |-> <<>>]

Reserved == {"driver", "driver-opt", "duration", "env", "executor", "file", "help", "iterations",
             "no-steps", "steps", "vus"}

EnvNames(d) == <<d.env>> \o d.aliases

\* register accepts a declaration beside the ones before it.
Registers(descs, i) ==
    LET before == {descs[j] : j \in 1..(i - 1)} IN
    /\ descs[i].scope = "workload" => descs[i].name \notin Reserved
    /\ \A d \in before : d.name # descs[i].name
    /\ \A m, n \in DOMAIN EnvNames(descs[i]) :
          m # n => EnvNames(descs[i])[m] # EnvNames(descs[i])[n]
    /\ \A d \in before : \A m \in DOMAIN EnvNames(descs[i]), n \in DOMAIN EnvNames(d) :
          EnvNames(descs[i])[m] # EnvNames(d)[n]

-----------------------------------------------------------------------------
(* Resolution.  inputs holds the channels cli, legacyEnv, run, workload and *)
(* configEnv; environ is the environment of the process.                   *)

ChannelOrder == <<"cli", "process", "legacy-env", "config", "config-env">>

Channel(inputs, environ, d, source) ==
    CASE source = "cli"        -> At(inputs.cli, d.name)
      [] source = "process"    -> FirstSet(environ, EnvNames(d))
      [] source = "legacy-env" -> FirstSet(inputs.legacyEnv, EnvNames(d))
      [] source = "config"     -> At(IF d.scope = "run" THEN inputs.run ELSE inputs.workload, d.config)
      [] source = "config-env" -> FirstSet(inputs.configEnv, EnvNames(d))

ResolveParam(inputs, environ, d) ==
    LET set == {i \in DOMAIN ChannelOrder : Channel(inputs, environ, d, ChannelOrder[i]) # {}} IN
    IF set = {} THEN [source |-> "default", value |-> d.default]
    ELSE LET source == ChannelOrder[Least(set)] IN
         [source |-> source, value |-> CHOOSE v \in Channel(inputs, environ, d, source) : TRUE]

Explicit(p) == p.source # "default"

\* Mutant: only -e DURATION is seen as legacy.
DurationFromFlag(inputs, environ) == "DURATION" \in DOMAIN inputs.legacyEnv

\* Which channel the effective duration comes from, decided before anything is parsed.
EffectiveDurationIsLegacy(inputs, environ) ==
    /\ "duration" \notin DOMAIN inputs.cli
    /\ \/ "DURATION" \in DOMAIN environ \cup DOMAIN inputs.legacyEnv
       \/ "duration" \notin DOMAIN inputs.run /\ "DURATION" \in DOMAIN inputs.configEnv

Descriptors(workload, inputs, environ) ==
    ScenarioParams(EffectiveDurationIsLegacy(inputs, environ)) \o WorkloadParams[workload]

Names(descs, scope, field) == {descs[i][field] : i \in {j \in DOMAIN descs : descs[j].scope \in scope}}

\* finish: every typed or configured name belongs to a declaration.
NoUnknown(descs, inputs) ==
    /\ DOMAIN inputs.cli \subseteq Names(descs, {"run", "workload"}, "name")
    /\ DOMAIN inputs.run \subseteq Names(descs, {"run"}, "config")
    /\ DOMAIN inputs.workload \subseteq Names(descs, {"workload"}, "config")

ResolveAll(descs, inputs, environ) ==
    [name \in Names(descs, {"run", "workload"}, "name") |->
        ResolveParam(inputs, environ, CHOOSE d \in {descs[i] : i \in DOMAIN descs} : d.name = name)]

AllReadable(descs, values) ==
    \A i \in DOMAIN descs : LET p == values[descs[i].name] IN
        Explicit(p) => Readable(descs[i].type, p.source, p.value)

\* Define and finish report no error.
Defines(workload, inputs, environ) ==
    LET descs == Descriptors(workload, inputs, environ) IN
    /\ \A i \in DOMAIN descs : Registers(descs, i)
    /\ AllReadable(descs, ResolveAll(descs, inputs, environ))
    /\ NoUnknown(descs, inputs)

-----------------------------------------------------------------------------
(* The scenario. *)

Number(p, type) == Numerals[type][p.value]

LegacyDuration(values) == values["duration"].source \in {"process", "legacy-env", "config-env"}

Executor(values) ==
    IF LegacyDuration(values) /\ ~Explicit(values["executor"])
    THEN "constant-vus" ELSE values["executor"].value

\* spec accepts the resolved parameters.
SpecAccepts(values) ==
    LET duration == values["duration"] IN
    /\ Number(values["vus"], "int") >= 1
    /\ Number(values["iterations"], "int") >= 1
    /\ Explicit(duration) => Number(duration, "duration") > 0
    /\ Explicit(duration) /\ ~LegacyDuration(values) =>
          Explicit(values["executor"]) /\ Executor(values) = "constant-vus"
    /\ \/ Executor(values) = "shared-iterations" /\ ~Explicit(duration)
       \/ Executor(values) = "constant-vus" /\ Explicit(duration)

ScenarioSpec(values) ==
    [executor |-> Executor(values), vus |-> values["vus"].value,
     iterations |-> values["iterations"].value, duration |-> values["duration"].value]
=============================================================================
