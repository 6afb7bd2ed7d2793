----------------------------- MODULE RunCommand -----------------------------
(***************************************************************************)
(* stroppy run, from its arguments to the iterations: the arguments are    *)
(* parsed one by one, merged with the configuration file and the           *)
(* environment of the process, and become a workload, its parameters, its  *)
(* driver, its steps and the SQL it runs (cmd/stroppy/commands/run/run.go, *)
(* internal/runner/config_file.go, pkg/bench/runtime.go).                  *)
(*                                                                         *)
(* An argument is a flag with its value, a flag lacking its value, or a    *)
(* word; the disk and the environment are chosen when they are first read. *)
(***************************************************************************)
EXTENDS DriverConfig

CONSTANT Studies     \* each a set of arguments, how many of them a command may have,
                     \* whether -- may follow them, the disks and the environments

\* Inline SQL has a space in it, a path ends in .sql, and a file describes at most one driver.
ASSUME StudiesAssumption ==
    \A s \in Studies :
        /\ \A a \in s.args :
              /\ a.flag = "word" /\ a.shape \in {"inline", "path"} => a.text # ""
              /\ a.flag = "-d" /\ a.value = "json" => DOMAIN NoDriver \subseteq DOMAIN a.json
              /\ a.flag = "-D" => a.path \in Seq(STRING)
        /\ \A disk \in s.disks : \A path \in DOMAIN disk : \A c, d \in disk[path].drivers :
              DOMAIN NoDriver \subseteq DOMAIN c /\ d = c

VARIABLES
    study,           \* the study the command belongs to
    parsed,          \* runArgs
    place,           \* where the parser stands: before, in or after the positionals
    phase,           \* what the command does next
    result,          \* how it ended: "none", "ok", "invalid" or "failed"
    environ,         \* the environment of the process
    launched,        \* the environment it was started with
    file,            \* the configuration file that was loaded, if any
    plan,            \* what the arguments and the file amount to
    ran              \* the SQL that Setup read

input == <<study, parsed, place>>
vars == <<input, phase, result, environ, launched, file, plan, ran>>

NoArgs == [words |-> <<>>, file |-> {}, steps |-> <<>>, noSteps |-> <<>>, env |-> <<>>,
           params |-> Nothing, presets |-> {}, opts |-> <<>>, help |-> FALSE, dash |-> FALSE]

NoFile == [sound |-> TRUE, script |-> <<>>, sql |-> "", steps |-> <<>>, noSteps |-> <<>>, env |-> Nothing,
           run |-> Nothing, params |-> Nothing, drivers |-> {}]

NoSource == [kind |-> "none", value |-> "", explicit |-> FALSE]
NoPlan == [workload |-> "none", steps |-> {}, noSteps |-> {}, inputs |-> Nothing,
           rootEnv |-> Nothing, source |-> NoSource, driver |-> NoDriver, opened |-> Rejected,
           values |-> Nothing, scenario |-> Nothing, filter |-> [only |-> {}, except |-> {}]]

Init ==
    /\ study \in Studies
    /\ parsed = NoArgs /\ place = "before"
    /\ phase = "args" /\ result = "none"
    /\ environ = Nothing /\ launched = Nothing
    /\ file = NoFile /\ plan = NoPlan /\ ran = NoSource

-----------------------------------------------------------------------------
(* parseRunArgs. *)

\* A word has a text and a shape: "name", "inline" SQL, a "path" ending in .sql, "pair" for
\* key=value, or "dashed".
Text(words, n) == IF Len(words) < n THEN "" ELSE words[n].text
Shape(words) == IF words = <<>> THEN "none" ELSE words[1].shape

RangeOf(seq) == {seq[i] : i \in DOMAIN seq}

\* The names in a list of groups: the empty ones are dropped.
NormalizeStepNames(groups) == UNION RangeOf(groups)

End(how) == phase' = "ended" /\ result' = how
Continue(next) == phase' = next /\ UNCHANGED result

Refuse == End("invalid") /\ UNCHANGED input

\* The flags of the command before this argument, and this one.
ArgsSoFar == Len(parsed.words) + Len(parsed.steps) + Len(parsed.noSteps) + Len(parsed.env)
                + Cardinality(DOMAIN parsed.params) + Len(parsed.opts)
                + Cardinality(parsed.presets) + Cardinality(parsed.file)

Accept(args) ==
    /\ parsed' = args /\ UNCHANGED <<study, phase, result>>
    /\ place' = IF place = "in" THEN "after" ELSE place

ParseHelpFlag(a) == a.flag = "--help" /\ Accept([parsed EXCEPT !.help = TRUE])

ParseStepsFlag(a) ==
    \/ a.flag = "--steps" /\ Accept([parsed EXCEPT !.steps = Append(@, a.value)])
    \/ a.flag = "--no-steps" /\ Accept([parsed EXCEPT !.noSteps = Append(@, a.value)])

ParseFileFlag(a) == a.flag = "-f" /\ Accept([parsed EXCEPT !.file = {a.value}])

ParseEnvFlag(a) == a.flag = "-e" /\ Accept([parsed EXCEPT !.env = Append(@, a)])

ParseDriverFlag(a) == a.flag = "-d" /\ Accept([parsed EXCEPT !.presets = {a}])

ParseDriverOptFlag(a) == a.flag = "-D" /\ Accept([parsed EXCEPT !.opts = Append(@, a)])

ParseTypedParamFlag(a) ==
    a.flag = "--" /\ Accept([parsed EXCEPT !.params = With(@, a.name, a.value)])

\* A flag at the end of the command, or before another flag, lacks its value.
LackValue(a) == a.flag = "lacks value" /\ Refuse

\* A positional: the script, then the SQL file, next to each other.
ApplyPositional(a) ==
    /\ a.flag = "word"
    /\ IF a.shape \in {"pair", "dashed"} \/ place = "after" \/ Len(parsed.words) = 2
       THEN Refuse
       ELSE /\ parsed' = [parsed EXCEPT !.words = Append(@, a)]
            /\ place' = "in"
            /\ UNCHANGED <<study, phase, result>>

ParseArg ==
    /\ phase = "args" /\ ~parsed.dash /\ ArgsSoFar < study.max
    /\ \E a \in study.args :
          \/ ParseHelpFlag(a) \/ ParseStepsFlag(a) \/ ParseFileFlag(a) \/ ParseEnvFlag(a)
          \/ ParseDriverFlag(a) \/ ParseDriverOptFlag(a) \/ ParseTypedParamFlag(a)
          \/ LackValue(a) \/ ApplyPositional(a)
    /\ UNCHANGED <<environ, launched, file, plan, ran>>

\* What follows -- is kept for k6, which is gone.
Dash ==
    /\ phase = "args" /\ study.dash /\ ~parsed.dash
    /\ parsed' = [parsed EXCEPT !.dash = TRUE]
    /\ UNCHANGED <<study, place, phase, result, environ, launched, file, plan, ran>>

StepsExclude(steps, noSteps) ==
    NormalizeStepNames(steps) # {} /\ NormalizeStepNames(noSteps) # {}

\* Help is that of the command, or of a workload that exists.
PrintHelp(words) ==
    End(IF Shape(words) \in {"none", "inline", "path"} \/ Text(words, 1) \in DOMAIN WorkloadParams
        THEN "ok" ELSE "invalid")

EndOfArgs ==
    /\ phase = "args"
    /\ IF StepsExclude(parsed.steps, parsed.noSteps) THEN End("invalid")
       ELSE IF parsed.help /\ parsed.words # <<>> THEN PrintHelp(parsed.words)
       ELSE Continue("load")
    /\ \E e \in study.environs : environ' = e /\ launched' = e
    /\ UNCHANGED <<input, file, plan, ran>>

-----------------------------------------------------------------------------
(* The configuration file. *)

Upper(key) == IF key = "iter" THEN "ITER" ELSE IF key = "sql_file" THEN "SQL_FILE" ELSE key

NormalizeEnv(env) ==
    [key \in {Upper(k) : k \in DOMAIN env} |-> env[CHOOSE k \in DOMAIN env : Upper(k) = key]]

EnvCollides(env) == \E j, k \in DOMAIN env : j # k /\ Upper(j) = Upper(k)

\* A file is an object of known fields, each given once.
Decodes(config) == config.sound

DefaultConfigFile == "stroppy-config.json"
FilePath == IF parsed.file = {} THEN DefaultConfigFile ELSE CHOOSE p \in parsed.file : TRUE

\* LoadRunConfig: a missing file is an error only when the command names it.
Load ==
    /\ phase = "load"
    /\ \E disk \in study.disks :
          IF FilePath \in DOMAIN disk
          THEN IF ~Decodes(disk[FilePath]) \/ EnvCollides(disk[FilePath].env)
               THEN End("invalid") /\ UNCHANGED file
               ELSE /\ file' = [disk[FilePath] EXCEPT !.env = NormalizeEnv(@)]
                    /\ Continue("merge")
          ELSE /\ UNCHANGED file
               /\ IF parsed.file # {} THEN End("invalid") ELSE Continue("merge")
    /\ UNCHANGED <<input, environ, launched, plan, ran>>

-----------------------------------------------------------------------------
(* RunE: the command line over the file. *)

Over(cli, fromFile) == IF cli # "" THEN cli ELSE fromFile
EffectiveSteps(cli, fromFile) == NormalizeStepNames(IF Len(cli) > 0 THEN cli ELSE fromFile)

ScriptWord == IF parsed.words # <<>> THEN parsed.words ELSE file.script
Script == Text(ScriptWord, 1)
Sql == Over(Text(parsed.words, 2), file.sql)
Steps == EffectiveSteps(parsed.steps, file.steps)
NoSteps == EffectiveSteps(parsed.noSteps, file.noSteps)

\* ParseEnvArg refuses a -e without its =; ResolveEnvOverrides keeps the last of a key.
BadEnvArg == \E i \in DOMAIN parsed.env : parsed.env[i].name = ""
EnvOverrides ==
    LET last(k) == CHOOSE i \in DOMAIN parsed.env :
                      /\ Upper(parsed.env[i].name) = k
                      /\ \A j \in DOMAIN parsed.env : Upper(parsed.env[j].name) = k => j <= i
    IN [k \in {Upper(a.name) : a \in RangeOf(parsed.env)} |-> parsed.env[last(k)].value]

MergeLegacyEnv(configEnv, cliEnv) ==
    [k \in DOMAIN configEnv \cup DOMAIN cliEnv |->
        IF k \in DOMAIN cliEnv THEN cliEnv[k] ELSE configEnv[k]]

ParamInputs ==
    [cli |-> parsed.params, legacyEnv |-> EnvOverrides, run |-> file.run,
     workload |-> file.params, configEnv |-> file.env]

\* The file's driver 0, replaced by a preset, with the options applied in their order.
DriverConfigs ==
    LET base == FileOrPreset(file.drivers, parsed.presets) IN
    IF base = {} /\ parsed.opts = <<>> THEN {}
    ELSE {ApplyDriverOpts(IF base = {} THEN NoDriver ELSE CHOOSE c \in base : TRUE, parsed.opts)}

Invalid ==
    \/ Script = ""
    \/ Steps # {} /\ NoSteps # {}
    \/ parsed.dash
    \/ BadEnvArg
    \/ \E p \in parsed.presets : UnknownPreset(p)
    \/ \E c \in DriverConfigs : IsRejected(c)

Merge ==
    /\ phase = "merge"
    /\ IF parsed.help THEN PrintHelp(ScriptWord) /\ UNCHANGED plan
       ELSE IF Invalid THEN End("invalid") /\ UNCHANGED plan
       ELSE /\ plan' = [plan EXCEPT !.steps = Steps, !.noSteps = NoSteps, !.inputs = ParamInputs,
                                    !.rootEnv = MergeLegacyEnv(file.env, EnvOverrides)]
            /\ Continue("route")
    /\ UNCHANGED <<input, environ, launched, file, ran>>

-----------------------------------------------------------------------------
(* The route to a workload and the SQL it is to run. *)

\* executeSQLGoRoute: inline SQL, a file of SQL, or the preset with its SQL argument.
RoutesToSql == Shape(ScriptWord) \in {"inline", "path"} \/ Script = "execute_sql"

Source(kind, value, explicit) == [kind |-> kind, value |-> value, explicit |-> explicit]

\* A body before a file; empty texts count for nothing.
SourceOf(env) ==
    LET body == At(env, "STROPPY_SQL_BODY") \ {""}
        path == At(env, "SQL_FILE") \ {""} IN
    {Source("body", t, FALSE) : t \in body}
        \cup (IF body = {} THEN {Source("file", t, FALSE) : t \in path} ELSE {})

RouteSource ==
    CASE Shape(ScriptWord) = "inline" -> {Source("body", Script, FALSE)}
      [] Shape(ScriptWord) = "path"   -> {Source("file", Script, FALSE)}
      [] OTHER -> {Source("file", t, FALSE) : t \in {Sql} \ {""}}

ExplicitCliSource == Text(parsed.words, 2) # "" \/ Shape(parsed.words) \in {"inline", "path"}

FirstOf(sets) ==
    LET full == {i \in DOMAIN sets : sets[i] # {}} IN
    IF full = {} THEN NoSource ELSE CHOOSE s \in sets[Least(full)] : TRUE

ResolveSqlSource ==
    FirstOf(<<{Source("file", t, TRUE) : t \in At(parsed.params, "sql-file")},
              IF ExplicitCliSource THEN {[s EXCEPT !.explicit = TRUE] : s \in RouteSource} ELSE {},
              SourceOf(environ),
              SourceOf(EnvOverrides),
              {Source("file", t, FALSE) : t \in At(file.params, "sqlFile")},
              RouteSource,
              SourceOf(file.env)>>)

SqlKeys == {"STROPPY_SQL_BODY", "SQL_FILE"}
Without(env, keys) == [k \in DOMAIN env \ keys |-> env[k]]

\* Mutant: the source is added beside the other one.
AddSqlSource(env, source) ==
    IF source.kind = "none" THEN env
    ELSE With(env, IF source.kind = "body" THEN "STROPPY_SQL_BODY" ELSE "SQL_FILE", source.value)

ApplySqlSource(env, source) ==
    LET others == Without(env, SqlKeys) IN
    CASE source.kind = "body" -> With(others, "STROPPY_SQL_BODY", source.value)
      [] source.kind = "file" -> With(others, "SQL_FILE", source.value)
      [] OTHER -> others

\* withProcessSQLSource masks the environment only for an explicit source.
RouteSql ==
    /\ plan' = [plan EXCEPT !.workload = "execute_sql", !.source = ResolveSqlSource,
                            !.rootEnv = ApplySqlSource(@, ResolveSqlSource)]
    /\ environ' = IF ResolveSqlSource.explicit THEN ApplySqlSource(environ, ResolveSqlSource)
                  ELSE environ
    /\ Continue("drivers")

\* withEffectiveSQLFile: the SQL argument of a workload becomes a typed parameter.
RouteWorkload ==
    /\ IF Script \notin DOMAIN WorkloadParams THEN End("invalid") /\ UNCHANGED plan
       ELSE IF Sql # "" /\ SqlFileParam \notin RangeOf(WorkloadParams[Script])
       THEN End("invalid") /\ UNCHANGED plan
       ELSE /\ plan' = [plan EXCEPT !.workload = Script,
                            !.inputs.cli = IF Sql = "" \/ "sql-file" \in DOMAIN @ THEN @
                                           ELSE With(@, "sql-file", Sql)]
            /\ Continue("drivers")
    /\ UNCHANGED environ

Route ==
    /\ phase = "route"
    /\ IF RoutesToSql THEN RouteSql ELSE RouteWorkload
    /\ UNCHANGED <<input, launched, file, ran>>

-----------------------------------------------------------------------------
(* runGoWorkload and bench.Run. *)

StepsKeys == {"STROPPY_STEPS", "STROPPY_NO_STEPS"}

\* What withProcessSQLSource's defers put back, whichever way run returned.
Restored(env) ==
    IF ~plan.source.explicit THEN env
    ELSE LET kept == Without(env, SqlKeys) IN
         [k \in DOMAIN kept \cup (DOMAIN launched \cap SqlKeys) |->
             IF k \in DOMAIN kept THEN kept[k] ELSE launched[k]]

Return(how) == End(how) /\ environ' = Restored(environ)

\* The message of driver 0, and the steps, published through the environment.
RunGoWorkload ==
    /\ phase = "drivers"
    /\ LET configs == DriverConfigs
           built == IF configs = {} THEN DefaultDriver
                    ELSE BuildDriverConfig(CHOOSE c \in configs : TRUE, environ, plan.rootEnv)
           others == Without(environ, StepsKeys) IN
       IF IsRejected(built) THEN Return("invalid") /\ UNCHANGED plan
       ELSE /\ plan' = [plan EXCEPT !.opened = built]
            /\ environ' = CASE plan.steps # {}   -> With(others, "STROPPY_STEPS", plan.steps)
                            [] plan.noSteps # {} -> With(others, "STROPPY_NO_STEPS", plan.noSteps)
                            [] OTHER -> others
            /\ Continue("define")
    /\ UNCHANGED <<input, launched, file, ran>>

\* defineWorkload and spec.
Define ==
    /\ phase = "define"
    /\ LET descs == Descriptors(plan.workload, plan.inputs, environ)
           values == ResolveAll(descs, plan.inputs, environ) IN
       IF Defines(plan.workload, plan.inputs, environ) /\ SpecAccepts(values)
       THEN /\ plan' = [plan EXCEPT !.values = values, !.scenario = ScenarioSpec(values)]
            /\ Continue("open") /\ UNCHANGED environ
       ELSE Return("failed") /\ UNCHANGED plan
    /\ UNCHANGED <<input, launched, file, ran>>

NewStepFilter(env) ==
    [only   |-> UNION At(env, "STROPPY_STEPS"),
     except |-> UNION At(env, "STROPPY_NO_STEPS")]

\* The root state reads the steps; a negative timeout or an unknown driver ends the run, and
\* a driver opens or fails.
Open ==
    /\ phase = "open"
    /\ \/ /\ plan.values["query-timeout"].value # "-1s"
          /\ plan.opened.type # "unspecified"
          /\ plan' = [plan EXCEPT !.filter = NewStepFilter(environ)]
          /\ Continue("setup") /\ UNCHANGED environ
       \/ Return("failed") /\ UNCHANGED plan
    /\ UNCHANGED <<input, launched, file, ran>>

\* Env reads what is set and not empty, the process before the run's own values.
EnvText(key) == FirstOf(<<{Source("body", t, FALSE) : t \in At(environ, key) \ {""}},
                          {Source("body", t, FALSE) : t \in At(plan.rootEnv, key) \ {""}}>>)

SqlFile == IF "sql-file" \in DOMAIN plan.values THEN plan.values["sql-file"].value ELSE ""

\* execute_sql runs the body, else the file; the others take the file over their dialect's own,
\* and panic when they cannot read it.
Setup ==
    /\ phase = "setup"
    /\ LET body == EnvText("STROPPY_SQL_BODY") IN
       IF plan.workload = "execute_sql" /\ body # NoSource
       THEN ran' = body /\ Continue("running") /\ UNCHANGED environ
       ELSE \/ /\ SqlFile # "" \/ plan.workload # "execute_sql"
               /\ ran' = IF SqlFile = "" THEN NoSource ELSE Source("file", SqlFile, FALSE)
               /\ Continue("running") /\ UNCHANGED environ
            \/ /\ SqlFile # "" \/ plan.workload = "execute_sql"
               /\ Return(IF plan.workload = "execute_sql" THEN "failed" ELSE "crashed")
               /\ UNCHANGED ran
    /\ UNCHANGED <<input, launched, file, plan>>

\* The scenario ends, well or not.
Finish ==
    /\ phase = "running"
    /\ \E how \in {"ok", "failed"} : Return(how)
    /\ UNCHANGED <<input, launched, file, plan, ran>>

Stop == phase = "ended" /\ UNCHANGED vars

Next ==
    \/ ParseArg \/ Dash \/ EndOfArgs \/ Load \/ Merge \/ Route \/ RunGoWorkload \/ Define
    \/ Open \/ Setup \/ Finish \/ Stop

Spec == Init /\ [][Next]_vars /\ WF_vars(Next)

-----------------------------------------------------------------------------
(* Properties. *)

\* The SQL the command line itself names: --sql-file, else the script or its SQL argument.
Named ==
    IF "sql-file" \in DOMAIN parsed.params
    THEN {[kind |-> "file", value |-> t] : t \in {parsed.params["sql-file"]} \ {""}}
    ELSE CASE Shape(parsed.words) = "inline" -> {[kind |-> "body", value |-> parsed.words[1].text]}
           [] Shape(parsed.words) = "path"   -> {[kind |-> "file", value |-> parsed.words[1].text]}
           [] OTHER -> {[kind |-> "file", value |-> t] : t \in {Text(parsed.words, 2)} \ {""}}

\* SQL that the command line names is the SQL that runs, whatever SQL the environment, -e and
\* the configuration file name; and when the command has ended, the environment names the SQL
\* it named at the start.
NamedSqlRuns ==
    /\ phase = "running" => \A n \in Named : ran.kind = n.kind /\ ran.value = n.value
    /\ phase = "ended" => \A key \in SqlKeys : At(environ, key) = At(launched, key)

WithoutIter(env) == Without(env, {"ITER"})

\* A run that was accepted is the run that was asked for: only the steps asked for run, by the
\* command line's lists, else by the file's, never by the environment; a parameter typed on the
\* command line is never overridden; a duration and constant-vus come together; and when a
\* legacy DURATION decides, ITER counts for nothing: without it the same scenario runs.
RunAsAsked ==
    /\ phase \in {"setup", "running"} =>
        /\ plan.filter.only = EffectiveSteps(parsed.steps, file.steps)
        /\ plan.filter.except = EffectiveSteps(parsed.noSteps, file.noSteps)
    /\ phase = "running" =>
        /\ \A name \in DOMAIN plan.scenario \cap DOMAIN parsed.params :
              plan.scenario[name] = parsed.params[name]
        /\ (plan.scenario.executor = "constant-vus") = Explicit(plan.values["duration"])
        /\ LegacyDuration(plan.values) =>
              LET inputs == [plan.inputs EXCEPT !.legacyEnv = WithoutIter(@),
                                                !.configEnv = WithoutIter(@)]
                  env == WithoutIter(environ) IN
              ScenarioSpec(ResolveAll(Descriptors(plan.workload, inputs, env), inputs, env))
                  = plan.scenario

\* The type of driver 0 when no option changes it.
SettledType ==
    IF \E i \in DOMAIN parsed.opts : parsed.opts[i].path = <<"driverType">> THEN {}
    ELSE {c.type : c \in FileOrPreset(file.drivers, parsed.presets)}

\* The values the options give to a field of the pool, in their order.
PoolOpts(field) ==
    {i \in DOMAIN parsed.opts : parsed.opts[i].path \in {<<"pool", field>>} \cup
                                    {<<Block(t), field>> : t \in SettledType}}
LastOf(S) == CHOOSE i \in S : \A j \in S : j <= i

\* A pool option of the command line beats both the pool and the driver's own block of the
\* file, and the last one given wins, when the driver's type is known before the options; only
\* POOL_SIZE beats it.
PoolAsAsked ==
    phase = "running" =>
        \A type \in SettledType, field \in {"maxConns", "maxOpenConns"} :
            (/\ PoolOpts(field) # {}
             /\ DriverSupportsPool(type)
             /\ type = "postgres" => LegacyPoolSize(environ, plan.rootEnv) = {})
            => plan.opened.pool[<<field>>] = parsed.opts[LastOf(PoolOpts(field))].value
=============================================================================
