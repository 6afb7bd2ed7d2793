--------------------------- MODULE RunCommandProofs ---------------------------
(***************************************************************************)
(* stroppy run proved for every set of arguments, files and environments:  *)
(* the SQL, the steps, the parameters and the pool of the run are those    *)
(* the command line asks for; and the opening of its driver, for every     *)
(* behaviour of the database.                                              *)
(***************************************************************************)
EXTENDS RunCommand, DriverOpen, SequenceTheorems, WellFoundedInduction, TLAPS

-----------------------------------------------------------------------------
(* The inductive invariant. *)

Early == {"args", "load", "merge", "route"}
Later == {"drivers", "define", "open", "setup", "running"}
InputFields == {"cli", "legacyEnv", "run", "workload", "configEnv"}

\* The records have their fields, and the words of the command are arguments.
Shapes ==
    /\ study \in Studies
    /\ phase \in Early \cup Later \cup {"ended"}
    /\ {"words", "file", "steps", "noSteps", "env", "params", "presets", "opts", "help", "dash"}
           \subseteq DOMAIN parsed
    /\ parsed.words \in Seq({a \in study.args : a.flag = "word"})
    /\ {"workload", "steps", "noSteps", "inputs", "rootEnv", "source", "opened", "values",
        "scenario", "filter"} \subseteq DOMAIN plan
    /\ phase \in Early => plan.source = NoSource

\* The process keeps the environment it was started with, but for the SQL an explicit source
\* masks until the command ends.
Environment ==
    /\ phase \in Early => environ = launched
    /\ phase = "ended" \/ (phase \in Later /\ ~plan.source.explicit) =>
           \A key \in SqlKeys : At(environ, key) = At(launched, key)

\* What Merge made of the arguments and the file.
Merged ==
    phase \in Later \cup {"route"} =>
        /\ plan.steps = Steps /\ plan.noSteps = NoSteps
        /\ plan.steps = {} \/ plan.noSteps = {}
        /\ DOMAIN plan.inputs = InputFields
        /\ plan.inputs = [ParamInputs EXCEPT !.cli = plan.inputs.cli]
        /\ \A name \in DOMAIN parsed.params :
              name \in DOMAIN plan.inputs.cli /\ plan.inputs.cli[name] = parsed.params[name]
        /\ phase = "route" => plan.inputs = ParamInputs

\* The steps travel from the plan to the root state through the environment.
Published ==
    /\ phase \in {"define", "open"} =>
          /\ At(environ, "STROPPY_STEPS") = {plan.steps} \ {{}}
          /\ At(environ, "STROPPY_NO_STEPS") = {plan.noSteps} \ {{}}
    /\ phase \in {"setup", "running"} =>
          plan.filter = [only |-> plan.steps, except |-> plan.noSteps]

\* How the SQL of the command line reaches Setup: in both environments for execute_sql, as a
\* typed parameter for the other workloads.
Holds(env, n) ==
    /\ At(env, "STROPPY_SQL_BODY") = IF n.kind = "body" THEN {n.value} ELSE {}
    /\ At(env, "SQL_FILE") = IF n.kind = "file" THEN {n.value} ELSE {}

Carried(n) ==
    LET typed == At(plan.inputs.cli, "sql-file") IN
    /\ n.kind \in {"body", "file"} /\ n.value # ""
    /\ IF plan.workload = "execute_sql"
       THEN /\ plan.source.explicit
            /\ Holds(environ, n) /\ Holds(plan.rootEnv, n)
            /\ n.kind = "file" => typed \subseteq {n.value}
       ELSE n.kind = "file" /\ typed = {n.value}

Carries == phase \in Later => \A n \in Named : Carried(n)

\* The parameters a run begins with are those Define resolved and accepted.
Resolved ==
    phase \in {"open", "setup", "running"} =>
        LET descs == Descriptors(plan.workload, plan.inputs, environ) IN
        /\ plan.values = ResolveAll(descs, plan.inputs, environ)
        /\ plan.scenario = ScenarioSpec(plan.values)
        /\ NoUnknown(descs, plan.inputs)
        /\ SpecAccepts(plan.values)
Routed == phase \in Later => plan.workload \in DOMAIN WorkloadParams

\* Setup reads the SQL the command line names.
Reads == phase = "running" => \A n \in Named : ran.kind = n.kind /\ ran.value = n.value

\* The driver's message is that of the configuration the arguments and the file amount to.
Configured ==
    /\ parsed.opts \in Seq({a \in study.args : a.flag = "-D"})
    /\ \A p \in parsed.presets : p \in study.args /\ p.flag = "-d" /\ parsed.presets = {p}
    /\ \A c \in file.drivers : DOMAIN NoDriver \subseteq DOMAIN c /\ file.drivers = {c}
    /\ phase \in Later \cup {"route"} => \A c \in DriverConfigs : ~IsRejected(c)
    /\ phase \in Later \ {"drivers"} =>
           \A c \in DriverConfigs :
               /\ plan.opened = BuildDriverConfig(c, environ, plan.rootEnv)
               /\ ~IsRejected(plan.opened)

IInv ==
    /\ Shapes /\ Environment /\ Merged /\ Published /\ Carries /\ Routed /\ Resolved /\ Reads
    /\ Configured

-----------------------------------------------------------------------------
(* Natural numbers. *)

\* The less-than relation is well-founded: a set of numbers has a least one.
LEMMA LeastNumber ==
    ASSUME NEW S, S \subseteq Nat, S # {}
    PROVE  \E x \in S : \A y \in S : x <= y
<1>1. \E x \in S : \A y \in S : ~(<<y, x>> \in OpToRel(<, Nat))
  BY NatLessThanWellFounded, WFMin
<1>2. PICK x \in S : \A y \in S : ~(<<y, x>> \in OpToRel(<, Nat))
  BY <1>1
<1>3. \A y \in S : ~(y < x)
  BY <1>2 DEF OpToRel
<1> QED
  BY <1>3

\* Induction over the first numbers.
LEMMA UpTo ==
    ASSUME NEW N \in Nat, NEW S, 0 \in S, \A n \in 0..(N - 1) : n \in S => n + 1 \in S
    PROVE  0..N \subseteq S
<1> SUFFICES ASSUME (0..N) \ S # {} PROVE FALSE
  OBVIOUS
<1>1. (0..N) \ S \subseteq Nat
  OBVIOUS
<1>2. PICK x \in (0..N) \ S : \A y \in (0..N) \ S : x <= y
  BY <1>1, LeastNumber
<1>3. x - 1 \in 0..(N - 1) /\ x - 1 \in S
  BY <1>2
<1> QED
  BY <1>2, <1>3

LEMMA LeastIsLeast ==
    ASSUME NEW S, S \subseteq Nat, S # {}
    PROVE  Least(S) \in S /\ \A j \in S : Least(S) <= j
BY LeastNumber DEF Least

LEMMA LastIsLast ==
    ASSUME NEW N \in Nat, NEW S, S \subseteq 1..N, S # {}
    PROVE  LastOf(S) \in S /\ \A j \in S : j <= LastOf(S)
<1> DEFINE behind == {N - j : j \in S}
<1>1. behind \subseteq Nat /\ behind # {}
  <2>1. \A j \in S : N - j \in Nat
    OBVIOUS
  <2>2. behind \subseteq Nat
    BY <2>1
  <2>3. behind # {}
    OBVIOUS
  <2> QED
    BY <2>2, <2>3
<1>2. PICK k \in behind : \A j \in behind : k <= j
  <2> HIDE DEF behind
  <2> QED
    BY <1>1, LeastNumber
<1>3. N - k \in S /\ \A j \in S : j <= N - k
  BY <1>2
<1>4. \E i \in S : \A j \in S : j <= i
  BY <1>3
<1> QED
  BY <1>4 DEF LastOf

-----------------------------------------------------------------------------
(* Environments. *)

LEMMA AtWith ==
    ASSUME NEW env, NEW k, NEW v, NEW key
    PROVE  At(With(env, k, v), key) = IF key = k THEN {v} ELSE At(env, key)
BY DEF At, With

LEMMA AtWithout ==
    ASSUME NEW env, NEW keys, NEW key
    PROVE  At(Without(env, keys), key) = IF key \in keys THEN {} ELSE At(env, key)
BY DEF At, Without

\* A source takes the place of what the environment says of the SQL and leaves the rest.
LEMMA SourceApplied ==
    ASSUME NEW env, NEW source
    PROVE  /\ source.kind \in {"body", "file"} => Holds(ApplySqlSource(env, source), source)
           /\ \A key : key \notin SqlKeys => At(ApplySqlSource(env, source), key) = At(env, key)
<1> DEFINE others == Without(env, SqlKeys)
<1>1. \A key : At(others, key) = IF key \in SqlKeys THEN {} ELSE At(env, key)
  BY AtWithout
<1>2. CASE source.kind = "body"
  <2>1. ApplySqlSource(env, source) = With(others, "STROPPY_SQL_BODY", source.value)
    BY <1>2 DEF ApplySqlSource
  <2> HIDE DEF others
  <2>2. \A key : At(ApplySqlSource(env, source), key)
                    = IF key = "STROPPY_SQL_BODY" THEN {source.value} ELSE At(others, key)
    BY <2>1, AtWith
  <2> QED
    BY <1>1, <1>2, <2>2 DEF Holds, SqlKeys
<1>3. CASE source.kind = "file"
  <2>1. ApplySqlSource(env, source) = With(others, "SQL_FILE", source.value)
    BY <1>3 DEF ApplySqlSource
  <2> HIDE DEF others
  <2>2. \A key : At(ApplySqlSource(env, source), key)
                    = IF key = "SQL_FILE" THEN {source.value} ELSE At(others, key)
    BY <2>1, AtWith
  <2> QED
    BY <1>1, <1>3, <2>2 DEF Holds, SqlKeys
<1>4. CASE source.kind \notin {"body", "file"}
  <2>1. ApplySqlSource(env, source) = others
    BY <1>4 DEF ApplySqlSource
  <2> QED
    BY <1>1, <1>4, <2>1
<1> QED
  BY <1>2, <1>3, <1>4

\* The defers of an explicit source put back the SQL of the launch.
LEMMA RestoredSql ==
    ASSUME NEW env, NEW key \in SqlKeys
    PROVE  At(Restored(env), key) = IF plan.source.explicit THEN At(launched, key) ELSE At(env, key)
<1>1. CASE ~plan.source.explicit
  BY <1>1 DEF Restored
<1>2. CASE plan.source.explicit
  <2> DEFINE kept == Without(env, SqlKeys)
  <2>1. Restored(env) = [k \in DOMAIN kept \cup (DOMAIN launched \cap SqlKeys) |->
                            IF k \in DOMAIN kept THEN kept[k] ELSE launched[k]]
    BY <1>2 DEF Restored
  <2>2. DOMAIN kept = DOMAIN env \ SqlKeys
    BY DEF Without
  <2> QED
    BY <1>2, <2>1, <2>2 DEF At
<1> QED
  BY <1>1, <1>2

-----------------------------------------------------------------------------
(* Resolution of a parameter. *)

LEMMA LeastIs ==
    ASSUME NEW S, S \subseteq Nat, NEW i \in S, \A j \in S : i <= j
    PROVE  Least(S) = i
<1>1. \E k \in S : \A j \in S : k <= j
  OBVIOUS
<1>2. Least(S) \in S /\ \A j \in S : Least(S) <= j
  BY <1>1 DEF Least
<1>3. i \in Nat /\ Least(S) \in Nat /\ i <= Least(S) /\ Least(S) <= i
  BY <1>2
<1> QED
  BY <1>3

\* What is typed on the command line is what a parameter is.
LEMMA TypedWins ==
    ASSUME NEW inputs, NEW env, NEW d, d.name \in DOMAIN inputs.cli
    PROVE  ResolveParam(inputs, env, d) = [source |-> "cli", value |-> inputs.cli[d.name]]
<1> DEFINE set == {i \in DOMAIN ChannelOrder : Channel(inputs, env, d, ChannelOrder[i]) # {}}
<1>1. ChannelOrder[1] = "cli" /\ DOMAIN ChannelOrder = 1..5
  BY DEF ChannelOrder
<1>2. Channel(inputs, env, d, "cli") = {inputs.cli[d.name]}
  BY DEF Channel, At
<1>3. set \subseteq Nat /\ 1 \in set /\ \A j \in set : 1 <= j
  BY <1>1, <1>2
<1>4. Least(set) = 1
  <2> HIDE DEF set
  <2> QED
    BY <1>3, LeastIs
<1>5. ResolveParam(inputs, env, d) =
        [source |-> "cli", value |-> CHOOSE v \in Channel(inputs, env, d, "cli") : TRUE]
  BY <1>1, <1>3, <1>4 DEF ResolveParam
<1> QED
  BY <1>2, <1>5

\* Otherwise the process decides.
LEMMA ProcessWins ==
    ASSUME NEW inputs, NEW env, NEW d, d.name \notin DOMAIN inputs.cli,
           NEW v \in FirstSet(env, EnvNames(d))
    PROVE  ResolveParam(inputs, env, d) = [source |-> "process", value |-> v]
<1> DEFINE set == {i \in DOMAIN ChannelOrder : Channel(inputs, env, d, ChannelOrder[i]) # {}}
<1>1. ChannelOrder[1] = "cli" /\ ChannelOrder[2] = "process" /\ DOMAIN ChannelOrder = 1..5
  BY DEF ChannelOrder
<1>2. Channel(inputs, env, d, "cli") = {} /\ Channel(inputs, env, d, "process") = {v}
  <2>1. FirstSet(env, EnvNames(d)) = {v}
    BY DEF FirstSet
  <2> QED
    BY <2>1 DEF Channel, At
<1>3. set \subseteq Nat /\ 2 \in set /\ \A j \in set : 2 <= j
  BY <1>1, <1>2
<1>4. Least(set) = 2
  <2> HIDE DEF set
  <2> QED
    BY <1>3, LeastIs
<1>5. ResolveParam(inputs, env, d) =
        [source |-> "process", value |-> CHOOSE w \in Channel(inputs, env, d, "process") : TRUE]
  BY <1>1, <1>3, <1>4 DEF ResolveParam
<1> QED
  BY <1>2, <1>5

\* The declarations of a run: the scenario's five, then the workload's own.
LEMMA Declarations ==
    ASSUME NEW workload \in DOMAIN WorkloadParams, NEW inputs, NEW env
    PROVE  LET descs == Descriptors(workload, inputs, env)
               first == ScenarioParams(EffectiveDurationIsLegacy(inputs, env))
               second == WorkloadParams[workload]
           IN /\ RangeOf(descs) = RangeOf(first) \cup RangeOf(second)
              /\ DOMAIN descs \subseteq Nat
<1> DEFINE first == ScenarioParams(EffectiveDurationIsLegacy(inputs, env))
           second == WorkloadParams[workload]
           all == RangeOf(first) \cup RangeOf(second)
<1>1. first \in Seq(RangeOf(first)) /\ Len(first) = 5 /\ DOMAIN first = 1..5
  BY DEF ScenarioParams, RangeOf
<1>2. second \in Seq(RangeOf(second)) /\ Len(second) \in Nat /\ DOMAIN second = 1..Len(second)
  <2>1. workload \in {"execute_sql", "tpcc", "simple"}
    BY DEF WorkloadParams
  <2>2. CASE workload = "execute_sql"
    <3>1. second = <<SqlFileParam>>
      BY <2>2 DEF WorkloadParams
    <3> HIDE DEF second
    <3> QED
      BY <3>1 DEF RangeOf
  <2>3. CASE workload = "tpcc"
    <3>1. second = <<WarehousesParam, SqlFileParam>>
      BY <2>3 DEF WorkloadParams
    <3> HIDE DEF second
    <3> QED
      BY <3>1 DEF RangeOf
  <2>4. CASE workload = "simple"
    <3>1. second = <<>>
      BY <2>4 DEF WorkloadParams
    <3> HIDE DEF second
    <3> QED
      BY <3>1 DEF RangeOf
  <2> QED
    BY <2>1, <2>2, <2>3, <2>4
<1>3. Descriptors(workload, inputs, env) = first \o second
  BY DEF Descriptors
<1>4. \A i \in DOMAIN first : first[i] \in RangeOf(first)
  BY DEF RangeOf
<1>5. \A i \in DOMAIN second : second[i] \in RangeOf(second)
  BY DEF RangeOf
<1> HIDE DEF first, second
<1>6. first \in Seq(all) /\ second \in Seq(all)
  BY <1>1, <1>2
<1> HIDE DEF all
<1>7. /\ Len(first \o second) = 5 + Len(second) /\ first \o second \in Seq(all)
      /\ \A i \in 1..(5 + Len(second)) :
            (first \o second)[i] = IF i <= 5 THEN first[i] ELSE second[i - 5]
  <2>1. /\ first \o second \in Seq(all)
        /\ Len(first \o second) = Len(first) + Len(second)
        /\ \A i \in 1..(Len(first) + Len(second)) :
              (first \o second)[i] = IF i <= Len(first) THEN first[i] ELSE second[i - Len(first)]
    BY <1>6, ConcatProperties
  <2> QED
    BY <1>1, <2>1
<1>8. DOMAIN (first \o second) = 1..(5 + Len(second))
  BY <1>7
<1> USE DEF all
<1>9. ASSUME NEW i \in DOMAIN (first \o second)
      PROVE  (first \o second)[i] \in all
  <2>1. CASE i <= 5
    BY <1>1, <1>4, <1>7, <1>8, <2>1
  <2>2. CASE i > 5
    <3>1. i - 5 \in DOMAIN second /\ (first \o second)[i] = second[i - 5]
      BY <1>2, <1>7, <1>8, <2>2
    <3> QED
      BY <1>5, <3>1
  <2> QED
    BY <1>8, <2>1, <2>2
<1>10. ASSUME NEW i \in DOMAIN first
       PROVE  i \in DOMAIN (first \o second) /\ (first \o second)[i] = first[i]
  BY <1>1, <1>2, <1>7, <1>8
<1>11. ASSUME NEW i \in DOMAIN second
       PROVE  i + 5 \in DOMAIN (first \o second) /\ (first \o second)[i + 5] = second[i]
  BY <1>2, <1>7, <1>8
<1>12. RangeOf(first \o second) = all
  BY <1>9, <1>10, <1>11 DEF RangeOf
<1> QED
  BY <1>2, <1>3, <1>8, <1>12 DEF first, second

\* A value is that of a declaration with its name.
LEMMA ValueOf ==
    ASSUME NEW descs, NEW inputs, NEW env, NEW i \in DOMAIN descs,
           descs[i].scope \in {"run", "workload"}
    PROVE  LET values == ResolveAll(descs, inputs, env) IN
           /\ descs[i].name \in DOMAIN values
           /\ \E d \in RangeOf(descs) :
                 d.name = descs[i].name /\ values[descs[i].name] = ResolveParam(inputs, env, d)
<1> DEFINE name == descs[i].name
           d == CHOOSE x \in {descs[j] : j \in DOMAIN descs} : x.name = name
<1>1. name \in Names(descs, {"run", "workload"}, "name")
  BY DEF Names
<1>2. d \in RangeOf(descs) /\ d.name = name
  BY DEF RangeOf
<1>3. /\ name \in DOMAIN ResolveAll(descs, inputs, env)
      /\ ResolveAll(descs, inputs, env)[name] = ResolveParam(inputs, env, d)
  BY <1>1 DEF ResolveAll
<1> QED
  BY <1>2, <1>3

\* A typed parameter keeps its value.
LEMMA TypedValue ==
    ASSUME NEW descs, NEW inputs, NEW env, NoUnknown(descs, inputs),
           NEW name \in DOMAIN inputs.cli
    PROVE  LET values == ResolveAll(descs, inputs, env) IN
           name \in DOMAIN values /\ values[name] = [source |-> "cli", value |-> inputs.cli[name]]
<1>1. PICK i \in DOMAIN descs : descs[i].name = name /\ descs[i].scope \in {"run", "workload"}
  BY DEF NoUnknown, Names
<1>2. /\ name \in DOMAIN ResolveAll(descs, inputs, env)
      /\ \E d \in RangeOf(descs) :
            d.name = name /\ ResolveAll(descs, inputs, env)[name] = ResolveParam(inputs, env, d)
  BY <1>1, ValueOf
<1> QED
  BY <1>2, TypedWins

\* Every declaration is the scenario's or the workload's; the names tell them apart, and no
\* variable but ITER names the iterations of a legacy duration.
LEMMA Declaration ==
    ASSUME NEW workload \in DOMAIN WorkloadParams, NEW inputs, NEW env,
           NEW d \in RangeOf(Descriptors(workload, inputs, env))
    PROVE  /\ d.scope \in {"run", "workload"}
           /\ d.name = "duration" =>
                 d = Declared("run", "duration", "DURATION", "duration", "duration", "0s", <<>>)
           /\ d.name = "sql-file" => d = SqlFileParam
           /\ DOMAIN EnvNames(d) \subseteq Nat
           /\ EffectiveDurationIsLegacy(inputs, env) =>
                 \A i \in DOMAIN EnvNames(d) : EnvNames(d)[i] # "ITER"
<1> DEFINE legacy == EffectiveDurationIsLegacy(inputs, env)
<1>1. d \in RangeOf(ScenarioParams(legacy)) \/ d \in RangeOf(WorkloadParams[workload])
  BY Declarations
<1> HIDE DEF legacy
<1>2. CASE d \in RangeOf(ScenarioParams(legacy))
  <2>1. \/ d = Declared("run", "executor", "EXECUTOR", "executor", "string", "shared-iterations", <<>>)
        \/ d = Declared("run", "vus", "VUS", "vus", "int", "1", <<>>)
        \/ d = Declared("run", "iterations", "ITERATIONS", "iterations", "int", "1",
                        IF legacy THEN <<>> ELSE <<"ITER">>)
        \/ d = Declared("run", "duration", "DURATION", "duration", "duration", "0s", <<>>)
        \/ d = Declared("run", "query-timeout", "QUERY_TIMEOUT", "queryTimeout", "duration", "0s", <<>>)
    BY <1>2 DEF ScenarioParams, RangeOf
  <2>2. legacy => d.aliases = <<>> /\ d.env # "ITER"
    BY <2>1 DEF Declared
  <2>3. legacy => \A i \in DOMAIN EnvNames(d) : EnvNames(d)[i] # "ITER"
    BY <2>2 DEF EnvNames
  <2>4. DOMAIN EnvNames(d) \subseteq Nat
    <3> DEFINE words == {d.env, "ITER"}
    <3>1. d.aliases = <<>> \/ d.aliases = <<"ITER">>
      BY <2>1 DEF Declared
    <3>2. <<d.env>> \in Seq(words) /\ d.aliases \in Seq(words)
      <4>1. <<d.env>> \in Seq(words) /\ <<>> \in Seq(words) /\ <<"ITER">> \in Seq(words)
        OBVIOUS
      <4> QED
        BY <3>1, <4>1
    <3> HIDE DEF words
    <3>3. EnvNames(d) \in Seq(words)
      BY <3>2, ConcatProperties DEF EnvNames
    <3> QED
      BY <3>3
  <2>5. d.scope = "run" /\ d.name # "sql-file"
    BY <2>1 DEF Declared
  <2>6. d.name = "duration" =>
            d = Declared("run", "duration", "DURATION", "duration", "duration", "0s", <<>>)
    BY <2>1 DEF Declared
  <2> QED
    BY <2>3, <2>4, <2>5, <2>6 DEF legacy
<1>3. CASE d \in RangeOf(WorkloadParams[workload])
  <2>1. d = SqlFileParam \/ d = WarehousesParam
    BY <1>3 DEF WorkloadParams, RangeOf
  <2>2. d.name # "duration" /\ d.scope = "workload"
    <3>1. SqlFileParam.name = "sql-file" /\ SqlFileParam.scope = "workload"
      BY DEF SqlFileParam, Declared
    <3>2. WarehousesParam.name = "scale-factor" /\ WarehousesParam.scope = "workload"
      BY DEF WarehousesParam, Declared
    <3> QED
      BY <2>1, <3>1, <3>2
  <2>3. d.name = "sql-file" => d = SqlFileParam
    BY <2>1 DEF WarehousesParam, Declared
  <2>4. \A i \in DOMAIN EnvNames(d) : EnvNames(d)[i] # "ITER"
    <3>1. /\ EnvNames(SqlFileParam) = <<"SQL_FILE">> \o <<>>
          /\ EnvNames(WarehousesParam) = <<"SCALE_FACTOR">> \o <<"WAREHOUSES">>
      BY DEF EnvNames, SqlFileParam, WarehousesParam, Declared
    <3>2. <<"SQL_FILE">> \o <<>> = <<"SQL_FILE">>
      BY ConcatEmptySeq
    <3>3. \A i \in DOMAIN (<<"SCALE_FACTOR">> \o <<"WAREHOUSES">>) :
              (<<"SCALE_FACTOR">> \o <<"WAREHOUSES">>)[i] \in {"SCALE_FACTOR", "WAREHOUSES"}
      <4> DEFINE names == {"SCALE_FACTOR", "WAREHOUSES"}
      <4>1. <<"SCALE_FACTOR">> \in Seq(names) /\ <<"WAREHOUSES">> \in Seq(names)
        OBVIOUS
      <4>2. <<"SCALE_FACTOR">> \o <<"WAREHOUSES">> \in Seq(names)
        BY <4>1, ConcatProperties
      <4> QED
        BY <4>2
    <3> QED
      BY <2>1, <3>1, <3>2, <3>3
  <2>5. DOMAIN EnvNames(d) \subseteq Nat
    <3> DEFINE words == {"SQL_FILE", "SCALE_FACTOR", "WAREHOUSES"}
    <3>1. /\ <<"SQL_FILE">> \in Seq(words) /\ <<>> \in Seq(words)
          /\ <<"SCALE_FACTOR">> \in Seq(words) /\ <<"WAREHOUSES">> \in Seq(words)
      OBVIOUS
    <3>2. /\ EnvNames(SqlFileParam) = <<"SQL_FILE">> \o <<>>
          /\ EnvNames(WarehousesParam) = <<"SCALE_FACTOR">> \o <<"WAREHOUSES">>
      BY DEF EnvNames, SqlFileParam, WarehousesParam, Declared
    <3> HIDE DEF words
    <3>3. EnvNames(d) \in Seq(words)
      BY <2>1, <3>1, <3>2, ConcatProperties
    <3> QED
      BY <3>3
  <2> QED
    BY <2>2, <2>3, <2>4, <2>5
<1> QED
  BY <1>1, <1>2, <1>3

\* The file of Setup, typed or else the process's.
LEMMA SqlFileTyped ==
    ASSUME Resolved, phase \in {"open", "setup", "running"}, "sql-file" \in DOMAIN plan.inputs.cli
    PROVE  SqlFile = plan.inputs.cli["sql-file"]
<1> DEFINE descs == Descriptors(plan.workload, plan.inputs, environ)
<1>1. plan.values = ResolveAll(descs, plan.inputs, environ) /\ NoUnknown(descs, plan.inputs)
  BY DEF Resolved
<1> HIDE DEF descs
<1>2. /\ "sql-file" \in DOMAIN plan.values
      /\ plan.values["sql-file"] = [source |-> "cli", value |-> plan.inputs.cli["sql-file"]]
  BY <1>1, TypedValue
<1> QED
  BY <1>2 DEF SqlFile

LEMMA SqlFileOfProcess ==
    ASSUME Resolved, phase \in {"open", "setup", "running"}, plan.workload = "execute_sql",
           "sql-file" \notin DOMAIN plan.inputs.cli, NEW v, At(environ, "SQL_FILE") = {v}
    PROVE  SqlFile = v
<1> DEFINE descs == Descriptors("execute_sql", plan.inputs, environ)
<1>1. plan.values = ResolveAll(descs, plan.inputs, environ)
  BY DEF Resolved
<1>2. "execute_sql" \in DOMAIN WorkloadParams /\ WorkloadParams["execute_sql"] = <<SqlFileParam>>
  BY DEF WorkloadParams
<1>3. SqlFileParam \in RangeOf(descs)
  <2>1. SqlFileParam \in RangeOf(<<SqlFileParam>>)
    BY DEF RangeOf
  <2> QED
    BY <1>2, <2>1, Declarations
<1>4. /\ SqlFileParam.name = "sql-file" /\ SqlFileParam.scope = "workload"
      /\ SqlFileParam.env = "SQL_FILE" /\ SqlFileParam.aliases = <<>>
  BY DEF SqlFileParam, Declared
<1>5. \A d \in RangeOf(descs) : d.name = "sql-file" => d = SqlFileParam
  BY <1>2, Declaration
<1> HIDE DEF descs
<1>6. PICK i \in DOMAIN descs : descs[i] = SqlFileParam
  BY <1>3 DEF RangeOf
<1>7. /\ "sql-file" \in DOMAIN plan.values
      /\ plan.values["sql-file"] = ResolveParam(plan.inputs, environ, SqlFileParam)
  BY <1>1, <1>4, <1>5, <1>6, ValueOf
<1>8. v \in FirstSet(environ, EnvNames(SqlFileParam))
  <2>1. EnvNames(SqlFileParam) = <<"SQL_FILE">>
    <3>1. EnvNames(SqlFileParam) = <<"SQL_FILE">> \o <<>>
      BY <1>4 DEF EnvNames
    <3> QED
      BY <3>1, ConcatEmptySeq
  <2>2. "SQL_FILE" \in DOMAIN environ /\ environ["SQL_FILE"] = v
    BY DEF At
  <2>3. {j \in DOMAIN <<"SQL_FILE">> : <<"SQL_FILE">>[j] \in DOMAIN environ} = {1}
    BY <2>2
  <2>4. Least({1}) = 1
    BY LeastIs
  <2> QED
    BY <2>1, <2>2, <2>3, <2>4 DEF FirstSet
<1>9. ResolveParam(plan.inputs, environ, SqlFileParam) = [source |-> "process", value |-> v]
  <2>1. SqlFileParam.name \notin DOMAIN plan.inputs.cli
    BY <1>4
  <2> QED
    BY <1>8, <2>1, ProcessWins
<1> QED
  BY <1>7, <1>9 DEF SqlFile

-----------------------------------------------------------------------------
(* The invariant holds at the start and is kept, part by part. *)

LEMMA InitInv == Init => IInv
<1> SUFFICES ASSUME Init PROVE IInv
  OBVIOUS
<1>1. phase = "args" /\ environ = launched
  BY DEF Init
<1>2. parsed.words = <<>> /\ plan.source = NoSource
  BY DEF Init, NoArgs, NoPlan
<1>3. Shapes
  BY <1>1, <1>2 DEF Shapes, Init, NoArgs, NoPlan, Early, Later
<1>4. Environment
  BY <1>1 DEF Environment, Later
<1>5. Configured
  <2>1. parsed.opts = <<>> /\ parsed.presets = {} /\ file.drivers = {}
    BY DEF Init, NoArgs, NoFile
  <2>2. parsed.opts \in Seq({a \in study.args : a.flag = "-D"})
    BY <2>1
  <2> QED
    BY <1>1, <2>1, <2>2 DEF Configured, Later
<1> QED
  BY <1>1, <1>3, <1>4, <1>5 DEF IInv, Merged, Published, Carries, Routed, Resolved, Reads, Later

\* Only the parser adds arguments, and only words become words.
LEMMA ParseArgEffect ==
    ASSUME Shapes, ParseArg
    PROVE  /\ phase = "args" /\ phase' \in {"args", "ended"}
           /\ UNCHANGED <<study, environ, launched, file, plan, ran>>
           /\ DOMAIN parsed' = DOMAIN parsed
           /\ parsed'.words \in Seq({a \in study.args : a.flag = "word"})
<1> DEFINE Words == {a \in study.args : a.flag = "word"}
           Fields == {"words", "file", "steps", "noSteps", "env", "params", "presets", "opts",
                      "help", "dash"}
<1>1. phase = "args" /\ UNCHANGED <<environ, launched, file, plan, ran>>
  BY DEF ParseArg
<1>2. Fields \subseteq DOMAIN parsed /\ parsed.words \in Seq(Words)
  BY DEF Shapes
<1>3. PICK a \in study.args :
          \/ ParseHelpFlag(a) \/ ParseStepsFlag(a) \/ ParseFileFlag(a) \/ ParseEnvFlag(a)
          \/ ParseDriverFlag(a) \/ ParseDriverOptFlag(a) \/ ParseTypedParamFlag(a)
          \/ LackValue(a) \/ ApplyPositional(a)
  BY DEF ParseArg
<1> DEFINE Same == UNCHANGED study /\ DOMAIN parsed' = DOMAIN parsed /\ phase' \in {"args", "ended"}
                      /\ parsed'.words \in Seq(Words)
<1>4. CASE LackValue(a)
  BY <1>1, <1>2, <1>4 DEF LackValue, Refuse, End, input
<1>5. CASE ApplyPositional(a)
  <2>1. CASE parsed' = [parsed EXCEPT !.words = Append(@, a)] /\ UNCHANGED <<study, phase, result>>
    <3>1. a \in Words
      BY <1>5 DEF ApplyPositional
    <3>2. DOMAIN parsed' = DOMAIN parsed /\ parsed'.words = Append(parsed.words, a)
      BY <1>2, <2>1
    <3>3. parsed'.words \in Seq(Words)
      <4> HIDE DEF Words
      <4> QED
        BY <1>2, <3>1, <3>2
    <3> QED
      BY <1>1, <2>1, <3>2, <3>3
  <2>2. CASE Refuse
    BY <1>1, <1>2, <2>2 DEF Refuse, End, input
  <2> QED
    BY <1>5, <2>1, <2>2 DEF ApplyPositional
<1>6. CASE ~LackValue(a) /\ ~ApplyPositional(a)
  <2>1. /\ UNCHANGED <<study, phase>> /\ DOMAIN parsed' = DOMAIN parsed
        /\ parsed'.words = parsed.words
    BY <1>2, <1>3, <1>6 DEF ParseHelpFlag, ParseStepsFlag, ParseFileFlag, ParseEnvFlag,
                       ParseDriverFlag, ParseDriverOptFlag, ParseTypedParamFlag, Accept
  <2> QED
    BY <1>1, <1>2, <2>1
<1> QED
  BY <1>1, <1>4, <1>5, <1>6

LEMMA ShapesStep == Shapes /\ [Next]_vars => Shapes'
<1> SUFFICES ASSUME Shapes, [Next]_vars PROVE Shapes'
  OBVIOUS
<1> USE DEF End, Continue, Return, Early, Later, input
<1>1. CASE ParseArg
  BY <1>1, ParseArgEffect DEF Shapes
<1>2. CASE Dash
  <2>1. DOMAIN parsed' = DOMAIN parsed /\ parsed'.words = parsed.words
    BY <1>2 DEF Dash, Shapes
  <2> QED
    BY <1>2, <2>1 DEF Dash, Shapes
<1>3. CASE EndOfArgs
  BY <1>3 DEF EndOfArgs, PrintHelp, Shapes
<1>4. CASE Load
  BY <1>4 DEF Load, Shapes
<1>5. CASE Merge
  <2>1. phase = "merge" /\ UNCHANGED <<study, parsed>> /\ phase' \in {"route", "ended"}
    BY <1>5 DEF Merge, PrintHelp
  <2>2. DOMAIN plan' = DOMAIN plan /\ plan'.source = plan.source
    BY <1>5 DEF Merge, PrintHelp, Shapes
  <2> QED
    BY <2>1, <2>2 DEF Shapes
<1>6. CASE Route
  <2>1. phase = "route" /\ UNCHANGED <<study, parsed>> /\ phase' \in {"drivers", "ended"}
    BY <1>6 DEF Route, RouteSql, RouteWorkload
  <2>2. DOMAIN plan' = DOMAIN plan
    BY <1>6 DEF Route, RouteSql, RouteWorkload, Shapes
  <2> QED
    BY <2>1, <2>2 DEF Shapes
<1>7. CASE RunGoWorkload
  <2>1. phase = "drivers" /\ UNCHANGED <<study, parsed>> /\ phase' \in {"define", "ended"}
    BY <1>7 DEF RunGoWorkload
  <2>2. DOMAIN plan' = DOMAIN plan
    BY <1>7 DEF RunGoWorkload, Shapes
  <2> QED
    BY <2>1, <2>2 DEF Shapes
<1>8. CASE Define
  <2>1. phase = "define" /\ UNCHANGED <<study, parsed>> /\ phase' \in {"open", "ended"}
    BY <1>8 DEF Define
  <2>2. DOMAIN plan' = DOMAIN plan
    BY <1>8 DEF Define, Shapes
  <2> QED
    BY <2>1, <2>2 DEF Shapes
<1>9. CASE Open
  <2>1. phase = "open" /\ UNCHANGED <<study, parsed>> /\ phase' \in {"setup", "ended"}
    BY <1>9 DEF Open
  <2>2. DOMAIN plan' = DOMAIN plan
    BY <1>9 DEF Open, Shapes
  <2> QED
    BY <2>1, <2>2 DEF Shapes
<1>10. CASE Setup
  BY <1>10 DEF Setup, Shapes
<1>11. CASE Finish
  BY <1>11 DEF Finish, Shapes
<1>12. CASE Stop
  BY <1>12 DEF Stop, vars, Shapes
<1>13. CASE UNCHANGED vars
  BY <1>13 DEF vars, Shapes
<1> QED
  BY <1>1, <1>2, <1>3, <1>4, <1>5, <1>6, <1>7, <1>8, <1>9, <1>10, <1>11, <1>12, <1>13 DEF Next

\* What a step after the merge leaves alone.
LEMMA LaterFrame ==
    ASSUME Shapes, Next, phase \in Later
    PROVE  /\ UNCHANGED <<study, parsed, launched, file>>
           /\ phase' \in Later \cup {"ended"}
           /\ UNCHANGED <<plan.workload, plan.steps, plan.noSteps, plan.inputs, plan.rootEnv,
                          plan.source>>
<1> USE DEF End, Continue, Return, Early, Later, input
<1>1. RunGoWorkload \/ Define \/ Open \/ Setup \/ Finish
  BY DEF Next, ParseArg, Dash, EndOfArgs, Load, Merge, Route, Stop
<1>2. CASE RunGoWorkload
  BY <1>2 DEF RunGoWorkload, Shapes
<1>3. CASE Define
  BY <1>3 DEF Define, Shapes
<1>4. CASE Open
  BY <1>4 DEF Open, Shapes
<1>5. CASE Setup
  BY <1>5 DEF Setup
<1>6. CASE Finish
  BY <1>6 DEF Finish
<1> QED
  BY <1>1, <1>2, <1>3, <1>4, <1>5, <1>6

LEMMA RoutedStep == Shapes /\ Routed /\ [Next]_vars => Routed'
<1> SUFFICES ASSUME Shapes, Routed, [Next]_vars, phase' \in Later
             PROVE  plan'.workload \in DOMAIN WorkloadParams
  BY DEF Routed
<1>1. CASE phase \in Later
  BY <1>1, LaterFrame DEF Routed, vars
<1>2. CASE phase \notin Later
  <2>1. Route
    BY <1>2 DEF Next, vars, ParseArg, Accept, Refuse, ApplyPositional, ParseHelpFlag,
       ParseStepsFlag, ParseFileFlag, ParseEnvFlag, ParseDriverFlag, ParseDriverOptFlag,
       ParseTypedParamFlag, LackValue, Dash, EndOfArgs, PrintHelp, Load, Merge, RunGoWorkload,
       Define, Open, Setup, Finish, Stop, Later, End, Continue
  <2>2. "execute_sql" \in DOMAIN WorkloadParams
    BY DEF WorkloadParams
  <2>3. RouteSql \/ RouteWorkload
    BY <2>1 DEF Route
  <2>4. CASE RouteSql
    BY <2>2, <2>4 DEF RouteSql, Shapes
  <2>5. CASE RouteWorkload
    BY <2>5 DEF RouteWorkload, Shapes, End, Later
  <2> QED
    BY <2>3, <2>4, <2>5
<1> QED
  BY <1>1, <1>2

\* The actions before the plan is routed.
LEMMA EarlySteps ==
    ASSUME Shapes, Next, phase \in Early
    PROVE  ParseArg \/ Dash \/ EndOfArgs \/ Load \/ Merge \/ Route
BY DEF Next, RunGoWorkload, Define, Open, Setup, Finish, Stop, Early

LEMMA LaterSteps ==
    ASSUME Shapes, Next, phase \in Later
    PROVE  RunGoWorkload \/ Define \/ Open \/ Setup \/ Finish
BY DEF Next, ParseArg, Dash, EndOfArgs, Load, Merge, Route, Stop, Later

\* Only these steps begin the later phases and the plan.
LEMMA EndedStops ==
    ASSUME Shapes, Next, phase \notin Early \cup Later
    PROVE  UNCHANGED vars
<1>1. phase = "ended"
  BY DEF Shapes
<1>2. Stop
  BY <1>1 DEF Next, ParseArg, Dash, EndOfArgs, Load, Merge, Route, RunGoWorkload, Define, Open,
              Setup, Finish
<1> QED
  BY <1>2 DEF Stop

\* At and phase after a step that returns or goes on.
LEMMA EnvironmentStep == Shapes /\ Environment /\ [Next]_vars => Environment'
<1> SUFFICES ASSUME Shapes, Environment, [Next]_vars PROVE Environment'
  OBVIOUS
<1> USE DEF End, Continue
<1> DEFINE AsStarted(env) == \A key \in SqlKeys : At(env, key) = At(launched, key)
<1>1. CASE UNCHANGED vars
  BY <1>1 DEF vars, Environment, At, SqlKeys
<1>2. CASE Next /\ phase \in Early
  <2>1. environ = launched
    BY <1>2 DEF Environment
  <2>2. CASE ParseArg \/ Dash \/ EndOfArgs \/ Load \/ Merge
    <3>1. environ' = launched'
      BY <2>1, <2>2 DEF ParseArg, Dash, EndOfArgs, Load, Merge
    <3>2. phase' \notin Later
      <4>1. CASE ParseArg
        BY <4>1, ParseArgEffect DEF Later
      <4> QED
        BY <1>2, <2>2, <4>1 DEF Dash, EndOfArgs, Load, Merge, PrintHelp, Later, Early
    <3> QED
      BY <3>1, <3>2 DEF Environment, At
  <2>3. CASE Route
    <3>1. phase' \in {"drivers", "ended"} /\ launched' = launched
      BY <2>3 DEF Route, RouteSql, RouteWorkload
    <3>2. CASE environ' = environ
      BY <2>1, <3>1, <3>2 DEF Environment, Early, At
    <3>3. CASE environ' # environ
      <4>1. phase' = "drivers" /\ ResolveSqlSource.explicit /\ plan'.source = ResolveSqlSource
        BY <2>3, <3>3 DEF Route, RouteSql, RouteWorkload, Shapes
      <4> QED
        BY <4>1 DEF Environment, Early
    <3> QED
      BY <3>2, <3>3
  <2> QED
    BY <1>2, <2>2, <2>3, EarlySteps
<1>3. CASE Next /\ phase \in Later
  <2>1. /\ launched' = launched /\ phase' \in Later \cup {"ended"} /\ plan'.source = plan.source
    BY <1>3, LaterFrame
  <2>2. ~plan.source.explicit => AsStarted(environ)
    BY <1>3 DEF Environment
  <2>3. phase' \notin Early
    BY <2>1 DEF Early, Later
  <2>4. CASE environ' = environ /\ phase' # "ended"
    BY <2>1, <2>2, <2>3, <2>4 DEF Environment, At
  <2>5. CASE environ' = Restored(environ)
    <3>1. AsStarted(Restored(environ))
      BY <2>2, RestoredSql
    <3> QED
      BY <2>1, <2>3, <2>5, <3>1 DEF Environment, At
  <2>6. CASE RunGoWorkload /\ environ' # Restored(environ)
    <3> DEFINE others == Without(environ, StepsKeys)
    <3>1. /\ phase' = "define"
          /\ \/ environ' = With(others, "STROPPY_STEPS", plan.steps)
             \/ environ' = With(others, "STROPPY_NO_STEPS", plan.noSteps)
             \/ environ' = others
      BY <2>6 DEF RunGoWorkload, Return
    <3>2. \A key \in SqlKeys : At(others, key) = At(environ, key)
      BY AtWithout DEF StepsKeys, SqlKeys
    <3> HIDE DEF others
    <3>3. \A key \in SqlKeys : At(environ', key) = At(environ, key)
      BY <3>1, <3>2, AtWith DEF SqlKeys
    <3>4. ~plan.source.explicit => \A key \in SqlKeys : At(environ', key) = At(launched, key)
      BY <2>2, <3>3
    <3> QED
      BY <2>1, <2>3, <3>1, <3>4 DEF Environment, At
  <2> QED
    BY <1>3, <2>4, <2>5, <2>6, LaterSteps DEF RunGoWorkload, Define, Open, Setup, Finish, Return
<1>4. CASE Next /\ phase \notin Early \cup Later
  BY <1>1, <1>4, EndedStops
<1> QED
  BY <1>1, <1>2, <1>3, <1>4

LEMMA MergedStep == Shapes /\ Merged /\ [Next]_vars => Merged'
<1> SUFFICES ASSUME Shapes, Merged, [Next]_vars, phase' \in Later \cup {"route"}
             PROVE  Merged'
  BY DEF Merged
<1> USE DEF End, Continue
<1>1. CASE UNCHANGED vars
  BY <1>1 DEF vars, input, Merged, Steps, NoSteps, ParamInputs, EnvOverrides
<1>2. CASE phase \in Later /\ Next
  <2>1. /\ UNCHANGED <<parsed, file, plan.steps, plan.noSteps, plan.inputs>>
        /\ phase' # "route"
    BY <1>2, LaterFrame DEF Later
  <2>2. UNCHANGED <<Steps, NoSteps, ParamInputs>>
    BY <2>1 DEF Steps, NoSteps, ParamInputs, EnvOverrides
  <2> QED
    BY <1>2, <2>1, <2>2 DEF Merged
<1>3. CASE phase \in Early /\ Merge
  <2>1. /\ ~Invalid /\ UNCHANGED <<parsed, file>>
        /\ plan' = [plan EXCEPT !.steps = Steps, !.noSteps = NoSteps, !.inputs = ParamInputs,
                                !.rootEnv = MergeLegacyEnv(file.env, EnvOverrides)]
    BY <1>3 DEF Merge, PrintHelp, Later, input
  <2>2. plan'.steps = Steps /\ plan'.noSteps = NoSteps /\ plan'.inputs = ParamInputs
    BY <2>1 DEF Shapes
  <2>3. UNCHANGED <<Steps, NoSteps, ParamInputs>>
    BY <2>1 DEF Steps, NoSteps, ParamInputs, EnvOverrides
  <2>4. Steps = {} \/ NoSteps = {}
    BY <2>1 DEF Invalid
  <2>5. /\ DOMAIN ParamInputs = InputFields /\ ParamInputs.cli = parsed.params
        /\ ParamInputs = [ParamInputs EXCEPT !.cli = ParamInputs.cli]
    BY DEF ParamInputs, InputFields
  <2> QED
    BY <2>1, <2>2, <2>3, <2>4, <2>5 DEF Merged
<1>4. CASE phase \in Early /\ Route
  <2>1. /\ phase = "route" /\ phase' = "drivers" /\ UNCHANGED <<parsed, file>>
        /\ UNCHANGED <<plan.steps, plan.noSteps>>
    BY <1>4 DEF Route, RouteSql, RouteWorkload, Shapes, Later, input
  <2>2. UNCHANGED <<Steps, NoSteps, ParamInputs>>
    BY <2>1 DEF Steps, NoSteps, ParamInputs, EnvOverrides
  <2>3. /\ plan.steps = Steps /\ plan.noSteps = NoSteps /\ (plan.steps = {} \/ plan.noSteps = {})
        /\ plan.inputs = ParamInputs
    BY <2>1 DEF Merged
  <2>4. DOMAIN ParamInputs = InputFields /\ ParamInputs.cli = parsed.params
    BY DEF ParamInputs, InputFields
  <2>5. \/ plan'.inputs = ParamInputs
        \/ /\ "sql-file" \notin DOMAIN parsed.params
           /\ plan'.inputs = [ParamInputs EXCEPT !.cli = With(parsed.params, "sql-file", Sql)]
    <3>1. CASE RoutesToSql
      BY <1>4, <2>3, <3>1 DEF Route, RouteSql, Shapes
    <3>2. CASE ~RoutesToSql
      <4>1. plan' = [plan EXCEPT !.workload = Script,
                        !.inputs.cli = IF Sql = "" \/ "sql-file" \in DOMAIN @ THEN @
                                       ELSE With(@, "sql-file", Sql)]
        BY <1>4, <2>1, <3>2 DEF Route, RouteWorkload
      <4>2. plan'.inputs = [plan.inputs EXCEPT !.cli =
                IF Sql = "" \/ "sql-file" \in DOMAIN plan.inputs.cli THEN plan.inputs.cli
                ELSE With(plan.inputs.cli, "sql-file", Sql)]
        BY <4>1 DEF Shapes
      <4> QED
        BY <2>3, <2>4, <4>2 DEF ParamInputs
    <3> QED
      BY <3>1, <3>2
  <2>6. /\ DOMAIN plan'.inputs = InputFields
        /\ plan'.inputs = [ParamInputs EXCEPT !.cli = plan'.inputs.cli]
    BY <2>4, <2>5 DEF ParamInputs, InputFields
  <2>7. \/ plan'.inputs.cli = parsed.params
        \/ /\ "sql-file" \notin DOMAIN parsed.params
           /\ plan'.inputs.cli = With(parsed.params, "sql-file", Sql)
    BY <2>4, <2>5 DEF InputFields
  <2>8. \A name \in DOMAIN parsed.params :
            name \in DOMAIN plan'.inputs.cli /\ plan'.inputs.cli[name] = parsed.params[name]
    BY <2>7 DEF With
  <2> QED
    BY <2>1, <2>2, <2>3, <2>6, <2>8 DEF Merged
<1>5. CASE phase \in Early /\ (ParseArg \/ Dash \/ EndOfArgs \/ Load)
  <2>1. CASE ParseArg
    BY <2>1, ParseArgEffect DEF Later
  <2>2. CASE Dash \/ EndOfArgs \/ Load
    <3>1. phase' \in {"args", "load", "merge", "ended"}
      BY <2>2 DEF Dash, EndOfArgs, Load, PrintHelp
    <3> QED
      BY <3>1 DEF Later
  <2> QED
    BY <1>5, <2>1, <2>2
<1>6. CASE phase \notin Early \cup Later /\ Next
  BY <1>1, <1>6, EndedStops
<1> QED
  BY <1>1, <1>2, <1>3, <1>4, <1>5, <1>6, EarlySteps

\* The steps of the plan, in the environment and then in the filter.
LEMMA PublishedStep == Shapes /\ Merged /\ Published /\ [Next]_vars => Published'
<1> SUFFICES ASSUME Shapes, Merged, Published, [Next]_vars,
                    phase' \in {"define", "open", "setup", "running"}
             PROVE  Published'
  BY DEF Published
<1> USE DEF End, Continue
<1>1. CASE UNCHANGED vars
  BY <1>1 DEF vars, Published, At
<1>2. CASE Next /\ phase \in Early
  <2>1. CASE ParseArg
    BY <2>1, ParseArgEffect
  <2> QED
    BY <1>2, <2>1, EarlySteps DEF Dash, EndOfArgs, Load, Merge, Route, RouteSql, RouteWorkload,
       PrintHelp, Early
<1>3. CASE RunGoWorkload
  <2> DEFINE others == Without(environ, StepsKeys)
  <2>1. /\ phase = "drivers" /\ phase' = "define"
        /\ plan.steps # {} /\ plan.noSteps = {} =>
              environ' = With(others, "STROPPY_STEPS", plan.steps)
        /\ plan.steps = {} /\ plan.noSteps # {} =>
              environ' = With(others, "STROPPY_NO_STEPS", plan.noSteps)
        /\ plan.steps = {} /\ plan.noSteps = {} => environ' = others
    <3>1. /\ phase = "drivers" /\ phase' = "define"
          /\ environ' = CASE plan.steps # {}   -> With(others, "STROPPY_STEPS", plan.steps)
                          [] plan.noSteps # {} -> With(others, "STROPPY_NO_STEPS", plan.noSteps)
                          [] OTHER -> others
      BY <1>3 DEF RunGoWorkload, Return
    <3>2. CASE plan.steps # {} /\ plan.noSteps = {}
      BY <3>1, <3>2
    <3>3. CASE plan.steps = {}
      BY <3>1, <3>3
    <3> QED
      BY <3>1, <3>2, <3>3
  <2>2. UNCHANGED <<plan.steps, plan.noSteps>>
    BY <1>3 DEF RunGoWorkload, Shapes
  <2>3. At(others, "STROPPY_STEPS") = {} /\ At(others, "STROPPY_NO_STEPS") = {}
    BY AtWithout DEF StepsKeys
  <2> HIDE DEF others
  <2>4. plan.steps = {} \/ plan.noSteps = {}
    BY <2>1 DEF Merged, Later
  <2>5. CASE plan.steps # {}
    <3>1. environ' = With(others, "STROPPY_STEPS", plan.steps)
      BY <2>1, <2>4, <2>5
    <3>2. /\ At(environ', "STROPPY_STEPS") = {plan.steps} /\ At(environ', "STROPPY_NO_STEPS") = {}
      BY <2>3, <3>1, AtWith
    <3> QED
      BY <2>1, <2>2, <2>4, <2>5, <3>2 DEF Published
  <2>6. CASE plan.steps = {} /\ plan.noSteps # {}
    <3>1. environ' = With(others, "STROPPY_NO_STEPS", plan.noSteps)
      BY <2>1, <2>6
    <3>2. /\ At(environ', "STROPPY_STEPS") = {} /\ At(environ', "STROPPY_NO_STEPS") = {plan.noSteps}
      BY <2>3, <3>1, AtWith
    <3> QED
      BY <2>1, <2>2, <2>6, <3>2 DEF Published
  <2>7. CASE plan.steps = {} /\ plan.noSteps = {}
    BY <2>1, <2>2, <2>3, <2>7 DEF Published
  <2> QED
    BY <2>5, <2>6, <2>7
<1>4. CASE Define
  <2>1. phase = "define" /\ phase' = "open" /\ environ' = environ
    BY <1>4 DEF Define, Return
  <2>2. UNCHANGED <<plan.steps, plan.noSteps>>
    BY <1>4 DEF Define, Shapes
  <2> QED
    BY <2>1, <2>2 DEF Published, At
<1>5. CASE Open
  <2>1. /\ phase = "open" /\ phase' = "setup" /\ environ' = environ
        /\ plan' = [plan EXCEPT !.filter = NewStepFilter(environ)]
    BY <1>5 DEF Open, Return
  <2>2. UNCHANGED <<plan.steps, plan.noSteps>> /\ plan'.filter = NewStepFilter(environ)
    BY <2>1 DEF Shapes
  <2>3. NewStepFilter(environ) = [only |-> plan.steps, except |-> plan.noSteps]
    <3>1. /\ At(environ, "STROPPY_STEPS") = {plan.steps} \ {{}}
          /\ At(environ, "STROPPY_NO_STEPS") = {plan.noSteps} \ {{}}
      BY <2>1 DEF Published
    <3>2. \A S : UNION ({S} \ {{}}) = S
      OBVIOUS
    <3> QED
      BY <3>1, <3>2 DEF NewStepFilter
  <2> QED
    BY <2>1, <2>2, <2>3 DEF Published
<1>6. CASE Setup
  BY <1>6 DEF Setup, Return, Published
<1>7. CASE Finish
  BY <1>7 DEF Finish, Return
<1>8. CASE phase \notin Early \cup Later /\ Next
  BY <1>1, <1>8, EndedStops
<1> QED
  BY <1>1, <1>2, <1>3, <1>4, <1>5, <1>6, <1>7, <1>8, LaterSteps

\* The first place that names SQL is the one that counts.
LEMMA FirstOfIs ==
    ASSUME NEW sets, DOMAIN sets \subseteq Nat, NEW i \in DOMAIN sets, NEW s \in sets[i],
           \A t \in sets[i] : t = s,
           \A j \in DOMAIN sets : j < i => sets[j] = {}
    PROVE  FirstOf(sets) = s
<1> DEFINE full == {j \in DOMAIN sets : sets[j] # {}}
<1>1. i \in full /\ full \subseteq Nat /\ \A j \in full : i <= j
  BY SMT
<1>2. Least(full) = i
  <2> HIDE DEF full
  <2> QED
    BY <1>1, LeastIs
<1> QED
  BY <1>1, <1>2 DEF FirstOf

LEMMA WordsAreTexts ==
    ASSUME Shapes, Shape(parsed.words) \in {"inline", "path"}
    PROVE  parsed.words # <<>> /\ parsed.words[1].text # ""
<1>1. parsed.words # <<>> /\ parsed.words[1].shape \in {"inline", "path"}
  BY DEF Shape
<1>2. parsed.words[1] \in {a \in study.args : a.flag = "word"}
  <2> DEFINE Words == {a \in study.args : a.flag = "word"}
  <2>1. parsed.words \in Seq(Words)
    BY DEF Shapes
  <2> HIDE DEF Words
  <2>2. parsed.words[1] \in Words
    BY <1>1, <2>1
  <2> QED
    BY <2>2 DEF Words
<1> QED
  BY <1>1, <1>2, StudiesAssumption DEF Shapes

\* What the command line names comes from its flag or from its words.
LEMMA NamedFrom ==
    ASSUME Shapes, NEW n \in Named
    PROVE  /\ n.kind \in {"body", "file"} /\ n.value # ""
           /\ \/ /\ "sql-file" \in DOMAIN parsed.params
                 /\ n = [kind |-> "file", value |-> parsed.params["sql-file"]]
              \/ /\ "sql-file" \notin DOMAIN parsed.params /\ parsed.words # <<>>
                 /\ \/ /\ Shape(parsed.words) = "inline"
                       /\ n = [kind |-> "body", value |-> parsed.words[1].text]
                    \/ /\ Shape(parsed.words) = "path"
                       /\ n = [kind |-> "file", value |-> parsed.words[1].text]
                    \/ /\ Shape(parsed.words) \notin {"inline", "path"}
                       /\ n = [kind |-> "file", value |-> Text(parsed.words, 2)]
<1>1. CASE "sql-file" \in DOMAIN parsed.params
  <2>1. n \in {[kind |-> "file", value |-> t] : t \in {parsed.params["sql-file"]} \ {""}}
    BY <1>1 DEF Named
  <2>2. PICK t \in {parsed.params["sql-file"]} \ {""} : n = [kind |-> "file", value |-> t]
    BY <2>1
  <2>3. t = parsed.params["sql-file"] /\ t # ""
    BY <2>2
  <2> QED
    BY <1>1, <2>2, <2>3
<1>2. CASE "sql-file" \notin DOMAIN parsed.params /\ Shape(parsed.words) = "inline"
  <2>1. n = [kind |-> "body", value |-> parsed.words[1].text]
    BY <1>2 DEF Named
  <2> QED
    BY <1>2, <2>1, WordsAreTexts
<1>3. CASE "sql-file" \notin DOMAIN parsed.params /\ Shape(parsed.words) = "path"
  <2>1. n = [kind |-> "file", value |-> parsed.words[1].text]
    BY <1>3 DEF Named
  <2> QED
    BY <1>3, <2>1, WordsAreTexts
<1>4. CASE "sql-file" \notin DOMAIN parsed.params /\ Shape(parsed.words) \notin {"inline", "path"}
  <2>1. n = [kind |-> "file", value |-> Text(parsed.words, 2)] /\ Text(parsed.words, 2) # ""
    BY <1>4 DEF Named
  <2>2. Text(<<>>, 2) = ""
    BY DEF Text
  <2>3. parsed.words # <<>>
    BY <2>1, <2>2
  <2> QED
    BY <1>4, <2>1, <2>3
<1> QED
  BY <1>1, <1>2, <1>3, <1>4

\* On the way to execute_sql, what the command line names is the explicit source.
LEMMA NamedIsResolved ==
    ASSUME Shapes, NEW n \in Named
    PROVE  ResolveSqlSource = Source(n.kind, n.value, TRUE)
<1> DEFINE typed == {Source("file", t, TRUE) : t \in At(parsed.params, "sql-file")}
           worded == IF ExplicitCliSource THEN {[s EXCEPT !.explicit = TRUE] : s \in RouteSource} ELSE {}
           c == SourceOf(environ)
           d == SourceOf(EnvOverrides)
           e == {Source("file", t, FALSE) : t \in At(file.params, "sqlFile")}
           f == RouteSource
           g == SourceOf(file.env)
           sets == <<typed, worded, c, d, e, f, g>>
<1>1. ResolveSqlSource = FirstOf(sets)
  BY DEF ResolveSqlSource
<1>2. n.kind \in {"body", "file"} /\ n.value # ""
  BY NamedFrom
<1>3. CASE "sql-file" \in DOMAIN parsed.params
  <2>1. n = [kind |-> "file", value |-> parsed.params["sql-file"]]
    BY <1>3, NamedFrom
  <2>2. typed = {Source(n.kind, n.value, TRUE)}
    BY <1>3, <2>1 DEF At
  <2> HIDE DEF typed, worded, c, d, e, f, g
  <2>3. /\ DOMAIN sets = 1..7 /\ DOMAIN sets \subseteq Nat /\ sets[1] = typed
        /\ \A j \in DOMAIN sets : ~(j < 1)
    OBVIOUS
  <2>4. FirstOf(sets) = Source(n.kind, n.value, TRUE)
    <3> DEFINE s == Source(n.kind, n.value, TRUE)
    <3> HIDE DEF sets
    <3>1. 1 \in DOMAIN sets /\ s \in sets[1] /\ \A t \in sets[1] : t = s
      BY <2>2, <2>3
    <3> HIDE DEF s
    <3>2. FirstOf(sets) = s
      BY <2>3, <3>1, FirstOfIs
    <3> QED
      BY <3>2 DEF s
  <2> QED
    BY <1>1, <2>4
<1>4. CASE "sql-file" \notin DOMAIN parsed.params
  <2>1. typed = {}
    BY <1>4 DEF At
  <2>2. worded = {Source(n.kind, n.value, TRUE)}
    <3>1. parsed.words # <<>>
      BY <1>4, NamedFrom
    <3>2. (ScriptWord = parsed.words /\ Script = parsed.words[1].text) \/ Len(parsed.words) < 1
      BY <3>1 DEF ScriptWord, Script, Text
    <3>3. Len(parsed.words) >= 1
      <4> DEFINE Words == {a \in study.args : a.flag = "word"}
      <4>1. parsed.words \in Seq(Words)
        BY DEF Shapes
      <4> HIDE DEF Words
      <4> QED
        BY <3>1, <4>1
    <3>4. ScriptWord = parsed.words /\ Script = parsed.words[1].text
      BY <3>1, <3>2, <3>3 DEF ScriptWord
    <3>5. CASE Shape(parsed.words) = "inline"
      <4>1. n = [kind |-> "body", value |-> parsed.words[1].text]
        BY <1>4, <3>5, NamedFrom
      <4>2. RouteSource = {Source("body", Script, FALSE)}
        BY <3>4, <3>5 DEF RouteSource
      <4>3. ExplicitCliSource
        BY <3>5 DEF ExplicitCliSource
      <4> QED
        BY <3>4, <4>1, <4>2, <4>3 DEF Source
    <3>6. CASE Shape(parsed.words) = "path"
      <4>1. n = [kind |-> "file", value |-> parsed.words[1].text]
        BY <1>4, <3>6, NamedFrom
      <4>2. RouteSource = {Source("file", Script, FALSE)}
        BY <3>4, <3>6 DEF RouteSource
      <4>3. ExplicitCliSource
        BY <3>6 DEF ExplicitCliSource
      <4> QED
        BY <3>4, <4>1, <4>2, <4>3 DEF Source
    <3>7. CASE Shape(parsed.words) \notin {"inline", "path"}
      <4>1. n = [kind |-> "file", value |-> Text(parsed.words, 2)]
        BY <1>4, <3>7, NamedFrom
      <4>2. Sql = n.value
        BY <1>2, <4>1 DEF Sql, Over
      <4>3. RouteSource = {Source("file", n.value, FALSE)}
        <5>1. RouteSource = {Source("file", t, FALSE) : t \in {Sql} \ {""}}
          BY <3>4, <3>7 DEF RouteSource
        <5> QED
          BY <1>2, <4>2, <5>1
      <4>4. ExplicitCliSource
        BY <1>2, <4>1 DEF ExplicitCliSource
      <4> QED
        BY <4>1, <4>3, <4>4 DEF Source
    <3> QED
      BY <3>5, <3>6, <3>7
  <2> HIDE DEF typed, worded, c, d, e, f, g
  <2>3. /\ DOMAIN sets = 1..7 /\ DOMAIN sets \subseteq Nat
        /\ sets[1] = typed /\ sets[2] = worded
    OBVIOUS
  <2>4. FirstOf(sets) = Source(n.kind, n.value, TRUE)
    <3> DEFINE s == Source(n.kind, n.value, TRUE)
    <3> HIDE DEF sets
    <3>1. 2 \in DOMAIN sets /\ s \in sets[2] /\ \A t \in sets[2] : t = s
      BY <2>2, <2>3
    <3>2. \A j \in DOMAIN sets : j < 2 => sets[j] = {}
      BY <2>1, <2>3
    <3> HIDE DEF s
    <3>3. FirstOf(sets) = s
      BY <2>3, <3>1, <3>2, FirstOfIs
    <3> QED
      BY <3>3 DEF s
  <2> QED
    BY <1>1, <2>4
<1> QED
  BY <1>3, <1>4

\* RouteSql puts the named SQL in both environments.
LEMMA RouteSqlCarries ==
    ASSUME Shapes, Merged, phase = "route", RouteSql, UNCHANGED input, NEW n \in Named
    PROVE  Carried(n)'
<1>1. n.kind \in {"body", "file"} /\ n.value # ""
  BY NamedFrom
<1>2. ResolveSqlSource = Source(n.kind, n.value, TRUE)
  BY NamedIsResolved
<1>3. /\ ResolveSqlSource.kind = n.kind /\ ResolveSqlSource.value = n.value
      /\ ResolveSqlSource.explicit
  BY <1>2 DEF Source
<1>4. /\ plan'.workload = "execute_sql" /\ plan'.source = ResolveSqlSource
      /\ plan'.rootEnv = ApplySqlSource(plan.rootEnv, ResolveSqlSource)
      /\ plan'.inputs = plan.inputs
      /\ environ' = ApplySqlSource(environ, ResolveSqlSource)
  BY <1>3 DEF RouteSql, Shapes
<1>5. \A env : Holds(ApplySqlSource(env, ResolveSqlSource), n)
  <2>1. \A env : Holds(ApplySqlSource(env, ResolveSqlSource), ResolveSqlSource)
    BY <1>1, <1>3, SourceApplied
  <2> QED
    BY <1>3, <2>1 DEF Holds
<1>6. Holds(environ', n) /\ Holds(plan'.rootEnv, n)
  BY <1>4, <1>5
<1>7. n.kind = "file" => At(plan'.inputs.cli, "sql-file") \subseteq {n.value}
  <2>1. plan.inputs.cli = parsed.params
    BY DEF Merged, ParamInputs
  <2>2. ASSUME "sql-file" \in DOMAIN parsed.params
        PROVE  parsed.params["sql-file"] = n.value
    <3>1. n = [kind |-> "file", value |-> parsed.params["sql-file"]]
      BY <2>2, NamedFrom
    <3> QED
      BY <3>1
  <2>3. At(parsed.params, "sql-file") \subseteq {n.value}
    BY <2>2 DEF At
  <2> QED
    BY <1>4, <2>1, <2>3
<1> QED
  BY <1>1, <1>3, <1>4, <1>6, <1>7 DEF Carried

\* RouteWorkload makes the SQL argument a typed parameter.
LEMMA RouteWorkloadCarries ==
    ASSUME Shapes, Merged, phase = "route", ~RoutesToSql, RouteWorkload, phase' = "drivers",
           UNCHANGED input, NEW n \in Named
    PROVE  Carried(n)'
<1>1. n.kind \in {"body", "file"} /\ n.value # ""
  BY NamedFrom
<1>2. plan.inputs.cli = parsed.params /\ "cli" \in DOMAIN plan.inputs
  BY DEF Merged, ParamInputs
<1>3. plan' = [plan EXCEPT !.workload = Script,
                   !.inputs.cli = IF Sql = "" \/ "sql-file" \in DOMAIN @ THEN @
                                  ELSE With(@, "sql-file", Sql)]
  BY DEF RouteWorkload, End
<1>4. /\ plan'.workload = Script
      /\ plan'.inputs.cli = IF Sql = "" \/ "sql-file" \in DOMAIN parsed.params THEN parsed.params
                            ELSE With(parsed.params, "sql-file", Sql)
  BY <1>2, <1>3 DEF Shapes
<1>5. Script # "execute_sql" /\ Shape(ScriptWord) \notin {"inline", "path"}
  BY DEF RoutesToSql
<1>6. n.kind = "file" /\ At(plan'.inputs.cli, "sql-file") = {n.value}
  <2>1. CASE "sql-file" \in DOMAIN parsed.params
    <3>1. n = [kind |-> "file", value |-> parsed.params["sql-file"]]
      BY <2>1, NamedFrom
    <3>2. plan'.inputs.cli = parsed.params
      BY <1>4, <2>1
    <3>3. At(parsed.params, "sql-file") = {parsed.params["sql-file"]}
      BY <2>1 DEF At
    <3> QED
      BY <3>1, <3>2, <3>3
  <2>2. CASE "sql-file" \notin DOMAIN parsed.params
    <3>1. parsed.words # <<>>
      BY <2>2, NamedFrom
    <3>2. Shape(parsed.words) \notin {"inline", "path"}
      BY <1>5, <3>1 DEF ScriptWord
    <3>3. n = [kind |-> "file", value |-> Text(parsed.words, 2)]
      BY <2>2, <3>2, NamedFrom
    <3>4. Sql = n.value /\ Sql # "" /\ n.kind = "file"
      BY <1>1, <3>3 DEF Sql, Over
    <3>5. plan'.inputs.cli = With(parsed.params, "sql-file", n.value)
      BY <1>4, <2>2, <3>4
    <3>6. At(With(parsed.params, "sql-file", n.value), "sql-file") = {n.value}
      BY AtWith
    <3> QED
      BY <3>4, <3>5, <3>6
  <2> QED
    BY <2>1, <2>2
<1> QED
  BY <1>1, <1>4, <1>5, <1>6 DEF Carried

LEMMA CarriesStep == Shapes /\ Merged /\ Carries /\ [Next]_vars => Carries'
<1> SUFFICES ASSUME Shapes, Merged, Carries, [Next]_vars, phase' \in Later, NEW n \in Named'
             PROVE  Carried(n)'
  BY DEF Carries
<1> USE DEF End, Continue
<1>1. CASE UNCHANGED vars
  BY <1>1 DEF vars, input, Carries, Carried, Named, Holds
<1>2. CASE Next /\ phase \in Early
  <2>1. Route
    <3>1. ~ParseArg
      BY ParseArgEffect DEF Later
    <3>2. ~Dash /\ ~EndOfArgs /\ ~Load /\ ~Merge
      BY DEF Dash, EndOfArgs, Load, Merge, PrintHelp, Later
    <3> QED
      BY <1>2, <3>1, <3>2, EarlySteps
  <2>2. phase = "route" /\ UNCHANGED input /\ phase' = "drivers"
    BY <2>1 DEF Route, RouteSql, RouteWorkload, Later
  <2>3. n \in Named
    BY <2>2 DEF Named, input
  <2>4. CASE RoutesToSql
    BY <2>1, <2>2, <2>3, <2>4, RouteSqlCarries DEF Route
  <2>5. CASE ~RoutesToSql
    BY <2>1, <2>2, <2>3, <2>5, RouteWorkloadCarries DEF Route
  <2> QED
    BY <2>4, <2>5
<1>3. CASE Next /\ phase \in Later
  <2>1. UNCHANGED <<parsed, plan.workload, plan.inputs, plan.rootEnv, plan.source>>
    BY <1>3, LaterFrame
  <2>2. n \in Named /\ Carried(n)
    BY <1>3, <2>1 DEF Named, Carries
  <2>3. \A key \in SqlKeys : At(environ', key) = At(environ, key)
    <3>1. CASE RunGoWorkload
      <4> DEFINE others == Without(environ, StepsKeys)
      <4>1. \/ environ' = With(others, "STROPPY_STEPS", plan.steps)
            \/ environ' = With(others, "STROPPY_NO_STEPS", plan.noSteps)
            \/ environ' = others
        BY <3>1 DEF RunGoWorkload, Return, Later
      <4>2. \A key \in SqlKeys : At(others, key) = At(environ, key)
        BY AtWithout DEF StepsKeys, SqlKeys
      <4> HIDE DEF others
      <4> QED
        BY <4>1, <4>2, AtWith DEF SqlKeys
    <3>2. CASE Define \/ Open \/ Setup \/ Finish
      <4>1. environ' = environ
        BY <3>2 DEF Define, Open, Setup, Finish, Return, Later
      <4> QED
        BY <4>1
    <3> QED
      BY <1>3, <3>1, <3>2, LaterSteps
  <2>4. Holds(environ, n) => Holds(environ', n)
    BY <2>3 DEF Holds, SqlKeys
  <2> QED
    BY <2>1, <2>2, <2>4 DEF Carried, Holds
<1>4. CASE Next /\ phase \notin Early \cup Later
  BY <1>1, <1>4, EndedStops
<1> QED
  BY <1>1, <1>2, <1>3, <1>4

\* Define resolves the parameters in the environment the run then has.
LEMMA ResolvedStep == Shapes /\ Resolved /\ [Next]_vars => Resolved'
<1> SUFFICES ASSUME Shapes, Resolved, [Next]_vars, phase' \in {"open", "setup", "running"}
             PROVE  Resolved'
  BY DEF Resolved
<1> USE DEF End, Continue
<1>1. CASE UNCHANGED vars
  BY <1>1 DEF vars, Resolved
<1>2. CASE Define
  <2> DEFINE values == ResolveAll(Descriptors(plan.workload, plan.inputs, environ), plan.inputs, environ)
  <2>1. /\ Defines(plan.workload, plan.inputs, environ) /\ SpecAccepts(values)
        /\ plan' = [plan EXCEPT !.values = values, !.scenario = ScenarioSpec(values)]
        /\ environ' = environ
    BY <1>2 DEF Define, Return
  <2>2. NoUnknown(Descriptors(plan.workload, plan.inputs, environ), plan.inputs)
    BY <2>1 DEF Defines
  <2> HIDE DEF values
  <2>3. /\ plan'.values = values /\ plan'.scenario = ScenarioSpec(values)
        /\ plan'.workload = plan.workload /\ plan'.inputs = plan.inputs
    BY <2>1 DEF Shapes
  <2> QED
    BY <2>1, <2>2, <2>3 DEF Resolved, values
<1>3. CASE Open \/ Setup \/ Finish
  <2>1. phase \in {"open", "setup", "running"} /\ environ' = environ
    BY <1>3 DEF Open, Setup, Finish, Return
  <2>2. UNCHANGED <<plan.workload, plan.inputs, plan.values, plan.scenario>>
    BY <1>3 DEF Open, Setup, Finish, Shapes
  <2> QED
    BY <2>1, <2>2 DEF Resolved
<1>4. CASE RunGoWorkload \/ Dash \/ EndOfArgs \/ Load \/ Merge \/ Route
  BY <1>4 DEF RunGoWorkload, Return, Dash, EndOfArgs, Load, Merge, PrintHelp, Route, RouteSql,
     RouteWorkload
<1>5. CASE ParseArg
  BY <1>5, ParseArgEffect
<1>6. CASE Stop
  BY <1>1, <1>6 DEF Stop
<1> QED
  BY <1>1, <1>2, <1>3, <1>4, <1>5, <1>6 DEF Next

\* Setup reads the SQL that was carried to it.
LEMMA ReadsStep == Shapes /\ Carries /\ Resolved /\ Reads /\ [Next]_vars => Reads'
<1> SUFFICES ASSUME Shapes, Carries, Resolved, Reads, [Next]_vars, phase' = "running", NEW n \in Named'
             PROVE  ran'.kind = n.kind /\ ran'.value = n.value
  BY DEF Reads
<1> USE DEF End, Continue
<1>1. CASE UNCHANGED vars
  BY <1>1 DEF vars, input, Reads, Named
<1>2. CASE Setup
  <2> DEFINE body == EnvText("STROPPY_SQL_BODY")
  <2>1. phase = "setup" /\ n \in Named
    BY <1>2 DEF Setup, Named, input
  <2>2. Carried(n)
    BY <2>1 DEF Carries, Later
  <2>3. IF plan.workload = "execute_sql" /\ body # NoSource
        THEN ran' = body
        ELSE ran' = IF SqlFile = "" THEN NoSource ELSE Source("file", SqlFile, FALSE)
    BY <1>2 DEF Setup, Return
  <2>4. CASE plan.workload = "execute_sql" /\ n.kind = "body"
    <3>1. At(environ, "STROPPY_SQL_BODY") = {n.value} /\ n.value # ""
      BY <2>2, <2>4 DEF Carried, Holds
    <3>2. body = Source("body", n.value, FALSE)
      <4> DEFINE first == {Source("body", t, FALSE) : t \in At(environ, "STROPPY_SQL_BODY") \ {""}}
                 second == {Source("body", t, FALSE) : t \in At(plan.rootEnv, "STROPPY_SQL_BODY") \ {""}}
                 s == Source("body", n.value, FALSE)
                 sets == <<first, second>>
      <4>1. s \in first /\ \A t \in first : t = s
        BY <3>1
      <4>2. body = FirstOf(sets)
        BY DEF EnvText
      <4> HIDE DEF first, second, s
      <4>3. DOMAIN sets = 1..2 /\ DOMAIN sets \subseteq Nat /\ sets[1] = first
        OBVIOUS
      <4> HIDE DEF sets
      <4>4. 1 \in DOMAIN sets /\ \A j \in DOMAIN sets : j < 1 => sets[j] = {}
        BY <4>3
      <4>5. FirstOf(sets) = s
        BY <4>1, <4>3, <4>4, FirstOfIs
      <4> QED
        BY <4>2, <4>5 DEF s
    <3> HIDE DEF body
    <3>3. body # NoSource /\ body.kind = "body" /\ body.value = n.value
      BY <3>2 DEF Source, NoSource
    <3> QED
      BY <2>3, <2>4, <3>3
  <2>5. CASE plan.workload = "execute_sql" /\ n.kind = "file"
    <3>1. /\ At(environ, "STROPPY_SQL_BODY") = {} /\ At(plan.rootEnv, "STROPPY_SQL_BODY") = {}
          /\ At(environ, "SQL_FILE") = {n.value} /\ n.value # ""
          /\ At(plan.inputs.cli, "sql-file") \subseteq {n.value}
      BY <2>2, <2>5 DEF Carried, Holds
    <3>2. body = NoSource
      <4>1. body = FirstOf(<<{}, {}>>)
        BY <3>1 DEF EnvText
      <4>2. {i \in DOMAIN <<{}, {}>> : <<{}, {}>>[i] # {}} = {}
        OBVIOUS
      <4> QED
        BY <4>1, <4>2 DEF FirstOf
    <3>3. SqlFile = n.value
      <4>1. CASE "sql-file" \in DOMAIN plan.inputs.cli
        BY <2>1, <3>1, <4>1, SqlFileTyped DEF At
      <4>2. CASE "sql-file" \notin DOMAIN plan.inputs.cli
        BY <2>1, <2>5, <3>1, <4>2, SqlFileOfProcess
      <4> QED
        BY <4>1, <4>2
    <3> HIDE DEF body
    <3>4. ran' = Source("file", n.value, FALSE)
      BY <2>3, <3>1, <3>2, <3>3
    <3> QED
      BY <2>5, <3>4 DEF Source
  <2>6. CASE plan.workload # "execute_sql"
    <3>1. n.kind = "file" /\ At(plan.inputs.cli, "sql-file") = {n.value} /\ n.value # ""
      BY <2>2, <2>6 DEF Carried
    <3>2. "sql-file" \in DOMAIN plan.inputs.cli /\ plan.inputs.cli["sql-file"] = n.value
      BY <3>1 DEF At
    <3>3. SqlFile = n.value
      BY <2>1, <3>2, SqlFileTyped
    <3> HIDE DEF body
    <3>4. ran' = Source("file", n.value, FALSE)
      BY <2>3, <2>6, <3>1, <3>3
    <3> QED
      BY <3>1, <3>4 DEF Source
  <2>7. n.kind \in {"body", "file"}
    BY <2>2 DEF Carried
  <2> QED
    BY <2>4, <2>5, <2>6, <2>7
<1>3. CASE Finish \/ Define \/ Open \/ RunGoWorkload \/ Dash \/ EndOfArgs \/ Load \/ Merge \/ Route
  BY <1>3 DEF Finish, Define, Open, RunGoWorkload, Return, Dash, EndOfArgs, Load, Merge, PrintHelp,
              Route, RouteSql, RouteWorkload
<1>4. CASE ParseArg
  BY <1>4, ParseArgEffect
<1>5. CASE Stop
  BY <1>1, <1>5 DEF Stop
<1> QED
  BY <1>1, <1>2, <1>3, <1>4, <1>5 DEF Next

\* The parser keeps the options in their order and one preset.
LEMMA ParseArgDriver ==
    ASSUME Shapes, Configured, ParseArg
    PROVE  /\ parsed'.opts \in Seq({a \in study.args : a.flag = "-D"})
           /\ \A p \in parsed'.presets : p \in study.args /\ p.flag = "-d" /\ parsed'.presets = {p}
<1> DEFINE Opts == {a \in study.args : a.flag = "-D"}
           Fields == {"words", "file", "steps", "noSteps", "env", "params", "presets", "opts",
                      "help", "dash"}
           OnePreset(presets) == \A p \in presets : p \in study.args /\ p.flag = "-d" /\ presets = {p}
<1>1. Fields \subseteq DOMAIN parsed /\ parsed.opts \in Seq(Opts) /\ OnePreset(parsed.presets)
  BY DEF Shapes, Configured
<1>2. PICK a \in study.args :
          \/ ParseHelpFlag(a) \/ ParseStepsFlag(a) \/ ParseFileFlag(a) \/ ParseEnvFlag(a)
          \/ ParseDriverFlag(a) \/ ParseDriverOptFlag(a) \/ ParseTypedParamFlag(a)
          \/ LackValue(a) \/ ApplyPositional(a)
  BY DEF ParseArg
<1>3. CASE ParseDriverFlag(a)
  <2>1. parsed'.presets = {a} /\ parsed'.opts = parsed.opts /\ a.flag = "-d"
    BY <1>1, <1>3 DEF ParseDriverFlag, Accept
  <2> QED
    BY <1>1, <2>1
<1>4. CASE ParseDriverOptFlag(a)
  <2>1. /\ parsed'.presets = parsed.presets /\ parsed'.opts = Append(parsed.opts, a)
        /\ a.flag = "-D"
    BY <1>1, <1>4 DEF ParseDriverOptFlag, Accept
  <2>2. a \in Opts
    BY <2>1
  <2>3. parsed'.opts \in Seq(Opts)
    <3> HIDE DEF Opts
    <3> QED
      BY <1>1, <2>1, <2>2
  <2> QED
    BY <1>1, <2>1, <2>3
<1>5. CASE ~ParseDriverFlag(a) /\ ~ParseDriverOptFlag(a)
  <2>1. parsed'.presets = parsed.presets /\ parsed'.opts = parsed.opts
    BY <1>1, <1>2, <1>5 DEF ParseHelpFlag, ParseStepsFlag, ParseFileFlag, ParseEnvFlag,
         ParseTypedParamFlag, Accept, LackValue, ApplyPositional, Refuse, input
  <2> QED
    BY <1>1, <2>1
<1> QED
  BY <1>3, <1>4, <1>5

\* The message depends on the environment only through POOL_SIZE.
LEMMA SameMessage ==
    ASSUME NEW cfg, NEW env, NEW other, NEW rootEnv, At(env, "POOL_SIZE") = At(other, "POOL_SIZE")
    PROVE  BuildDriverConfig(cfg, env, rootEnv) = BuildDriverConfig(cfg, other, rootEnv)
<1>1. /\ "POOL_SIZE" \in DOMAIN env <=> "POOL_SIZE" \in DOMAIN other
      /\ "POOL_SIZE" \in DOMAIN env => env["POOL_SIZE"] = other["POOL_SIZE"]
  BY DEF At
<1>2. LegacyPoolSize(env, rootEnv) = LegacyPoolSize(other, rootEnv)
  BY <1>1 DEF LegacyPoolSize
<1> QED
  BY <1>2 DEF BuildDriverConfig

\* The driver is configured once, before the steps are published.
LEMMA ConfiguredStep == Shapes /\ Configured /\ [Next]_vars => Configured'
<1> SUFFICES ASSUME Shapes, Configured, [Next]_vars PROVE Configured'
  OBVIOUS
<1> USE DEF End, Continue
<1> DEFINE Built(c) == /\ plan.opened = BuildDriverConfig(c, environ, plan.rootEnv)
                       /\ ~IsRejected(plan.opened)
<1>1. CASE UNCHANGED vars
  BY <1>1 DEF vars, input, Configured, DriverConfigs
<1>2. CASE ParseArg
  <2>1. /\ study' = study /\ file' = file /\ phase' \in {"args", "ended"}
    BY <1>2, ParseArgEffect
  <2> QED
    BY <1>2, <2>1, ParseArgDriver DEF Configured, Later
<1>3. CASE Dash
  <2>1. /\ study' = study /\ file' = file /\ phase' = "args"
        /\ parsed'.opts = parsed.opts /\ parsed'.presets = parsed.presets
    BY <1>3 DEF Dash, Shapes
  <2> QED
    BY <2>1 DEF Configured, Later
<1>4. CASE EndOfArgs
  <2>1. UNCHANGED <<study, parsed, file>> /\ phase' \in {"load", "ended"}
    BY <1>4 DEF EndOfArgs, PrintHelp, input
  <2> QED
    BY <2>1 DEF Configured, Later
<1>5. CASE Load
  <2>1. UNCHANGED <<study, parsed>> /\ phase' \in {"merge", "ended"}
    BY <1>5 DEF Load, input
  <2>2. CASE UNCHANGED file
    BY <2>1, <2>2 DEF Configured, Later
  <2>3. CASE ~UNCHANGED file
    <3>1. PICK disk \in study.disks :
              FilePath \in DOMAIN disk /\ file' = [disk[FilePath] EXCEPT !.env = NormalizeEnv(@)]
      BY <1>5, <2>3 DEF Load
    <3>2. file'.drivers = disk[FilePath].drivers
      BY <3>1
    <3>3. \A c, d \in file'.drivers : DOMAIN NoDriver \subseteq DOMAIN c /\ d = c
      <4>1. \A path \in DOMAIN disk : \A c, d \in disk[path].drivers :
               DOMAIN NoDriver \subseteq DOMAIN c /\ d = c
        <5>1. study \in Studies
          BY DEF Shapes
        <5> QED
          BY <3>1, <5>1, StudiesAssumption
      <4> QED
        BY <3>1, <3>2, <4>1
    <3>4. \A c \in file'.drivers : DOMAIN NoDriver \subseteq DOMAIN c /\ file'.drivers = {c}
      BY <3>3
    <3> QED
      BY <2>1, <3>4 DEF Configured, Later
  <2> QED
    BY <2>2, <2>3
<1>6. CASE Merge
  <2>1. UNCHANGED <<study, parsed, file>> /\ phase' \in {"route", "ended"}
    BY <1>6 DEF Merge, PrintHelp, input
  <2>2. phase' = "route" => \A c \in DriverConfigs : ~IsRejected(c)
    BY <1>6 DEF Merge, PrintHelp, Invalid
  <2>3. DriverConfigs' = DriverConfigs
    BY <2>1 DEF DriverConfigs
  <2> QED
    BY <2>1, <2>2, <2>3 DEF Configured, Later
<1>7. CASE Route
  <2>1. UNCHANGED <<study, parsed, file>> /\ phase = "route" /\ phase' \in {"drivers", "ended"}
    BY <1>7 DEF Route, RouteSql, RouteWorkload, input
  <2>2. DriverConfigs' = DriverConfigs
    BY <2>1 DEF DriverConfigs
  <2> QED
    BY <2>1, <2>2 DEF Configured, Later
<1>8. CASE RunGoWorkload
  <2>1. UNCHANGED <<study, parsed, file>> /\ phase = "drivers" /\ phase' \in {"define", "ended"}
    BY <1>8 DEF RunGoWorkload, Return, input
  <2>2. DriverConfigs' = DriverConfigs
    BY <2>1 DEF DriverConfigs
  <2>3. ASSUME phase' = "define", NEW c \in DriverConfigs
        PROVE  Built(c)'
    <3> DEFINE others == Without(environ, StepsKeys)
               built == IF DriverConfigs = {} THEN DefaultDriver
                        ELSE BuildDriverConfig(CHOOSE x \in DriverConfigs : TRUE, environ, plan.rootEnv)
    <3>1. /\ ~IsRejected(built) /\ plan' = [plan EXCEPT !.opened = built]
          /\ \/ environ' = With(others, "STROPPY_STEPS", plan.steps)
             \/ environ' = With(others, "STROPPY_NO_STEPS", plan.noSteps)
             \/ environ' = others
      BY <1>8, <2>3 DEF RunGoWorkload, Return
    <3>2. (CHOOSE x \in DriverConfigs : TRUE) = c
      BY DEF DriverConfigs
    <3>3. built = BuildDriverConfig(c, environ, plan.rootEnv)
      BY <3>2
    <3>4. At(others, "POOL_SIZE") = At(environ, "POOL_SIZE")
      BY AtWithout DEF StepsKeys
    <3> HIDE DEF others, built
    <3>5. At(environ', "POOL_SIZE") = At(environ, "POOL_SIZE")
      BY <3>1, <3>4, AtWith
    <3>6. plan'.opened = built /\ plan'.rootEnv = plan.rootEnv
      BY <3>1 DEF Shapes
    <3>7. BuildDriverConfig(c, environ, plan.rootEnv) = BuildDriverConfig(c, environ', plan.rootEnv)
      BY <3>5, SameMessage
    <3> QED
      BY <3>1, <3>3, <3>6, <3>7
  <2> QED
    BY <2>1, <2>2, <2>3 DEF Configured, Later
<1>9. CASE Define \/ Open \/ Setup \/ Finish
  <2>1. /\ UNCHANGED <<study, parsed, file>> /\ phase \in Later \ {"drivers"}
        /\ phase' \in Later \cup {"ended"}
    BY <1>9 DEF Define, Open, Setup, Finish, Return, input, Later
  <2>2. UNCHANGED <<plan.opened, plan.rootEnv>>
    BY <1>9 DEF Define, Open, Setup, Finish, Shapes
  <2>3. phase' \in Later => environ' = environ
    BY <1>9 DEF Define, Open, Setup, Finish, Return, Later
  <2>4. DriverConfigs' = DriverConfigs
    BY <2>1 DEF DriverConfigs
  <2>5. CASE phase' \in Later
    BY <2>1, <2>2, <2>3, <2>4, <2>5 DEF Configured, Later
  <2>6. CASE phase' = "ended"
    BY <2>1, <2>6 DEF Configured, Later
  <2> QED
    BY <2>1, <2>5, <2>6
<1>10. CASE Stop
  BY <1>1, <1>10 DEF Stop
<1> QED
  BY <1>1, <1>2, <1>3, <1>4, <1>5, <1>6, <1>7, <1>8, <1>9, <1>10 DEF Next

-----------------------------------------------------------------------------
(* The theorems. *)

\* The state keeps its shape, and every part of the invariant above holds in every state.
THEOREM Invariance == Spec => []IInv
<1>1. IInv /\ [Next]_vars => IInv'
  BY ShapesStep, EnvironmentStep, MergedStep, PublishedStep, CarriesStep, RoutedStep, ResolvedStep,
     ReadsStep, ConfiguredStep DEF IInv
<1> QED
  BY InitInv, <1>1, PTL DEF Spec

\* SQL that the command line names is the SQL that runs, whatever the environment, -e and the
\* configuration file name; and the command leaves the environment's SQL as it found it.
THEOREM NamedSqlWins == Spec => []NamedSqlRuns
<1>1. IInv => NamedSqlRuns
  BY DEF IInv, Reads, Environment, NamedSqlRuns
<1> QED
  BY <1>1, Invariance, PTL

\* What a parameter is read from, when none of its variables is ITER, does not depend on ITER.
LEMMA ChannelsWithoutIter ==
    ASSUME NEW inputs, {"legacyEnv", "configEnv"} \subseteq DOMAIN inputs, NEW env, NEW d,
           DOMAIN EnvNames(d) \subseteq Nat, \A i \in DOMAIN EnvNames(d) : EnvNames(d)[i] # "ITER"
    PROVE  ResolveParam([inputs EXCEPT !.legacyEnv = WithoutIter(@), !.configEnv = WithoutIter(@)],
                        WithoutIter(env), d)
               = ResolveParam(inputs, env, d)
<1> DEFINE less == [inputs EXCEPT !.legacyEnv = WithoutIter(@), !.configEnv = WithoutIter(@)]
<1> SUFFICES ResolveParam(less, WithoutIter(env), d) = ResolveParam(inputs, env, d)
  OBVIOUS
<1>1. /\ less.cli = inputs.cli /\ less.run = inputs.run /\ less.workload = inputs.workload
      /\ less.legacyEnv = WithoutIter(inputs.legacyEnv)
      /\ less.configEnv = WithoutIter(inputs.configEnv)
  OBVIOUS
<1>2. \A values : FirstSet(WithoutIter(values), EnvNames(d)) = FirstSet(values, EnvNames(d))
  <2> SUFFICES ASSUME NEW values
               PROVE  FirstSet(WithoutIter(values), EnvNames(d)) = FirstSet(values, EnvNames(d))
    OBVIOUS
  <2> DEFINE names == EnvNames(d)
             present == {i \in DOMAIN names : names[i] \in DOMAIN values}
  <2>1. /\ DOMAIN WithoutIter(values) = DOMAIN values \ {"ITER"}
        /\ \A k \in DOMAIN values \ {"ITER"} : WithoutIter(values)[k] = values[k]
    BY DEF WithoutIter, Without
  <2>2. {i \in DOMAIN names : names[i] \in DOMAIN WithoutIter(values)} = present
    BY <2>1
  <2>3. CASE present = {}
    BY <2>2, <2>3 DEF FirstSet
  <2>4. CASE present # {}
    <3> DEFINE first == names[Least(present)]
    <3>1. FirstSet(values, names) = {values[first]}
      BY <2>4 DEF FirstSet
    <3>2. FirstSet(WithoutIter(values), names) = {WithoutIter(values)[first]}
      BY <2>2, <2>4 DEF FirstSet
    <3>3. present \subseteq Nat
      OBVIOUS
    <3>4. Least(present) \in present
      <4> HIDE DEF present
      <4> QED
        BY <2>4, <3>3, LeastIsLeast
    <3>5. WithoutIter(values)[first] = values[first]
      BY <2>1, <3>4
    <3> QED
      BY <3>1, <3>2, <3>5
  <2> QED
    BY <2>3, <2>4
<1>3. ASSUME NEW i \in DOMAIN ChannelOrder
      PROVE  Channel(less, WithoutIter(env), d, ChannelOrder[i])
                 = Channel(inputs, env, d, ChannelOrder[i])
  <2> HIDE DEF less
  <2>1. ChannelOrder[i] \in {"cli", "process", "legacy-env", "config", "config-env"}
    BY DEF ChannelOrder
  <2>2. CASE ChannelOrder[i] = "cli"
    BY <1>1, <2>2 DEF Channel
  <2>3. CASE ChannelOrder[i] = "process"
    BY <1>2, <2>3 DEF Channel
  <2>4. CASE ChannelOrder[i] = "legacy-env"
    BY <1>1, <1>2, <2>4 DEF Channel
  <2>5. CASE ChannelOrder[i] = "config"
    BY <1>1, <2>5 DEF Channel
  <2>6. CASE ChannelOrder[i] = "config-env"
    BY <1>1, <1>2, <2>6 DEF Channel
  <2> QED
    BY <2>1, <2>2, <2>3, <2>4, <2>5, <2>6
<1> DEFINE set == {i \in DOMAIN ChannelOrder : Channel(inputs, env, d, ChannelOrder[i]) # {}}
<1>4. {i \in DOMAIN ChannelOrder : Channel(less, WithoutIter(env), d, ChannelOrder[i]) # {}} = set
  BY <1>3
<1> HIDE DEF less
<1>5. CASE set = {}
  BY <1>4, <1>5 DEF ResolveParam
<1>6. CASE set # {}
  <2> DEFINE source == ChannelOrder[Least(set)]
  <2>1. Least(set) \in set
    <3>1. set \subseteq Nat
      BY DEF ChannelOrder
    <3> HIDE DEF set
    <3> QED
      BY <1>6, <3>1, LeastIsLeast
  <2>2. Channel(less, WithoutIter(env), d, source) = Channel(inputs, env, d, source)
    BY <1>3, <2>1
  <2>3. ResolveParam(less, WithoutIter(env), d) =
          [source |-> source, value |-> CHOOSE v \in Channel(less, WithoutIter(env), d, source) : TRUE]
    BY <1>4, <1>6 DEF ResolveParam
  <2>4. ResolveParam(inputs, env, d) =
          [source |-> source, value |-> CHOOSE v \in Channel(inputs, env, d, source) : TRUE]
    BY <1>6 DEF ResolveParam
  <2> QED
    BY <2>2, <2>3, <2>4
<1> QED
  BY <1>5, <1>6

\* A duration that comes from a variable is one that the declarations took for legacy.
LEMMA LegacyIsDeclared ==
    ASSUME NEW inputs, NEW env, NEW d,
           d = Declared("run", "duration", "DURATION", "duration", "duration", "0s", <<>>),
           ResolveParam(inputs, env, d).source \in {"process", "legacy-env", "config-env"}
    PROVE  EffectiveDurationIsLegacy(inputs, env)
<1> DEFINE set == {i \in DOMAIN ChannelOrder : Channel(inputs, env, d, ChannelOrder[i]) # {}}
           n == Least(set)
<1>1. /\ DOMAIN ChannelOrder = 1..5 /\ ChannelOrder[1] = "cli" /\ ChannelOrder[2] = "process"
      /\ ChannelOrder[3] = "legacy-env" /\ ChannelOrder[4] = "config"
      /\ ChannelOrder[5] = "config-env"
  BY DEF ChannelOrder
<1>2. set # {}
  <2> SUFFICES ASSUME set = {} PROVE FALSE
    OBVIOUS
  <2>1. ResolveParam(inputs, env, d) = [source |-> "default", value |-> d.default]
    BY DEF ResolveParam
  <2> QED
    BY <2>1
<1>3. n \in set /\ \A j \in set : n <= j
  <2>1. set \subseteq Nat
    BY <1>1
  <2> HIDE DEF set
  <2> QED
    BY <1>2, <2>1, LeastIsLeast
<1>4. ChannelOrder[n] \in {"process", "legacy-env", "config-env"}
  <2>1. ResolveParam(inputs, env, d).source = ChannelOrder[n]
    BY <1>2 DEF ResolveParam
  <2> QED
    BY <2>1
<1>5. n \in {2, 3, 5}
  <2>1. n \in 1..5
    BY <1>1, <1>3
  <2> HIDE DEF n
  <2> QED
    BY <1>1, <1>4, <2>1
<1>6. EnvNames(d) = <<"DURATION">>
  <2>1. EnvNames(d) = <<"DURATION">> \o <<>>
    BY DEF EnvNames, Declared
  <2> QED
    BY <2>1, ConcatEmptySeq
<1>7. d.name = "duration" /\ d.scope = "run" /\ d.config = "duration"
  BY DEF Declared
<1>8. \A values : "DURATION" \notin DOMAIN values => FirstSet(values, <<"DURATION">>) = {}
  BY DEF FirstSet
<1>9. "duration" \notin DOMAIN inputs.cli
  <2>1. 1 \notin set
    <3> HIDE DEF set, n
    <3> QED
      BY <1>3, <1>5
  <2>2. Channel(inputs, env, d, "cli") = {}
    BY <1>1, <2>1
  <2> QED
    BY <1>7, <2>2 DEF Channel, At
<1>10. Channel(inputs, env, d, ChannelOrder[n]) # {}
  BY <1>3
<1>11. CASE n = 2
  <2>1. FirstSet(env, <<"DURATION">>) # {}
    BY <1>1, <1>6, <1>10, <1>11 DEF Channel
  <2> QED
    BY <1>8, <1>9, <2>1 DEF EffectiveDurationIsLegacy
<1>12. CASE n = 3
  <2>1. FirstSet(inputs.legacyEnv, <<"DURATION">>) # {}
    BY <1>1, <1>6, <1>10, <1>12 DEF Channel
  <2> QED
    BY <1>8, <1>9, <2>1 DEF EffectiveDurationIsLegacy
<1>13. CASE n = 5
  <2>1. FirstSet(inputs.configEnv, <<"DURATION">>) # {}
    BY <1>1, <1>6, <1>10, <1>13 DEF Channel
  <2>2. 4 \notin set
    <3> HIDE DEF set, n
    <3> QED
      BY <1>3, <1>13
  <2>3. Channel(inputs, env, d, "config") = {}
    BY <1>1, <2>2
  <2>4. "duration" \notin DOMAIN inputs.run
    BY <1>7, <2>3 DEF Channel, At
  <2> QED
    BY <1>8, <1>9, <2>1, <2>4 DEF EffectiveDurationIsLegacy
<1> QED
  BY <1>5, <1>11, <1>12, <1>13

\* When a legacy duration decides, the parameters resolve the same without ITER.
LEMMA IterCountsForNothing ==
    ASSUME NEW workload \in DOMAIN WorkloadParams, NEW inputs, NEW env,
           {"legacyEnv", "configEnv"} \subseteq DOMAIN inputs,
           LegacyDuration(ResolveAll(Descriptors(workload, inputs, env), inputs, env))
    PROVE  LET less == [inputs EXCEPT !.legacyEnv = WithoutIter(@), !.configEnv = WithoutIter(@)] IN
           ResolveAll(Descriptors(workload, less, WithoutIter(env)), less, WithoutIter(env))
               = ResolveAll(Descriptors(workload, inputs, env), inputs, env)
<1> DEFINE less == [inputs EXCEPT !.legacyEnv = WithoutIter(@), !.configEnv = WithoutIter(@)]
           descs == Descriptors(workload, inputs, env)
           duration == Declared("run", "duration", "DURATION", "duration", "duration", "0s", <<>>)
<1>1. \A d \in RangeOf(descs) :
          /\ d.scope \in {"run", "workload"} /\ DOMAIN EnvNames(d) \subseteq Nat
          /\ d.name = "duration" => d = duration
  BY Declaration
<1>2. duration \in RangeOf(descs)
  <2>1. duration \in RangeOf(ScenarioParams(EffectiveDurationIsLegacy(inputs, env)))
    <3> DEFINE first == ScenarioParams(EffectiveDurationIsLegacy(inputs, env))
    <3>1. 4 \in DOMAIN first /\ first[4] = duration
      BY DEF ScenarioParams
    <3> HIDE DEF first
    <3>2. duration \in RangeOf(first)
      BY <3>1 DEF RangeOf
    <3> QED
      BY <3>2 DEF first
  <2> QED
    BY <2>1, Declarations
<1>3. EffectiveDurationIsLegacy(inputs, env)
  <2>1. PICK i \in DOMAIN descs : descs[i] = duration
    BY <1>2 DEF RangeOf
  <2>2. duration.name = "duration" /\ duration.scope = "run"
    BY DEF Declared
  <2> HIDE DEF descs, duration
  <2>3. \E d \in RangeOf(descs) :
            /\ d.name = "duration"
            /\ ResolveAll(descs, inputs, env)["duration"] = ResolveParam(inputs, env, d)
    BY <2>1, <2>2, ValueOf
  <2>4. ResolveAll(descs, inputs, env)["duration"] = ResolveParam(inputs, env, duration)
    BY <1>1, <2>3
  <2>5. ResolveAll(descs, inputs, env)["duration"].source \in {"process", "legacy-env", "config-env"}
    BY DEF LegacyDuration, descs
  <2>6. ResolveParam(inputs, env, duration).source \in {"process", "legacy-env", "config-env"}
    BY <2>4, <2>5
  <2>7. duration = Declared("run", "duration", "DURATION", "duration", "duration", "0s", <<>>)
    BY DEF duration
  <2> HIDE DEF duration
  <2> QED
    BY <2>6, <2>7, LegacyIsDeclared
<1>4. EffectiveDurationIsLegacy(less, WithoutIter(env))
  <2>1. \A values : "DURATION" \in DOMAIN WithoutIter(values) <=> "DURATION" \in DOMAIN values
    BY DEF WithoutIter, Without
  <2>2. /\ less.cli = inputs.cli /\ less.run = inputs.run
        /\ less.legacyEnv = WithoutIter(inputs.legacyEnv)
        /\ less.configEnv = WithoutIter(inputs.configEnv)
    OBVIOUS
  <2> HIDE DEF less
  <2> QED
    BY <1>3, <2>1, <2>2 DEF EffectiveDurationIsLegacy
<1>5. Descriptors(workload, less, WithoutIter(env)) = descs
  <2> HIDE DEF less
  <2>1. EffectiveDurationIsLegacy(less, WithoutIter(env)) = EffectiveDurationIsLegacy(inputs, env)
    <3>1. /\ EffectiveDurationIsLegacy(less, WithoutIter(env)) \in BOOLEAN
          /\ EffectiveDurationIsLegacy(inputs, env) \in BOOLEAN
      BY DEF EffectiveDurationIsLegacy
    <3> QED
      BY <1>3, <1>4, <3>1
  <2> QED
    BY <2>1 DEF Descriptors
<1>6. \A d \in RangeOf(descs) : ResolveParam(less, WithoutIter(env), d) = ResolveParam(inputs, env, d)
  <2>1. \A d \in RangeOf(descs) : \A i \in DOMAIN EnvNames(d) : EnvNames(d)[i] # "ITER"
    BY <1>3, Declaration
  <2> HIDE DEF descs, duration
  <2> QED
    BY <1>1, <2>1, ChannelsWithoutIter
<1>7. ResolveAll(descs, less, WithoutIter(env)) = ResolveAll(descs, inputs, env)
  <2> HIDE DEF less, descs, duration
  <2>1. ASSUME NEW name \in Names(descs, {"run", "workload"}, "name")
        PROVE  (CHOOSE d \in {descs[i] : i \in DOMAIN descs} : d.name = name) \in RangeOf(descs)
    BY DEF Names, RangeOf
  <2>2. ASSUME NEW name \in Names(descs, {"run", "workload"}, "name")
        PROVE  ResolveAll(descs, less, WithoutIter(env))[name] = ResolveAll(descs, inputs, env)[name]
    BY <1>6, <2>1 DEF ResolveAll
  <2>3. /\ ResolveAll(descs, less, WithoutIter(env)) =
              [name \in Names(descs, {"run", "workload"}, "name") |->
                  ResolveAll(descs, less, WithoutIter(env))[name]]
        /\ ResolveAll(descs, inputs, env) =
              [name \in Names(descs, {"run", "workload"}, "name") |->
                  ResolveAll(descs, inputs, env)[name]]
    BY DEF ResolveAll
  <2> QED
    BY <2>2, <2>3
<1> QED
  BY <1>5, <1>7

\* The run is the run that was asked for.
LEMMA AskedFor ==
    ASSUME IInv
    PROVE  RunAsAsked
<1> DEFINE descs == Descriptors(plan.workload, plan.inputs, environ)
<1>1. ASSUME phase \in {"setup", "running"}
      PROVE  /\ plan.filter.only = EffectiveSteps(parsed.steps, file.steps)
             /\ plan.filter.except = EffectiveSteps(parsed.noSteps, file.noSteps)
  BY <1>1 DEF IInv, Published, Merged, Later, Steps, NoSteps
<1>2. ASSUME phase = "running"
      PROVE  /\ plan.values = ResolveAll(descs, plan.inputs, environ)
             /\ plan.scenario = ScenarioSpec(plan.values)
             /\ NoUnknown(descs, plan.inputs) /\ SpecAccepts(plan.values)
  BY <1>2 DEF IInv, Resolved
<1>3. ASSUME phase = "running", NEW name \in DOMAIN plan.scenario \cap DOMAIN parsed.params
      PROVE  plan.scenario[name] = parsed.params[name]
  <2>1. name \in DOMAIN plan.inputs.cli /\ plan.inputs.cli[name] = parsed.params[name]
    BY <1>3 DEF IInv, Merged, Later
  <2> HIDE DEF descs
  <2>2. plan.values[name] = [source |-> "cli", value |-> parsed.params[name]]
    BY <1>2, <1>3, <2>1, TypedValue
  <2>3. name \in {"executor", "vus", "iterations", "duration"}
    BY <1>2, <1>3 DEF ScenarioSpec
  <2>4. CASE name = "executor"
    <3>1. Explicit(plan.values["executor"])
      BY <2>2, <2>4 DEF Explicit
    <3> QED
      BY <1>2, <1>3, <2>2, <2>4, <3>1 DEF ScenarioSpec, Executor
  <2>5. CASE name \in {"vus", "iterations", "duration"}
    BY <1>2, <1>3, <2>2, <2>5 DEF ScenarioSpec
  <2> QED
    BY <2>3, <2>4, <2>5
<1>4. ASSUME phase = "running"
      PROVE  (plan.scenario.executor = "constant-vus") = Explicit(plan.values["duration"])
  <2>1. plan.scenario.executor = Executor(plan.values)
    BY <1>2, <1>4 DEF ScenarioSpec
  <2>2. \/ Executor(plan.values) = "shared-iterations" /\ ~Explicit(plan.values["duration"])
        \/ Executor(plan.values) = "constant-vus" /\ Explicit(plan.values["duration"])
    BY <1>2, <1>4 DEF SpecAccepts
  <2>3. Explicit(plan.values["duration"]) \in BOOLEAN
    BY DEF Explicit
  <2> QED
    BY <2>1, <2>2, <2>3
<1>5. ASSUME phase = "running", LegacyDuration(plan.values)
      PROVE  LET inputs == [plan.inputs EXCEPT !.legacyEnv = WithoutIter(@),
                                               !.configEnv = WithoutIter(@)]
                 env == WithoutIter(environ) IN
             ScenarioSpec(ResolveAll(Descriptors(plan.workload, inputs, env), inputs, env))
                 = plan.scenario
  <2>1. plan.workload \in DOMAIN WorkloadParams
    BY <1>5 DEF IInv, Routed, Later
  <2>2. {"legacyEnv", "configEnv"} \subseteq DOMAIN plan.inputs
    BY <1>5 DEF IInv, Merged, Later, InputFields
  <2>3. LegacyDuration(ResolveAll(Descriptors(plan.workload, plan.inputs, environ), plan.inputs, environ))
    BY <1>2, <1>5
  <2>4. LET inputs == [plan.inputs EXCEPT !.legacyEnv = WithoutIter(@),
                                          !.configEnv = WithoutIter(@)]
            env == WithoutIter(environ) IN
        ResolveAll(Descriptors(plan.workload, inputs, env), inputs, env)
            = ResolveAll(Descriptors(plan.workload, plan.inputs, environ), plan.inputs, environ)
    BY <2>1, <2>2, <2>3, IterCountsForNothing
  <2> QED
    BY <1>2, <1>5, <2>4
<1> QED
  BY <1>1, <1>3, <1>4, <1>5 DEF RunAsAsked

\* Only the steps asked for run; a typed parameter is never overridden; a duration and
\* constant-vus come together; and a legacy DURATION makes ITER count for nothing.
THEOREM AcceptedIsAsked == Spec => []RunAsAsked
BY AskedFor, Invariance, PTL

-----------------------------------------------------------------------------
(* The options of the driver, one after the other. *)

Applied(cfg, opt) == IF IsRejected(cfg) THEN Rejected ELSE ApplyDriverOpt(cfg, opt.path, opt.value)

LEMMA OptsStepwise ==
    ASSUME NEW cfg, NEW opts, Len(opts) \in Nat
    PROVE  \E f : /\ f[0] = cfg /\ f[Len(opts)] = ApplyDriverOpts(cfg, opts)
                  /\ \A n \in 1..Len(opts) : f[n] = Applied(f[n - 1], opts[n])
<1> DEFINE N == Len(opts)
           Step(f, n) == IF n = 0 THEN cfg ELSE Applied(f[n - 1], opts[n])
           Body(f) == [n \in 0..N |-> Step(f, n)]
           Built == {m \in 0..N : \E g : g = [n \in 0..m |-> Step(g, n)]}
<1>1. 0 \in Built
  <2> DEFINE g == [n \in 0..0 |-> cfg]
  <2>1. g = [n \in 0..0 |-> Step(g, n)]
    OBVIOUS
  <2> HIDE DEF g
  <2>2. \E h : h = [n \in 0..0 |-> Step(h, n)]
    BY <2>1
  <2> QED
    BY <2>2
<1>2. ASSUME NEW m \in 0..(N - 1), m \in Built
      PROVE  m + 1 \in Built
  <2>1. PICK g : g = [n \in 0..m |-> Step(g, n)]
    BY <1>2
  <2> DEFINE h == [n \in 0..(m + 1) |-> IF n <= m THEN g[n] ELSE Applied(g[m], opts[m + 1])]
  <2>2. ASSUME NEW n \in 0..(m + 1)
        PROVE  h[n] = Step(h, n)
    <3>1. CASE n = 0
      BY <2>1, <3>1
    <3>2. CASE n > 0 /\ n <= m
      <4>1. g[n] = Applied(g[n - 1], opts[n])
        BY <2>1, <3>2
      <4>2. h[n] = g[n] /\ h[n - 1] = g[n - 1]
        BY <3>2
      <4> QED
        BY <3>2, <4>1, <4>2
    <3>3. CASE n = m + 1
      <4>1. h[n] = Applied(g[m], opts[n]) /\ h[n - 1] = g[m]
        BY <3>3
      <4> QED
        BY <3>3, <4>1
    <3> QED
      BY <3>1, <3>2, <3>3
  <2>3. h = [n \in 0..(m + 1) |-> h[n]]
    OBVIOUS
  <2> HIDE DEF h
  <2>4. h = [n \in 0..(m + 1) |-> Step(h, n)]
    BY <2>2, <2>3
  <2>5. \E f : f = [n \in 0..(m + 1) |-> Step(f, n)]
    BY <2>4
  <2> QED
    BY <2>5
<1>3. N \in Built
  <2>1. 0..N \subseteq Built
    <3> HIDE DEF Built
    <3> QED
      BY <1>1, <1>2, UpTo
  <2> QED
    BY <2>1
<1>4. \E f : f = Body(f)
  BY <1>3
<1> DEFINE steps == CHOOSE f : f = Body(f)
<1>5. steps = Body(steps)
  BY <1>4
<1>6. ApplyDriverOpts(cfg, opts) = steps[N]
  BY DEF ApplyDriverOpts, Applied
<1> HIDE DEF steps
<1>7. steps[0] = cfg /\ \A n \in 1..N : steps[n] = Applied(steps[n - 1], opts[n])
  BY <1>5
<1> QED
  BY <1>6, <1>7

DriverFields == DOMAIN NoDriver

\* What an option changes of a driver of a known type.
LEMMA OverrideEffect ==
    ASSUME NEW cfg, DriverFields \subseteq DOMAIN cfg, NEW path, path # <<"driverType">>, NEW value,
           ~IsRejected(ApplyOverride(cfg, path, value))
    PROVE  LET new == ApplyOverride(cfg, path, value) IN
           /\ DriverFields \subseteq DOMAIN new /\ new.type = cfg.type
           /\ new.extra = IF path = <<"url">> THEN cfg.extra ELSE With(cfg.extra, path, value)
<1>1. CASE path = <<"url">>
  <2>1. ApplyOverride(cfg, path, value) = [cfg EXCEPT !.url = value]
    BY <1>1 DEF ApplyOverride
  <2> QED
    BY <1>1, <2>1 DEF DriverFields, NoDriver
<1>2. CASE path # <<"url">>
  <2>1. ApplyOverride(cfg, path, value) = [cfg EXCEPT !.extra = With(cfg.extra, path, value)]
    BY <1>2 DEF ApplyOverride, IsRejected
  <2> QED
    BY <1>2, <2>1 DEF DriverFields, NoDriver
<1> QED
  BY <1>1, <1>2

\* The driver's own name of a pool option.
Own(type, field) == <<Block(type), field>>
Pool(field) == <<"pool", field>>

\* What the option path=value makes of a configuration, as far as a field of the pool goes.
OptChange(cfg, new, path, value, field) ==
    LET own == Own(cfg.type, field) IN
    /\ DriverFields \subseteq DOMAIN new /\ new.type = cfg.type
    /\ DOMAIN cfg.extra \subseteq DOMAIN new.extra
    /\ path \in {Pool(field), own} =>
           /\ path \in DOMAIN new.extra
           /\ field \in BlockFields(Block(cfg.type)) =>
                 own \in DOMAIN new.extra /\ new.extra[own] = value
    /\ (path \notin {Pool(field), own} /\ own \in DOMAIN cfg.extra) =>
           new.extra[own] = cfg.extra[own]

LEMMA OptEffect ==
    ASSUME NEW cfg, DriverFields \subseteq DOMAIN cfg, DriverSupportsPool(cfg.type),
           NEW path \in Seq(STRING), path # <<"driverType">>, NEW value,
           ~IsRejected(ApplyDriverOpt(cfg, path, value)),
           NEW field
    PROVE  OptChange(cfg, ApplyDriverOpt(cfg, path, value), path, value, field)
<1> DEFINE type == cfg.type
           own == Own(type, field)
           set == ApplyOverride(cfg, path, value)
           copies == PoolSpecific(type, path)
           new == ApplyDriverOpt(cfg, path, value)
<1>1. ~IsRejected(set)
  BY DEF ApplyDriverOpt
<1>2. /\ DriverFields \subseteq DOMAIN set /\ set.type = type
      /\ set.extra = IF path = <<"url">> THEN cfg.extra ELSE With(cfg.extra, path, value)
  <2> HIDE DEF set
  <2> QED
    BY <1>1, OverrideEffect DEF set
<1>3. Block(type) \in {"postgres", "sql"} /\ Block(type) # "pool"
  BY DEF Block
<1>4. /\ own # <<"url">> /\ Pool(field) # <<"url">> /\ Pool(field) # own
      /\ own # <<"driverType">>
  BY <1>3 DEF Own, Pool
<1>5. CASE copies = {}
  <2>1. new = set
    BY <1>1, <1>2, <1>5 DEF ApplyDriverOpt
  <2>2. path = Pool(field) => field \notin BlockFields(Block(type))
    <3> SUFFICES ASSUME path = Pool(field), field \in BlockFields(Block(type)) PROVE FALSE
      OBVIOUS
    <3>1. Len(path) = 2 /\ path[1] = "pool" /\ path[2] = field
      BY DEF Pool
    <3>2. copies = {<<Block(type), field>>}
      BY <3>1 DEF PoolSpecific
    <3> QED
      BY <1>5, <3>2
  <2> HIDE DEF set, new, own
  <2>3. /\ DOMAIN cfg.extra \subseteq DOMAIN set.extra
        /\ path # <<"url">> => path \in DOMAIN set.extra /\ set.extra[path] = value
        /\ \A p \in DOMAIN cfg.extra : p # path => set.extra[p] = cfg.extra[p]
    BY <1>2 DEF With
  <2> QED
    BY <1>2, <1>4, <2>1, <2>2, <2>3 DEF new, own, OptChange
<1>6. CASE copies # {}
  <2>1. /\ Len(path) = 2 /\ path[1] = "pool" /\ path[2] \in BlockFields(Block(type))
        /\ copies = {<<Block(type), path[2]>>}
    BY <1>6 DEF PoolSpecific
  <2> DEFINE copy == <<Block(type), path[2]>>
  <2>2. path = <<"pool", path[2]>>
    BY <2>1
  <2>3. path # <<"url">> /\ path # copy /\ copy # <<"url">> /\ copy # <<"driverType">>
    BY <1>3, <2>2
  <2>4. new = ApplyOverride(set, copy, value)
    BY <1>1, <1>2, <1>6, <2>1 DEF ApplyDriverOpt
  <2> HIDE DEF set, copy
  <2>5. /\ DriverFields \subseteq DOMAIN new /\ new.type = type
        /\ new.extra = With(set.extra, copy, value)
    BY <1>2, <2>3, <2>4, OverrideEffect
  <2>6. set.extra = With(cfg.extra, path, value)
    BY <1>2, <2>3
  <2>7. path # own
    BY <1>3, <2>2 DEF Own
  <2>8. path = Pool(field) <=> copy = own
    BY <2>2 DEF Pool, Own, copy
  <2> HIDE DEF new, own
  <2>9. /\ DOMAIN new.extra = DOMAIN cfg.extra \cup {path, copy}
        /\ new.extra[copy] = value
        /\ \A p \in DOMAIN cfg.extra : p \notin {path, copy} => new.extra[p] = cfg.extra[p]
    BY <2>5, <2>6 DEF With
  <2> QED
    BY <2>5, <2>7, <2>8, <2>9 DEF new, own, OptChange
<1> QED
  BY <1>5, <1>6

\* What an option about the pool leaves in the overrides, when no later one names its field.
OptSettled(cfg, new, value, field) ==
    LET own == Own(cfg.type, field) IN
    /\ new.type = cfg.type /\ {Pool(field), own} \cap DOMAIN new.extra # {}
    /\ field \in BlockFields(Block(cfg.type)) =>
          own \in DOMAIN new.extra /\ new.extra[own] = value

\* Options applied in their order: the type stays, and the last one given for a field of the
\* pool is the one the driver's own block has.
LEMMA OptsEffect ==
    ASSUME NEW cfg, DriverFields \subseteq DOMAIN cfg, DriverSupportsPool(cfg.type),
           NEW opts, Len(opts) \in Nat, DOMAIN opts = 1..Len(opts),
           \A i \in DOMAIN opts : opts[i].path \in Seq(STRING) /\ opts[i].path # <<"driverType">>,
           ~IsRejected(ApplyDriverOpts(cfg, opts)),
           NEW field, NEW i \in DOMAIN opts,
           opts[i].path \in {Pool(field), Own(cfg.type, field)},
           \A j \in DOMAIN opts : opts[j].path \in {Pool(field), Own(cfg.type, field)} => j <= i
    PROVE  OptSettled(cfg, ApplyDriverOpts(cfg, opts), opts[i].value, field)
<1> DEFINE N == Len(opts)
           own == Own(cfg.type, field)
           names == {Pool(field), own}
<1>1. PICK f : /\ f[0] = cfg /\ f[N] = ApplyDriverOpts(cfg, opts)
               /\ \A n \in 1..N : f[n] = Applied(f[n - 1], opts[n])
  BY OptsStepwise
<1> DEFINE Settled(n) ==
               IsRejected(f[n]) \/
                  /\ DriverFields \subseteq DOMAIN f[n] /\ f[n].type = cfg.type
                  /\ n >= i => /\ names \cap DOMAIN f[n].extra # {}
                               /\ field \in BlockFields(Block(cfg.type)) =>
                                     own \in DOMAIN f[n].extra /\ f[n].extra[own] = opts[i].value
           Good == {n \in 0..N : Settled(n)}
<1>2. 0 \in Good
  BY <1>1
<1>3. ASSUME NEW n \in 0..(N - 1), n \in Good
      PROVE  n + 1 \in Good
  <2> DEFINE opt == opts[n + 1]
  <2>1. n + 1 \in 1..N /\ n + 1 \in DOMAIN opts /\ n + 1 \in 0..N
    OBVIOUS
  <2>2. f[n + 1] = Applied(f[n], opt)
    BY <1>1, <2>1
  <2>3. CASE IsRejected(f[n + 1])
    BY <2>1, <2>3
  <2>4. CASE ~IsRejected(f[n + 1])
    <3>1. ~IsRejected(f[n]) /\ f[n + 1] = ApplyDriverOpt(f[n], opt.path, opt.value)
      BY <2>2, <2>4 DEF Applied, IsRejected
    <3>2. DriverFields \subseteq DOMAIN f[n] /\ f[n].type = cfg.type
      BY <1>3, <3>1
    <3>3. opt.path \in Seq(STRING) /\ opt.path # <<"driverType">>
      BY <2>1
    <3> DEFINE new == f[n + 1]
               old == f[n]
    <3>4. /\ DriverFields \subseteq DOMAIN new /\ new.type = cfg.type
          /\ DOMAIN old.extra \subseteq DOMAIN new.extra
          /\ opt.path \in names =>
                 /\ opt.path \in DOMAIN new.extra
                 /\ field \in BlockFields(Block(cfg.type)) =>
                       own \in DOMAIN new.extra /\ new.extra[own] = opt.value
          /\ opt.path \notin names /\ own \in DOMAIN old.extra => new.extra[own] = old.extra[own]
      <4> HIDE DEF old, opt
      <4>1. /\ DriverFields \subseteq DOMAIN old /\ DriverSupportsPool(old.type)
            /\ ~IsRejected(ApplyDriverOpt(old, opt.path, opt.value))
            /\ new = ApplyDriverOpt(old, opt.path, opt.value) /\ old.type = cfg.type
        BY <2>4, <3>1, <3>2 DEF old
      <4> HIDE DEF new, names, own
      <4>2. OptChange(old, new, opt.path, opt.value, field)
        <5> DEFINE path == opt.path
                   value == opt.value
        <5>0. new = ApplyDriverOpt(old, path, value)
          BY <4>1
        <5>1. /\ DriverFields \subseteq DOMAIN old /\ DriverSupportsPool(old.type)
              /\ path \in Seq(STRING) /\ path # <<"driverType">>
              /\ ~IsRejected(ApplyDriverOpt(old, path, value))
          BY <3>3, <4>1
        <5> HIDE DEF path, value
        <5>2. OptChange(old, ApplyDriverOpt(old, path, value), path, value, field)
          BY <5>1, OptEffect
        <5> QED
          BY <5>0, <5>2 DEF path, value
      <4> QED
        BY <4>1, <4>2 DEF names, own, OptChange
    <3>5. CASE n + 1 = i
      <4>1. opt = opts[i] /\ opt.path \in names
        BY <3>5
      <4> HIDE DEF new, old, opt, names, own
      <4>2. /\ names \cap DOMAIN new.extra # {}
            /\ field \in BlockFields(Block(cfg.type)) =>
                  own \in DOMAIN new.extra /\ new.extra[own] = opts[i].value
        BY <3>4, <4>1
      <4> QED
        BY <2>1, <3>4, <4>2 DEF new
    <3>6. CASE n + 1 > i
      <4>1. opt.path \notin names
        BY <2>1, <3>6
      <4>2. /\ names \cap DOMAIN old.extra # {}
            /\ field \in BlockFields(Block(cfg.type)) =>
                  own \in DOMAIN old.extra /\ old.extra[own] = opts[i].value
        BY <1>3, <3>1, <3>6
      <4> HIDE DEF new, old, opt, names, own
      <4>3. /\ names \cap DOMAIN new.extra # {}
            /\ field \in BlockFields(Block(cfg.type)) =>
                  own \in DOMAIN new.extra /\ new.extra[own] = opts[i].value
        BY <3>4, <4>1, <4>2
      <4> QED
        BY <2>1, <3>4, <4>3 DEF new
    <3>7. CASE n + 1 < i
      BY <2>1, <3>4, <3>7
    <3> QED
      BY <3>5, <3>6, <3>7
  <2> QED
    BY <2>3, <2>4
<1>4. N \in Good
  <2>1. 0..N \subseteq Good
    <3> HIDE DEF Good, N
    <3>1. N \in Nat
      BY DEF N
    <3> QED
      BY <1>2, <1>3, <3>1, UpTo
  <2> QED
    BY <2>1
<1>5. i <= N
  OBVIOUS
<1>6. Settled(N) /\ ~IsRejected(f[N])
  BY <1>1, <1>4
<1>7. /\ f[N].type = cfg.type /\ names \cap DOMAIN f[N].extra # {}
      /\ field \in BlockFields(Block(cfg.type)) =>
            own \in DOMAIN f[N].extra /\ f[N].extra[own] = opts[i].value
  <2> HIDE DEF N, names, own
  <2> QED
    BY <1>5, <1>6
<1> QED
  BY <1>1, <1>7 DEF OptSettled

\* A block of the message holds the options under its name.
LEMMA UnderOwn ==
    ASSUME NEW extra, NEW name, NEW field, <<name, field>> \in DOMAIN extra
    PROVE  /\ <<field>> \in DOMAIN Under(extra, name)
           /\ Under(extra, name)[<<field>>] = extra[<<name, field>>]
<1>1. <<name, field>>[1] = name /\ Tail(<<name, field>>) = <<field>>
  OBVIOUS
<1>2. <<name>> \o <<field>> = <<name, field>>
  <2> DEFINE words == {name, field}
  <2>1. <<name>> \in Seq(words) /\ <<field>> \in Seq(words) /\ <<name, field>> \in Seq(words)
    OBVIOUS
  <2> HIDE DEF words
  <2>2. /\ <<name>> \o <<field>> \in Seq(words) /\ Len(<<name>> \o <<field>>) = 2
        /\ (<<name>> \o <<field>>)[1] = name /\ (<<name>> \o <<field>>)[2] = field
    <3>1. /\ <<name>> \o <<field>> \in Seq(words)
          /\ Len(<<name>> \o <<field>>) = Len(<<name>>) + Len(<<field>>)
          /\ \A i \in 1..(Len(<<name>>) + Len(<<field>>)) : (<<name>> \o <<field>>)[i] =
                 IF i <= Len(<<name>>) THEN <<name>>[i] ELSE <<field>>[i - Len(<<name>>)]
      BY <2>1, ConcatProperties
    <3> QED
      BY <3>1
  <2> DEFINE joined == <<name>> \o <<field>>
             pair == <<name, field>>
  <2>3. Len(pair) = 2 /\ pair[1] = name /\ pair[2] = field
    OBVIOUS
  <2>4. Len(joined) = Len(pair) /\ \A i \in 1..Len(joined) : joined[i] = pair[i]
    BY <2>2, <2>3
  <2>5. joined \in Seq(words) /\ pair \in Seq(words)
    BY <2>1, <2>2
  <2> HIDE DEF joined, pair
  <2>6. joined = pair
    BY <2>4, <2>5, SeqEqual
  <2> QED
    BY <2>6 DEF joined, pair
<1> DEFINE paths == {p \in DOMAIN extra : p[1] = name}
<1>3. <<name, field>> \in paths
  BY <1>1
<1>4. Under(extra, name) = [p \in {Tail(q) : q \in paths} |-> extra[<<name>> \o p]]
  BY DEF Under
<1> HIDE DEF paths
<1>5. <<field>> \in {Tail(q) : q \in paths}
  BY <1>1, <1>3
<1> QED
  BY <1>2, <1>4, <1>5

\* A message that is accepted has the value of the driver's own block, when no POOL_SIZE
\* replaces it.
LEMMA BuiltPool ==
    ASSUME NEW cfg, NEW env, NEW rootEnv, DriverSupportsPool(cfg.type),
           cfg.type = "postgres" => LegacyPoolSize(env, rootEnv) = {},
           NEW field, Own(cfg.type, field) \in DOMAIN cfg.extra,
           ~IsRejected(BuildDriverConfig(cfg, env, rootEnv))
    PROVE  BuildDriverConfig(cfg, env, rootEnv).pool[<<field>>] = cfg.extra[Own(cfg.type, field)]
<1> DEFINE type == cfg.type
           built == BuildDriverConfig(cfg, env, rootEnv)
<1>1. DriverType(type) = {type}
  BY DEF DriverType, DriverSupportsPool
<1>2. (CHOOSE t \in DriverType(type) : TRUE) = type
  BY <1>1
<1>3. built.pool = ApplyLegacyPoolSize(type, MergePool(type, cfg.extra), LegacyPoolSize(env, rootEnv))
  BY <1>1, <1>2 DEF BuildDriverConfig, IsRejected
<1>4. built.pool = MergePool(type, cfg.extra)
  BY <1>3 DEF ApplyLegacyPoolSize
<1>5. /\ <<field>> \in DOMAIN Under(cfg.extra, Block(type))
      /\ Under(cfg.extra, Block(type))[<<field>>] = cfg.extra[Own(type, field)]
  BY UnderOwn DEF Own
<1> QED
  BY <1>4, <1>5 DEF MergePool

\* A field that the driver's message does not know is not accepted.
LEMMA KnownField ==
    ASSUME NEW cfg, NEW env, NEW rootEnv, DriverSupportsPool(cfg.type), NEW field,
           {Pool(field), Own(cfg.type, field)} \cap DOMAIN cfg.extra # {},
           ~IsRejected(BuildDriverConfig(cfg, env, rootEnv))
    PROVE  field \in BlockFields(Block(cfg.type))
<1> DEFINE type == cfg.type
<1>1. DriverType(type) = {type}
  BY DEF DriverType, DriverSupportsPool
<1>2. (CHOOSE t \in DriverType(type) : TRUE) = type
  BY <1>1
<1>3. ExtrasAccepted(type, cfg.extra)
  BY <1>1, <1>2 DEF BuildDriverConfig, IsRejected
<1>4. \A b \in KeptBlocks(type) : ValidBlock(Under(cfg.extra, b), BlockFields(Block(type)))
  BY <1>3 DEF ExtrasAccepted
<1>5. "pool" \in KeptBlocks(type) /\ Block(type) \in KeptBlocks(type)
  BY DEF KeptBlocks, Block
<1>6. PICK b \in {"pool", Block(type)} : <<b, field>> \in DOMAIN cfg.extra
  BY DEF Pool, Own
<1>7. <<field>> \in DOMAIN Under(cfg.extra, b)
  BY <1>6, UnderOwn
<1>8. <<field>>[1] \in BlockFields(Block(type))
  BY <1>4, <1>5, <1>6, <1>7 DEF ValidBlock
<1> QED
  BY <1>8

\* The pool option given last reaches the message the driver is opened with.
LEMMA AskedPool ==
    ASSUME IInv, phase = "running", NEW type \in SettledType,
           NEW field \in {"maxConns", "maxOpenConns"}, PoolOpts(field) # {},
           DriverSupportsPool(type),
           type = "postgres" => LegacyPoolSize(environ, plan.rootEnv) = {}
    PROVE  plan.opened.pool[<<field>>] = parsed.opts[LastOf(PoolOpts(field))].value
<1> DEFINE opts == parsed.opts
           base == FileOrPreset(file.drivers, parsed.presets)
           last == LastOf(PoolOpts(field))
<1>1. /\ \A i \in DOMAIN opts : opts[i].path # <<"driverType">>
      /\ type \in {c.type : c \in base}
  BY DEF SettledType
<1>2. PICK c \in base : c.type = type
  BY <1>1
<1>3. Configured /\ Shapes
  BY DEF IInv
<1>4. DriverFields \subseteq DOMAIN c /\ base = {c}
  <2>1. CASE parsed.presets = {}
    BY <1>2, <1>3, <2>1 DEF FileOrPreset, Configured, DriverFields
  <2>2. CASE parsed.presets # {}
    <3>1. PICK p \in parsed.presets : p \in study.args /\ p.flag = "-d" /\ parsed.presets = {p}
      BY <1>3, <2>2 DEF Configured
    <3>2. base = {IF p.value = "json" THEN p.json ELSE NewDriverFromPreset(p.value)}
      BY <3>1 DEF FileOrPreset
    <3>3. p.value = "json" => DriverFields \subseteq DOMAIN p.json
      BY <1>3, <3>1, StudiesAssumption DEF Shapes, DriverFields
    <3>4. DriverFields \subseteq DOMAIN NewDriverFromPreset(p.value)
      BY DEF NewDriverFromPreset, NoDriver, DriverFields
    <3> QED
      BY <1>2, <3>2, <3>3, <3>4
  <2> QED
    BY <2>1, <2>2
<1>5. DriverConfigs = {ApplyDriverOpts(c, opts)}
  BY <1>4 DEF DriverConfigs
<1> DEFINE new == ApplyDriverOpts(c, opts)
<1>6. /\ ~IsRejected(new) /\ ~IsRejected(plan.opened)
      /\ plan.opened = BuildDriverConfig(new, environ, plan.rootEnv)
  BY <1>3, <1>5 DEF Configured, Later
<1>7. /\ Len(opts) \in Nat /\ DOMAIN opts = 1..Len(opts)
      /\ \A i \in DOMAIN opts : opts[i].path \in Seq(STRING)
  <2> DEFINE Opts == {a \in study.args : a.flag = "-D"}
  <2>1. opts \in Seq(Opts)
    BY <1>3 DEF Configured
  <2>2. \A a \in Opts : a.path \in Seq(STRING)
    BY <1>3, StudiesAssumption DEF Shapes
  <2> HIDE DEF Opts, opts
  <2> QED
    BY <2>1, <2>2
<1>8. PoolOpts(field) = {i \in DOMAIN opts : opts[i].path \in {Pool(field), Own(type, field)}}
  <2>1. SettledType = {type}
    BY <1>1, <1>2, <1>4 DEF SettledType
  <2> QED
    BY <2>1 DEF PoolOpts, Pool, Own
<1>9. last \in PoolOpts(field) /\ \A j \in PoolOpts(field) : j <= last
  BY <1>7, <1>8, LastIsLast
<1>10. OptSettled(c, new, opts[last].value, field)
  <2>1. DriverFields \subseteq DOMAIN c /\ DriverSupportsPool(c.type)
    BY <1>2, <1>4
  <2>2. \A i \in DOMAIN opts : opts[i].path \in Seq(STRING) /\ opts[i].path # <<"driverType">>
    BY <1>1, <1>7
  <2>3. Len(opts) \in Nat /\ DOMAIN opts = 1..Len(opts)
    BY <1>7
  <2>4. /\ last \in DOMAIN opts /\ opts[last].path \in {Pool(field), Own(c.type, field)}
        /\ \A j \in DOMAIN opts :
              opts[j].path \in {Pool(field), Own(c.type, field)} => j <= last
    <3> HIDE DEF opts, last
    <3> QED
      BY <1>2, <1>8, <1>9
  <2>5. ~IsRejected(ApplyDriverOpts(c, opts))
    BY <1>6
  <2> HIDE DEF opts, last
  <2>6. OptSettled(c, ApplyDriverOpts(c, opts), opts[last].value, field)
    BY <2>1, <2>2, <2>3, <2>4, <2>5, OptsEffect
  <2> QED
    BY <2>6
<1>11. /\ new.type = type
       /\ field \in BlockFields(Block(type)) =>
             /\ Own(type, field) \in DOMAIN new.extra
             /\ new.extra[Own(type, field)] = opts[last].value
       /\ {Pool(field), Own(type, field)} \cap DOMAIN new.extra # {}
  <2> HIDE DEF new, opts, last
  <2> QED
    BY <1>2, <1>10 DEF OptSettled
<1> HIDE DEF new
<1>12. field \in BlockFields(Block(type))
  BY <1>6, <1>11, KnownField
<1>13. plan.opened.pool[<<field>>] = new.extra[Own(type, field)]
  BY <1>6, <1>11, <1>12, BuiltPool
<1> QED
  BY <1>11, <1>12, <1>13 DEF opts, last

\* A pool option of the command line beats the file, and the last one given wins, for every
\* list of options.
THEOREM PoolIsAsked == Spec => []PoolAsAsked
<1>1. IInv => PoolAsAsked
  BY AskedPool DEF PoolAsAsked
<1> QED
  BY <1>1, Invariance, PTL

-----------------------------------------------------------------------------
(* The opening of the driver.                                              *)

Waiting == {"wait", "check", "ping", "pause"}

\* What a constructor holds at each stage, which only the drivers that have the stage reach.
\* A failure ends it, but for the first attempt of YDB, which is followed by an open with
\* nothing held.
HeldAt ==
    /\ stage \in {"dispatch", "parse", "open"} => held = {}
    /\ stage = "reopen" => driver \in {"postgres", "picodata"}
    /\ stage = "connector" => driver = "ydb" /\ held = {"native"}
    /\ stage = "configure" => driver \in {"mysql", "ydb"}
    /\ stage \in Waiting \cup {"configure"} => held = Complete
    /\ outcome # "none" => stage = "done"
    /\ outcome = "open" => held = Complete
    /\ outcome = "failed" /\ driver \in {"mysql", "ydb"} => held = {}

\* What each driver holds once it is open.
LEMMA Completed ==
    /\ driver \in {"postgres", "picodata", "mysql"} => Complete = {"pool"}
    /\ driver = "ydb" => Complete = {"native", "pool"}
    /\ driver \in {"csv", "noop"} => Complete = {}
BY DEF Complete

\* The drivers do not change while one opens.
LEMMA SameDriver == [OpenNext]_openVars => driver' = driver
BY DEF OpenNext, Constructor, openVars, Dispatch, ParseConfig, OpenPool, Reopen, OpenMysql,
       Connector, ApplySqlConfig, BeginWait, Check, Wake, GiveUp, NativeInterrupted,
       PingInterrupted, OpenNative, NativeFails, Answered, Refused, Tick, Cancel, Returned

\* A failure leaves what the driver does not close, or the fallback of YDB with nothing.
LEMMA FailureCloses ==
    ASSUME Fail, outcome = "none", driver' = driver
    PROVE  /\ stage' \in {"open", "done"} /\ outcome' \in {"none", "failed"}
           /\ stage' = "open" => held' = {} /\ outcome' = "none"
           /\ driver \in {"mysql", "ydb"} => held' = {}
BY DEF Fail, Kept, EndWith

LEMMA FailureKeeps ==
    ASSUME Fail, outcome = "none", driver' = driver
    PROVE  HeldAt'
BY FailureCloses DEF HeldAt, Waiting, Fail, EndWith

LEMMA HeldStep == HeldAt /\ [OpenNext]_openVars => HeldAt'
<1> SUFFICES ASSUME HeldAt, [OpenNext]_openVars
             PROVE  HeldAt'
  OBVIOUS
<1>1. driver' = driver /\ Complete' = Complete
  BY SameDriver DEF Complete
<1>2. CASE UNCHANGED openVars
  BY <1>1, <1>2 DEF HeldAt, openVars
<1>3. CASE Dispatch
  BY <1>1, <1>3 DEF HeldAt, Waiting, Dispatch, EndWith
<1>4. CASE ParseConfig
  BY <1>1, <1>4, Completed DEF HeldAt, Waiting, ParseConfig, ParsePgx, ParseMysql, ParseYdb,
     ParseCsv, NewNoop, Opens, EndWith
<1>5. CASE OpenPool
  BY <1>1, <1>5 DEF HeldAt, Waiting, OpenPool, EndWith
<1>6. CASE Reopen
  BY <1>1, <1>6, Completed DEF HeldAt, Waiting, Reopen, EndWith
<1>7. CASE OpenMysql
  BY <1>1, <1>7, Completed DEF HeldAt, Waiting, OpenMysql
<1>8. CASE OpenNative
  BY <1>1, <1>8 DEF HeldAt, Waiting, OpenNative
<1>9. CASE NativeFails
  BY <1>1, <1>9, FailureKeeps DEF HeldAt, NativeFails
<1>10. CASE Connector
  <2>1. CASE Fail
    BY <1>1, <1>10, <2>1, FailureKeeps DEF HeldAt, Connector
  <2>2. CASE held' = held \cup {"pool"} /\ stage' = "configure" /\ UNCHANGED outcome
    BY <1>1, <1>10, <2>2, Completed DEF HeldAt, Waiting, Connector
  <2> QED
    BY <1>10, <2>1, <2>2 DEF Connector
<1>11. CASE ApplySqlConfig
  <2>1. CASE Fail
    BY <1>1, <1>11, <2>1, FailureKeeps DEF HeldAt, ApplySqlConfig
  <2>2. CASE stage' = "wait" /\ UNCHANGED <<held, outcome>>
    BY <1>1, <1>11, <2>2 DEF HeldAt, Waiting, ApplySqlConfig
  <2> QED
    BY <1>11, <2>1, <2>2 DEF ApplySqlConfig
<1>12. CASE BeginWait
  BY <1>1, <1>12 DEF HeldAt, Waiting, BeginWait
<1>13. CASE Check
  <2>1. CASE Fail
    BY <1>1, <1>13, <2>1, FailureKeeps DEF HeldAt, Check
  <2>2. CASE stage' = "ping" /\ UNCHANGED <<held, outcome>>
    BY <1>1, <1>13, <2>2 DEF HeldAt, Waiting, Check
  <2> QED
    BY <1>13, <2>1, <2>2 DEF Check
<1>14. CASE Answered
  BY <1>1, <1>14 DEF HeldAt, Waiting, Answered, EndWith
<1>15. CASE Refused
  BY <1>1, <1>15 DEF HeldAt, Waiting, Refused
<1>16. CASE Wake
  BY <1>1, <1>16 DEF HeldAt, Waiting, Wake
<1>17. CASE GiveUp
  BY <1>1, <1>17, FailureKeeps DEF HeldAt, GiveUp
<1>18. CASE Tick \/ Cancel
  BY <1>1, <1>18 DEF HeldAt, Tick, Cancel
<1>19. CASE Returned
  BY <1>1, <1>19 DEF HeldAt, Returned, openVars
<1> QED
  BY <1>2, <1>3, <1>4, <1>5, <1>6, <1>7, <1>8, <1>9, <1>10, <1>11, <1>12, <1>13, <1>14, <1>15,
     <1>16, <1>17, <1>18, <1>19
     DEF OpenNext, Constructor, NativeInterrupted, PingInterrupted

\* A driver that opened holds one pool and its native handle; a driver over database/sql that
\* failed holds nothing, and YDB's second attempt begins when all of the first is closed.
THEOREM NothingLeaks == OpenSpec => []NothingLeftOpen
<1>1. OpenInit => HeldAt
  BY DEF OpenInit, HeldAt, Waiting
<1>2. HeldAt => NothingLeftOpen
  BY DEF HeldAt, NothingLeftOpen
<1> QED
  BY <1>1, <1>2, HeldStep, PTL DEF OpenSpec

=============================================================================
