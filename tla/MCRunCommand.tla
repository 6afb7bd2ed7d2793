---------------------------- MODULE MCRunCommand ----------------------------
(* Four studies of stroppy run, each with its own arguments, files and environments. *)
EXTENDS RunCommand, TLC

Word(shape, text) == [flag |-> "word", shape |-> shape, text |-> text]
Help == [flag |-> "--help"]
LacksValue == [flag |-> "lacks value"]
FileAt(path) == [flag |-> "-f", value |-> path]
StepsOf(names) == [flag |-> "--steps", value |-> names]
NoStepsOf(names) == [flag |-> "--no-steps", value |-> names]
Typed(name, value) == [flag |-> "--", name |-> name, value |-> value]
EnvOf(name, value) == [flag |-> "-e", name |-> name, value |-> value]
Preset(name) == [flag |-> "-d", value |-> name, json |-> NoDriver]
Json(cfg) == [flag |-> "-d", value |-> "json", json |-> cfg]
Opt(path, value) == [flag |-> "-D", path |-> path, value |-> value]

Inline == Word("inline", "select 1")
Path == Word("path", "a.sql")
Disk(config) == "stroppy-config.json" :> config
Empty == [path \in {} |-> NoFile]

(* The SQL to run. *)
SqlFiles ==
    {[NoFile EXCEPT !.script = s, !.sql = q, !.env = e] :
        s \in {<<>>, <<Word("path", "f.sql")>>, <<Word("inline", "select 2")>>,
               <<Word("name", "execute_sql")>>},
        q \in {"", "g.sql"}, e \in {Nothing, "SQL_FILE" :> "h.sql"}}
        \cup {[NoFile EXCEPT !.params = "sqlFile" :> "p.sql"]}
SqlStudy ==
    [args |-> {Inline, Path, Word("name", "execute_sql"), Word("name", "tpcc"),
               Word("name", "simple"), Word("path", "b.sql"), Typed("sql-file", "c.sql"),
               Typed("sql-file", ""), EnvOf("sql_file", "d.sql"),
               EnvOf("STROPPY_SQL_BODY", "select 3"), EnvOf("", "")},
     max |-> 3, dash |-> FALSE,
     disks |-> {Empty} \cup {Disk(f) : f \in SqlFiles},
     environs |-> {Nothing, "SQL_FILE" :> "e.sql", "STROPPY_SQL_BODY" :> "select 4",
                   "SQL_FILE" :> "" @@ "STROPPY_SQL_BODY" :> "select 5"}]

(* The scenario. *)
Simple == [NoFile EXCEPT !.script = <<Word("name", "simple")>>]
ScenarioStudy ==
    [args |-> {Typed("executor", "constant-vus"), Typed("executor", "shared-iterations"),
               Typed("executor", "other"), Typed("vus", "0"), Typed("iterations", "2"),
               Typed("duration", "10s"), Typed("duration", "junk"),
               Typed("query-timeout", "-1s"), Typed("unknown", "1"),
               EnvOf("DURATION", "10s"), EnvOf("iter", "0"), EnvOf("ITERATIONS", "2")},
     max |-> 3, dash |-> FALSE,
     disks |-> {Disk(Simple),
                Disk([Simple EXCEPT !.run = "duration" :> "10s" @@ "executor" :> "constant-vus"]),
                Disk([Simple EXCEPT !.run = "duration" :> "null"]),
                Disk([Simple EXCEPT !.run = "other" :> "1"]),
                Disk([Simple EXCEPT !.env = "ITER" :> "2"]),
                Disk([Simple EXCEPT !.env = "ITER" :> "2" @@ "iter" :> "1"]),
                Disk([Simple EXCEPT !.env = "DURATION" :> "10s"])},
     environs |-> {Nothing, "DURATION" :> "10s", "DURATION" :> "-1s", "ITER" :> "2",
                   "DURATION" :> "10s" @@ "ITER" :> "junk"}]

(* The driver. *)
Options(block, field, n) == [path \in {<<block, field>>} |-> n]
DriverFile(type, extra) == Disk([Simple EXCEPT !.drivers = {[type |-> type, url |-> "f", extra |-> extra]}])
DriverStudy ==
    [args |-> {Preset("pg"), Preset("mysql"), Preset("noop"), Preset("other"),
               Json([type |-> "pico", url |-> "j", extra |-> Options("pool", "maxOpenConns", "2")]),
               Opt(<<"driverType">>, "postgres"), Opt(<<"url">>, "u"),
               Opt(<<"pool", "maxConns">>, "1"), Opt(<<"postgres", "maxConns">>, "2"),
               Opt(<<"pool", "maxOpenConns">>, "1"), Opt(<<"pool">>, "5"),
               Opt(<<"url", "host">>, "h"), Opt(<<"errorMode">>, "loud"),
               EnvOf("POOL_SIZE", "2")},
     max |-> 3, dash |-> FALSE,
     disks |-> {Disk(Simple), DriverFile("postgres", Options("pool", "maxConns", "3")),
                DriverFile("postgres", Options("postgres", "maxConns", "4")),
                DriverFile("mysql", Options("sql", "maxOpenConns", "5")),
                DriverFile("", Options("postgres", "maxConns", "4"))},
     environs |-> {Nothing, "POOL_SIZE" :> "1", "POOL_SIZE" :> "0"}]

(* The shape of the command, and its steps. *)
ShapeStudy ==
    [args |-> {Word("name", "simple"), Word("name", "other"), Word("pair", "K=V"),
               Word("dashed", "-x"), Help, LacksValue, FileAt("stroppy-config.json"),
               FileAt("missing"), StepsOf({"load"}), StepsOf({}), NoStepsOf({"load"}),
               NoStepsOf({"check"})},
     max |-> 3, dash |-> TRUE,
     disks |-> {Empty, Disk(Simple), Disk([NoFile EXCEPT !.sound = FALSE]),
                Disk([Simple EXCEPT !.steps = <<{"check"}, {}>>]),
                Disk([Simple EXCEPT !.noSteps = <<{"check"}>>])},
     environs |-> {Nothing, "STROPPY_STEPS" :> {"other"}, "STROPPY_NO_STEPS" :> {"load"}}]

MCStudies == {SqlStudy, ScenarioStudy, DriverStudy, ShapeStudy}
=============================================================================
