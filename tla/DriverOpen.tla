----------------------------- MODULE DriverOpen -----------------------------
(***************************************************************************)
(* driver.Dispatch: a driver parses its configuration, opens its pool and  *)
(* waits for the database (NewDriver of each driver, pool.ParseConfig,     *)
(* sqldriver.ApplySQLConfig and WaitForDB).  The YDB driver tries a second *)
(* time with the credentials of the cloud's metadata service.              *)
(*                                                                         *)
(* The database answers a ping, refuses it, or stays silent until the      *)
(* context of the ping ends; time passes in seconds.                       *)
(***************************************************************************)
EXTENDS Integers, FiniteSets

CONSTANTS
    Drivers,        \* the registered drivers to consider, and "unspecified"
    MaxOpening      \* seconds an Open of YDB takes without an end of its own

ASSUME DriversAssumption ==
    /\ MaxOpening \in Nat
    /\ Drivers \subseteq {"postgres", "mysql", "picodata", "ydb", "noop", "csv", "unspecified"}

VARIABLES
    driver,      \* the driver to open
    attempt,     \* "first", or the "fallback" of YDB
    stage,       \* what the constructor does
    held,        \* what it has opened and not closed: "native", "pool"
    now,         \* seconds since this attempt began
    started,     \* when WaitForDB began
    interval,    \* its pause after the next failed ping
    wake,        \* when its pause ends
    canceled,    \* the context of the run is canceled
    outcome      \* "none", "open" or "failed"

time == <<now, started, interval, wake>>
openVars == <<driver, attempt, stage, held, time, canceled, outcome>>

PrimaryConnectTimeout == 3
DbConnectionTimeout == 5

\* A bound no attempt reaches: WaitForDB ends before.
MaxTime == MaxOpening + DbConnectionTimeout + 1

\* The timeout of WaitForDB, and when the context of the attempt ends.
WaitTimeout == IF driver = "ydb" /\ attempt = "first" THEN PrimaryConnectTimeout
               ELSE DbConnectionTimeout
AttemptEnds == IF driver = "ydb" /\ attempt = "first" THEN {PrimaryConnectTimeout} ELSE {}

\* Contexts end when their time has come or the run is canceled.
AttemptOver == canceled \/ \E t \in AttemptEnds : now >= t

\* Mutant: pings run in the context of the attempt.
NoPingTimeout == AttemptOver

WaitOver == AttemptOver \/ now >= started + WaitTimeout

OpenInit ==
    /\ driver \in Drivers /\ attempt = "first" /\ stage = "dispatch" /\ held = {}
    /\ now = 0 /\ started = 0 /\ interval = 1 /\ wake = 0
    /\ canceled = FALSE /\ outcome = "none"

EndWith(how) == stage' = "done" /\ outcome' = how

\* Mutant: the driver's own handle is forgotten.
ForgetNative == IF driver \in {"mysql", "ydb"} THEN held \ {"pool"} ELSE held

\* What a constructor closes when it fails: database/sql's drivers close all they opened, the
\* pools of pgx stay open.
Kept == IF driver \in {"mysql", "ydb"} THEN {} ELSE held

\* A failure of YDB's first attempt starts the second.
Fail ==
    /\ held' = Kept
    /\ IF driver = "ydb" /\ attempt = "first"
       THEN /\ attempt' = "fallback" /\ stage' = "open"
            /\ now' = 0 /\ started' = 0 /\ interval' = 1 /\ wake' = 0
            /\ UNCHANGED outcome
       ELSE EndWith("failed") /\ UNCHANGED <<attempt, time>>

-----------------------------------------------------------------------------
(* Opening. *)

Dispatch ==
    /\ stage = "dispatch"
    /\ IF driver = "unspecified" THEN EndWith("failed")
       ELSE stage' = "parse" /\ UNCHANGED outcome
    /\ UNCHANGED <<driver, attempt, held, time, canceled>>

Opens == stage' = "open" /\ UNCHANGED outcome

\* The URL, the durations and the execution mode parse, or one of them does not.
ParsePgx == driver \in {"postgres", "picodata"} /\ (Opens \/ EndWith("failed"))

ParseMysql == driver = "mysql" /\ (Opens \/ EndWith("failed"))

\* The options of YDB are not checked before it opens.
ParseYdb == driver = "ydb" /\ Opens

\* CSV opens nothing: its directory is made by the first insert.
ParseCsv == driver = "csv" /\ (EndWith("open") \/ EndWith("failed"))

NewNoop == driver = "noop" /\ EndWith("open")

ParseConfig ==
    /\ stage = "parse"
    /\ ParsePgx \/ ParseMysql \/ ParseYdb \/ ParseCsv \/ NewNoop
    /\ UNCHANGED <<driver, attempt, held, time, canceled>>

\* pgx and Picodata open a pool, whose configuration is then given the run's dialer; pools
\* connect later.
OpenPool ==
    /\ stage = "open" /\ driver \in {"postgres", "picodata"}
    /\ \/ held' = {"pool"} /\ stage' = "reopen" /\ UNCHANGED outcome
       \/ UNCHANGED held /\ EndWith("failed")
    /\ UNCHANGED <<driver, attempt, time, canceled>>

\* The first pool is closed before the second is opened.
Reopen ==
    /\ stage = "reopen"
    /\ \/ held' = {"pool"} /\ stage' = "wait" /\ UNCHANGED outcome
       \/ held' = {} /\ EndWith("failed")
    /\ UNCHANGED <<driver, attempt, time, canceled>>

OpenMysql ==
    /\ stage = "open" /\ driver = "mysql"
    /\ held' = {"pool"} /\ stage' = "configure"
    /\ UNCHANGED <<driver, attempt, time, canceled, outcome>>

\* ydb.Open talks to the cluster: it answers, fails, or ends with its context.
OpenNative ==
    /\ stage = "open" /\ driver = "ydb"
    /\ held' = {"native"} /\ stage' = "connector"
    /\ UNCHANGED <<driver, attempt, time, canceled, outcome>>

NativeFails ==
    /\ stage = "open" /\ driver = "ydb"
    /\ Fail
    /\ UNCHANGED <<driver, canceled>>

NativeInterrupted == AttemptOver /\ NativeFails

\* The connector over the native handle, and the pool over the connector.
Connector ==
    /\ stage = "connector"
    /\ \/ held' = held \cup {"pool"} /\ stage' = "configure" /\ UNCHANGED <<attempt, time, outcome>>
       \/ Fail
    /\ UNCHANGED <<driver, canceled>>

\* ApplySQLConfig rejects a malformed duration.
ApplySqlConfig ==
    /\ stage = "configure"
    /\ \/ stage' = "wait" /\ UNCHANGED <<attempt, held, time, outcome>>
       \/ Fail
    /\ UNCHANGED <<driver, canceled>>

-----------------------------------------------------------------------------
(* WaitForDB. *)

BeginWait ==
    /\ stage = "wait"
    /\ started' = now /\ interval' = 1 /\ stage' = "check"
    /\ UNCHANGED <<driver, attempt, held, now, wake, canceled, outcome>>

\* The loop gives up when the timeout has passed, else pings.
Check ==
    /\ stage = "check"
    /\ IF now - started >= WaitTimeout THEN Fail
       ELSE stage' = "ping" /\ UNCHANGED <<attempt, held, time, outcome>>
    /\ UNCHANGED <<driver, canceled>>

Answered ==
    /\ stage = "ping" /\ EndWith("open")
    /\ UNCHANGED <<driver, attempt, held, time, canceled>>

PauseFor(n) == wake' = now + n /\ interval' = n + 1

Refused ==
    /\ stage = "ping"
    /\ stage' = "pause" /\ PauseFor(interval)
    /\ UNCHANGED <<driver, attempt, held, now, started, canceled, outcome>>

\* A silent ping fails when its context ends.
PingInterrupted == WaitOver /\ Refused

Wake ==
    /\ stage = "pause" /\ now >= wake
    /\ stage' = "check"
    /\ UNCHANGED <<driver, attempt, held, time, canceled, outcome>>

GiveUp ==
    /\ stage = "pause" /\ WaitOver
    /\ Fail
    /\ UNCHANGED <<driver, canceled>>

-----------------------------------------------------------------------------
(* Environment. *)

\* A second passes while the constructor waits; what is due has happened before.
Tick ==
    /\ \/ stage = "open" /\ driver = "ydb" /\ ~AttemptOver /\ now < MaxOpening
       \/ stage = "ping" /\ ~WaitOver /\ now < MaxTime
       \/ stage = "pause" /\ now < wake /\ ~WaitOver
    /\ now' = now + 1
    /\ UNCHANGED <<driver, attempt, stage, held, started, interval, wake, canceled, outcome>>

Cancel ==
    /\ ~canceled /\ outcome = "none"
    /\ canceled' = TRUE
    /\ UNCHANGED <<driver, attempt, stage, held, time, outcome>>

Returned == stage = "done" /\ UNCHANGED openVars

Constructor ==
    \/ Dispatch \/ ParseConfig \/ OpenPool \/ Reopen \/ OpenMysql \/ Connector \/ ApplySqlConfig
    \/ BeginWait \/ Check \/ Wake \/ GiveUp \/ NativeInterrupted \/ PingInterrupted

OpenNext ==
    \/ Constructor \/ OpenNative \/ NativeFails \/ Answered \/ Refused \/ Tick \/ Cancel
    \/ Returned

\* The constructor runs and time passes; nothing is assumed of the database.
OpenSpec == OpenInit /\ [][OpenNext]_openVars /\ WF_openVars(Constructor) /\ WF_openVars(Tick)

-----------------------------------------------------------------------------
(* Properties. *)

Complete ==
    CASE driver \in {"postgres", "picodata", "mysql"} -> {"pool"}
      [] driver = "ydb" -> {"native", "pool"}
      [] OTHER -> {}

\* A driver that opened holds one pool and its native handle, never the first pool beside the
\* second; the drivers over database/sql that failed hold nothing; and the fallback of YDB
\* begins when everything of the first attempt is closed.
NothingLeftOpen ==
    /\ outcome = "open" => held = Complete
    /\ outcome = "failed" /\ driver \in {"mysql", "ydb"} => held = {}
    /\ attempt = "fallback" /\ stage = "open" => held = {}

\* Opening ends: whatever the database does, within the timeouts; only YDB's fallback waits for
\* the cluster or for the run to be canceled.
OpeningEnds == (driver # "ydb" \/ canceled) ~> (outcome # "none")
=============================================================================
