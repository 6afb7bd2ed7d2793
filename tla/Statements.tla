----------------------------- MODULE Statements -----------------------------
(***************************************************************************)
(* The life of one statement, from Bench.Exec, QueryValue, QueryRow or     *)
(* QueryRows down to the pooled connection and back: the shared cache of   *)
(* parsed templates, the binding of arguments, the per-statement deadline, *)
(* the server-side hint of MySQL, the cursor, and the errors that reach    *)
(* the retry policy.  Several VUs share the cache and the pool.            *)
(*                                                                         *)
(* database/sql, pgx and the servers are external: a server answers with   *)
(* rows and possibly a fault, stalls for ever, or is interrupted when the  *)
(* context of the statement ends.                                          *)
(***************************************************************************)
EXTENDS Integers, FiniteSets

CONSTANTS
    VUs,             \* the virtual users that issue statements
    PoolSize,        \* connections of the pool
    Templates,       \* SQL texts
    NoText,          \* stands for the text of a statement that is not being parsed
    CacheMax,        \* sqlCacheMaxSize
    Settings,        \* the configurations to consider: a driver, and a query timeout of
                     \* "none", "tiny" (no hint can express it) or "usual"
    MaxRows,         \* rows of a result
    MaxStatements    \* statements issued in all

ASSUME StatementsAssumption ==
    /\ IsFiniteSet(VUs) /\ PoolSize \in Nat \ {0} /\ CacheMax \in Nat
    /\ NoText \notin Templates /\ MaxRows \in Nat /\ MaxStatements \in Nat
    /\ Settings \subseteq {"postgres", "mysql", "ydb", "picodata"} \X {"none", "tiny", "usual"}

VARIABLES
    driver, timeout, \* the configuration of the run
    canceled,        \* the context of the run is canceled
    cache,           \* templates whose parse is cached
    cacheSize,       \* sqlCacheSize
    free,            \* idle connections of the pool
    issued,          \* statements issued so far
    pc,              \* where each VU is
    inTx,            \* whether the VU has begun a transaction or a bare connection
    holds,           \* whether the VU holds a connection
    stmt,            \* the statement of each VU
    outcome          \* what its last call reported: "none", "ok" or a kind of error

config == <<driver, timeout>>
caching == <<cache, cacheSize>>
pool == <<free, holds>>
vars == <<config, canceled, caching, pool, issued, pc, inTx, stmt, outcome>>

Calls == {"exec", "first", "rows"}

\* A cursor: rows the server still has, rows read, the fault that ends the stream, the
\* error the library reports once the stream has ended, and the error statementRows keeps.
NoCursor == [left |-> 0, seen |-> 0, fault |-> {}, ended |-> TRUE, raw |-> {}, kept |-> {}]
NewCursor(n, fault) == [NoCursor EXCEPT !.left = n, !.fault = fault, !.ended = FALSE]

\* A statement, each part chosen by the environment when the code first looks at it: its
\* text; its shape, "select" when MySQL's dialect can hint it; the kind of call that reads it;
\* its context, "parent" without a deadline, else "armed", "expired" or "released"; the time
\* since Bind, 1 for the timeout and 2 for the grace after it, and its value when the server
\* got the statement; whether the server will never answer; its rows; and the causes of the
\* error its reader has met.
NoStmt == [template |-> NoText, shape |-> "other", call |-> "exec", ctx |-> "parent",
           elapsed |-> 0, sentAt |-> 0, hung |-> FALSE, cursor |-> NoCursor, errs |-> {}]

UsesPgx == driver \in {"postgres", "picodata"}

-----------------------------------------------------------------------------
(* Errors are sets of causes; {} is no error. *)

JoinErrors(a, b) == a \cup b

\* What the context of a statement reports: a deadline that has passed stays the reason
\* after cancel(), and cancel() of a context without a deadline does nothing.
CtxErr(s) ==
    CASE s.ctx = "expired" -> {"deadline"}
      [] s.ctx # "expired" /\ (canceled \/ s.ctx = "released") -> {"canceled"}
      [] OTHER -> {}

\* A server error seen after the context ended names both.
StatementContextError(s, causes) == IF causes = {} THEN {} ELSE causes \cup CtxErr(s)

\* Only the postgres driver wraps its queries in statementQuery.
QueryError(s, causes) ==
    IF driver = "postgres" THEN StatementContextError(s, causes) ELSE causes

\* Mutant: the error of a cursor is computed anew each time it is asked for.
NeverKept(s) == StatementContextError(s, s.cursor.raw)

\* statementRows computes its error once and keeps it.
KeptOnce(s) ==
    IF s.cursor.kept # {} THEN s.cursor.kept ELSE StatementContextError(s, s.cursor.raw)
RowsErr(s) == IF driver = "postgres" THEN KeptOnce(s) ELSE s.cursor.raw

\* What every driver says of an error it does not know.
DefaultErrorFacts(causes) ==
    CASE "canceled" \in causes -> "canceled"
      [] "canceled" \notin causes /\ "deadline" \in causes -> "timeout"
      [] OTHER -> "unknown"

\* ClassifyError of each driver, in the order of its tests; "conflict" stands for the codes
\* the driver recognises, "aborted" for the server's own statement timeout.
MysqlFacts(causes) ==
    CASE "conflict" \in causes -> "conflict"
      [] "conflict" \notin causes /\ "aborted" \in causes -> "timeout"
      [] OTHER -> DefaultErrorFacts(causes)

PostgresFacts(causes) ==
    IF "canceled" \in causes THEN "canceled" ELSE MysqlFacts(causes)

YdbFacts(causes) ==
    IF DefaultErrorFacts(causes) = "unknown" /\ "conflict" \in causes
    THEN "conflict" ELSE DefaultErrorFacts(causes)

ClassifyError(causes) ==
    CASE driver = "postgres" -> PostgresFacts(causes)
      [] driver = "mysql"    -> MysqlFacts(causes)
      [] driver = "ydb"      -> YdbFacts(causes)
      [] driver = "picodata" -> DefaultErrorFacts(causes)

Report(causes) == IF causes = {} THEN "ok" ELSE ClassifyError(causes)

-----------------------------------------------------------------------------
(* Deadlines. *)

\* A text that begins with SELECT, before or after a hint, and does not merely sleep.
Hintable(s) == s.shape = "select"

\* A timeout of at least a millisecond that fits 32 bits of them.
Expressible == timeout = "usual"

\* MySQL's dialect puts MAX_EXECUTION_TIME into such a text.
StatementTimeoutHint(s) == driver = "mysql" /\ Expressible /\ Hintable(s)

\* Mutant: the deadline of a hinted statement has no grace.
Unpadded(s) == 1

\* The client's deadline: the timeout, and the grace of a second when the hint is active.
StatementDeadline(s) == IF StatementTimeoutHint(s) THEN 2 ELSE 1

\* Mutant: the timeout is never armed.
ParentsContext == "parent"

\* Without a timeout the statement runs in the parent's context.
StatementTimeout == IF timeout = "none" THEN "parent" ELSE "armed"

\* cancel() of the context: a no-op without a deadline, and after it.
Cancel(c) == IF c = "armed" THEN "released" ELSE c

-----------------------------------------------------------------------------
Init ==
    /\ \E s \in Settings : driver = s[1] /\ timeout = s[2]
    /\ canceled = FALSE
    /\ cache = {} /\ cacheSize = 0
    /\ free = PoolSize /\ issued = 0
    /\ pc = [v \in VUs |-> "idle"]
    /\ inTx = [v \in VUs |-> FALSE]
    /\ holds = [v \in VUs |-> FALSE]
    /\ stmt = [v \in VUs |-> NoStmt]
    /\ outcome = [v \in VUs |-> "none"]

Goto(v, label) == pc' = [pc EXCEPT ![v] = label]

TakeConn(v) ==
    /\ free > 0
    /\ free' = free - 1
    /\ holds' = [holds EXCEPT ![v] = TRUE]

\* A statement outside a transaction gives its connection, or what replaces it, back.
ReleaseConn(v) ==
    IF holds[v] /\ ~inTx[v]
    THEN /\ holds' = [holds EXCEPT ![v] = FALSE]
         /\ free' = free + 1
    ELSE UNCHANGED pool

\* What is left of a statement whose context is c: nothing, unless its timer still runs.
Remains(c) == [NoStmt EXCEPT !.ctx = IF c = "armed" THEN "armed" ELSE "parent"]

\* The call returns to the workload.
Return(v, causes) ==
    /\ Goto(v, "idle")
    /\ outcome' = [outcome EXCEPT ![v] = Report(causes)]
    /\ UNCHANGED <<config, canceled, caching, issued, inTx>>

-----------------------------------------------------------------------------
(* Transactions. *)

HasTransactions == driver # "picodata"

\* Begin takes a connection of the pool for the whole transaction, and waits for one
\* without a deadline of its own; picodata has no transactions.
Begin(v) ==
    /\ pc[v] = "idle" /\ ~inTx[v] /\ issued < MaxStatements
    /\ ~canceled /\ HasTransactions
    /\ TakeConn(v)
    /\ inTx' = [inTx EXCEPT ![v] = TRUE]
    /\ outcome' = [outcome EXCEPT ![v] = "none"]
    /\ UNCHANGED <<config, canceled, caching, issued, pc, stmt>>

\* Commit and Rollback both end what was begun, and the connection goes back whether or
\* not the database accepts.
EndTx(v) ==
    /\ pc[v] = "idle" /\ inTx[v]
    /\ inTx' = [inTx EXCEPT ![v] = FALSE]
    /\ holds' = [holds EXCEPT ![v] = FALSE]
    /\ free' = free + 1
    /\ UNCHANGED <<config, canceled, caching, issued, pc, stmt, outcome>>

-----------------------------------------------------------------------------
(* RunQuery: parse, bind, send. *)

\* A workload that met an error inside a transaction rolls it back before anything else.
Issue(v) ==
    /\ pc[v] = "idle" /\ issued < MaxStatements
    /\ inTx[v] => outcome[v] \in {"none", "ok"}
    /\ issued' = issued + 1
    /\ \E t \in Templates : stmt' = [stmt EXCEPT ![v] = [NoStmt EXCEPT !.template = t]]
    /\ outcome' = [outcome EXCEPT ![v] = "none"]
    /\ Goto(v, "lookup")
    /\ UNCHANGED <<config, canceled, caching, pool, inTx>>

Parsing == <<config, canceled, pool, issued, inTx, stmt, outcome>>

\* lookupOrParse: a hit needs no parse.
Lookup(v) ==
    /\ pc[v] = "lookup"
    /\ Goto(v, IF stmt[v].template \in cache THEN "bind" ELSE "room")
    /\ UNCHANGED <<Parsing, caching>>

\* Mutant: the size of the cache is not looked at.
AlwaysRoom == TRUE

\* The size is read here, and counted up two steps later.
HasRoom == cacheSize < CacheMax

CheckRoom(v) ==
    /\ pc[v] = "room"
    /\ Goto(v, IF HasRoom THEN "store" ELSE "bind")
    /\ UNCHANGED <<Parsing, caching>>

\* Mutant: what LoadOrStore answers is ignored.
AlwaysStored(v) == TRUE

\* LoadOrStore tells whether another VU stored the same template since the lookup.
StoredByMe(v) == stmt[v].template \notin cache

Store(v) ==
    /\ pc[v] = "store"
    /\ cache' = cache \cup {stmt[v].template}
    /\ Goto(v, IF StoredByMe(v) THEN "count" ELSE "bind")
    /\ UNCHANGED <<Parsing, cacheSize>>

Count(v) ==
    /\ pc[v] = "count"
    /\ cacheSize' = cacheSize + 1
    /\ Goto(v, "bind")
    /\ UNCHANGED <<Parsing, cache>>

\* ProcessArgs: a missed argument or a value the dialect cannot convert ends the call
\* before anything is sent; an extra argument is only logged.
RejectArguments(v) ==
    /\ pc[v] = "bind"
    /\ stmt' = [stmt EXCEPT ![v] = NoStmt]
    /\ Return(v, {"other"})
    /\ UNCHANGED pool

Running == <<config, canceled, caching, issued, inTx, outcome>>

\* The statement's own context starts here, and covers the wait for a connection; the text
\* of the statement matters no more.
Bind(v) ==
    /\ pc[v] = "bind"
    /\ \E shape \in (IF driver = "mysql" THEN {"select", "other"} ELSE {"other"}) :
           stmt' = [stmt EXCEPT ![v] = [NoStmt EXCEPT !.shape = shape, !.ctx = StatementTimeout]]
    /\ Goto(v, "acquire")
    /\ UNCHANGED <<Running, pool>>

\* A statement of a transaction has its connection already.
Send(v) ==
    /\ pc[v] = "acquire" /\ CtxErr(stmt[v]) = {}
    /\ IF holds[v] THEN UNCHANGED pool ELSE TakeConn(v)
    /\ \E h \in BOOLEAN : stmt' = [stmt EXCEPT ![v].hung = h, ![v].sentAt = stmt[v].elapsed]
    /\ Goto(v, "sent")
    /\ UNCHANGED Running

\* QueryContext fails: RunQuery cancels the statement's context and returns the error.
QueryFails(v, causes) ==
    /\ stmt' = [stmt EXCEPT ![v] = Remains(Cancel(stmt[v].ctx))]
    /\ ReleaseConn(v)
    /\ Return(v, QueryError(stmt[v], causes))

\* No connection in time.
AcquireFails(v) ==
    /\ pc[v] = "acquire" /\ CtxErr(stmt[v]) # {}
    /\ QueryFails(v, CtxErr(stmt[v]))

ServerRefuses(v) ==
    /\ pc[v] = "sent" /\ ~stmt[v].hung
    /\ QueryFails(v, {"conflict"})

\* MAX_EXECUTION_TIME, counted by the server: the statement is aborted, the connection
\* stays good.
HintFires(v) ==
    /\ pc[v] = "sent" /\ ~stmt[v].hung
    /\ StatementTimeoutHint(stmt[v]) /\ stmt[v].elapsed > stmt[v].sentAt
    /\ QueryFails(v, {"aborted"})

\* A context that ends while the server works: database/sql reports the context's error
\* and gives the connection up; pgx sends a CancelRequest, after which the server aborts
\* the statement or, failing that, the connection is closed.
Interrupted(s) == IF UsesPgx THEN {{"aborted"}, CtxErr(s)} ELSE {CtxErr(s)}

InterruptQuery(v) ==
    /\ pc[v] = "sent" /\ CtxErr(stmt[v]) # {}
    /\ \E causes \in Interrupted(stmt[v]) : QueryFails(v, causes)

ServerAnswers(v) ==
    /\ pc[v] = "sent" /\ ~stmt[v].hung
    /\ \E n \in 0 .. MaxRows, fault \in {{}, {"conflict"}} :
           stmt' = [stmt EXCEPT ![v].cursor = NewCursor(n, fault), ![v].sentAt = 0]
    /\ Goto(v, "answered")
    /\ UNCHANGED <<Running, pool>>

-----------------------------------------------------------------------------
(* The cursor. *)

Open(v) == pc[v] \in {"answered", "reading", "closing"} /\ ~stmt[v].cursor.ended

Ends(v, causes) ==
    /\ stmt' = [stmt EXCEPT ![v].cursor.ended = TRUE, ![v].cursor.raw = causes,
                            ![v].cursor.fault = {}]
    /\ UNCHANGED <<Running, pool, pc>>

\* The server's stream ends: after the rows the reader takes, or earlier with a fault.
StreamEnds(v) ==
    /\ Open(v)
    /\ pc[v] = "answered" => stmt[v].cursor.fault # {}
    /\ pc[v] = "reading" => stmt[v].cursor.left = 0 \/ stmt[v].cursor.fault # {}
    /\ Ends(v, stmt[v].cursor.fault)

\* The context ends while rows are pending: awaitDone of database/sql closes the rows,
\* pgx cancels the statement.
InterruptStream(v) ==
    /\ Open(v) /\ CtxErr(stmt[v]) # {}
    /\ \E causes \in Interrupted(stmt[v]) : Ends(v, causes)

\* Mutant: the next action without rows.Close.
RowsFailUnclosed(v) ==
    /\ pc[v] = "answered" /\ stmt[v].cursor.raw # {}
    /\ stmt' = [stmt EXCEPT ![v] = Remains(Cancel(stmt[v].ctx))]
    /\ UNCHANGED pool
    /\ Return(v, RowsErr(stmt[v]))

\* RunQuery looks at rows.Err once before it hands the rows out.
RowsFailAtOnce(v) ==
    /\ pc[v] = "answered" /\ stmt[v].cursor.raw # {}
    /\ stmt' = [stmt EXCEPT ![v] = Remains(Cancel(stmt[v].ctx))]
    /\ ReleaseConn(v)
    /\ Return(v, RowsErr(stmt[v]))

\* Exec closes the rows unread; the others read them.
HandOut(v) ==
    /\ pc[v] = "answered" /\ stmt[v].cursor.raw = {}
    /\ \E call \in Calls :
           /\ stmt' = [stmt EXCEPT ![v].call = call]
           /\ Goto(v, IF call = "exec" THEN "closing" ELSE "reading")
    /\ UNCHANGED <<Running, pool>>

\* Next yields a row: QueryValue and QueryRow stop at the first, ReadAll goes on.
NextRow(v) ==
    /\ pc[v] = "reading" /\ ~stmt[v].cursor.ended /\ stmt[v].cursor.left > 0
    /\ stmt' = [stmt EXCEPT ![v].cursor.left = @ - 1, ![v].cursor.seen = @ + 1]
    /\ Goto(v, IF stmt[v].call = "first" THEN "closing" ELSE "reading")
    /\ UNCHANGED <<Running, pool>>

\* Next at the end of the rows, or Close after consuming what is left: the cursor computes
\* its error, its connection goes back, and cancelRows releases the context last.
Exhaust(v) ==
    /\ pc[v] \in {"reading", "closing"} /\ stmt[v].cursor.ended
    /\ stmt' = [stmt EXCEPT
           ![v].errs = JoinErrors(@, RowsErr(stmt[v])),
           ![v].cursor.kept = IF driver = "postgres" THEN RowsErr(stmt[v]) ELSE @,
           ![v].ctx = Cancel(@), ![v].elapsed = 0, ![v].shape = "other"]
    /\ ReleaseConn(v)
    /\ Goto(v, "finish")
    /\ UNCHANGED Running

\* finishQuery asks for Err again, now that the context is released.
FinalErr(v) == JoinErrors(stmt[v].errs, RowsErr(stmt[v]))

FinishQuery(v) ==
    /\ pc[v] = "finish"
    /\ stmt' = [stmt EXCEPT ![v] = Remains(stmt[v].ctx)]
    /\ Return(v, FinalErr(v))
    /\ UNCHANGED pool

-----------------------------------------------------------------------------
(* The environment. *)

InFlight(v) == pc[v] \in {"acquire", "sent", "answered", "reading", "closing"}

\* A server that works aborts a hinted statement before the grace has passed as well.
Enforcing(v) ==
    /\ pc[v] = "sent" /\ ~stmt[v].hung
    /\ StatementTimeoutHint(stmt[v]) /\ stmt[v].elapsed > stmt[v].sentAt

Tick(v) ==
    /\ InFlight(v) /\ stmt[v].ctx = "armed" /\ ~Enforcing(v)
    /\ stmt[v].elapsed < StatementDeadline(stmt[v])
    /\ stmt' = [stmt EXCEPT ![v].elapsed = @ + 1]
    /\ UNCHANGED <<Running, pool, pc>>

Expire(v) ==
    /\ InFlight(v) /\ stmt[v].ctx = "armed" /\ ~canceled
    /\ stmt[v].elapsed = StatementDeadline(stmt[v])
    /\ stmt' = [stmt EXCEPT ![v].ctx = "expired", ![v].elapsed = 0]
    /\ UNCHANGED <<Running, pool, pc>>

\* A signal, a fatal iteration or the end of a duration.
CancelRun ==
    /\ ~canceled
    /\ canceled' = TRUE
    /\ UNCHANGED <<config, caching, pool, issued, pc, inTx, stmt, outcome>>

\* The steps the program takes on its own, and those of the server.
Step(v) ==
    \/ Lookup(v) \/ CheckRoom(v) \/ Store(v) \/ Count(v)
    \/ RejectArguments(v) \/ Bind(v) \/ Send(v) \/ AcquireFails(v)
    \/ InterruptQuery(v) \/ InterruptStream(v)
    \/ RowsFailAtOnce(v) \/ HandOut(v) \/ Exhaust(v) \/ FinishQuery(v)

Server(v) ==
    ServerRefuses(v) \/ HintFires(v) \/ ServerAnswers(v) \/ StreamEnds(v) \/ NextRow(v)

Next ==
    \/ \E v \in VUs : Begin(v) \/ EndTx(v) \/ Issue(v) \/ Step(v) \/ Server(v)
                      \/ Tick(v) \/ Expire(v)
    \/ CancelRun

Spec == Init /\ [][Next]_vars

-----------------------------------------------------------------------------
(* Properties. *)

Idle(v) == pc[v] = "idle"
Returns(v) == ~Idle(v) /\ pc'[v] = "idle"

\* A call's answer is true.  One that reports success met no fault and lost no row:
\* whatever ends the rows early, the server, the deadline or the end of the run, is never
\* taken for their end.  And the kind the retry policy acts on is the server's: the
\* cancel() that ends every bounded statement never turns a conflict into a cancellation.
\* (finishQuery, readQueryRows, firstQueryRow, statementRows, cancelRows)
AnswerIsTrue ==
    [][\A v \in VUs : Returns(v) =>
          LET c == stmt[v].cursor IN
            /\ outcome'[v] = "ok" =>
                  /\ c.raw = {}
                  /\ stmt[v].call = "rows" => c.left = 0
                  /\ stmt[v].call = "first" => c.seen = 1 \/ c.left = 0
            /\ outcome'[v] = "canceled" => canceled
            /\ /\ c.raw = {"conflict"} /\ stmt[v].ctx # "expired"
               /\ ~canceled /\ driver # "picodata"
               => outcome'[v] = "conflict"]_vars

\* Between statements no timer is armed, a VU holds a connection exactly while it has
\* begun something, and no connection of the pool is lost.  (RunQuery, cancelRows, Rows.close)
NothingLeftBehind ==
    /\ \A v \in VUs : Idle(v) => stmt[v].ctx # "armed" /\ (holds[v] <=> inTx[v])
    /\ free + Cardinality({v \in VUs : holds[v]}) = PoolSize

\* The client's deadline overtakes a server that still executes the hinted statement, and
\* the driver gives the connection up.
Overtaken(v) ==
    /\ pc[v] = "sent" /\ ~stmt[v].hung /\ stmt[v].ctx = "expired"
    /\ StatementTimeoutHint(stmt[v])

\* A statement that did not wait for its connection is aborted by MAX_EXECUTION_TIME before
\* the client's padded deadline passes.  (mysqlDialect.StatementDeadline)
HintKeepsConnection == \A v \in VUs : Overtaken(v) => stmt[v].sentAt > 0

\* The cache of parsed queries stays bounded although its size is read, the template
\* stored and the size incremented in three steps: VUs that do so together exceed the limit
\* by fewer entries than there are VUs, and the counter, which never comes down, counts each
\* entry once.  (lookupOrParse)
CacheBounded ==
    /\ CacheMax > 0 => Cardinality(cache) < CacheMax + Cardinality(VUs)
    /\ cacheSize + Cardinality({v \in VUs : pc[v] = "count"}) = Cardinality(cache)

\* With a query timeout no statement depends on the server alone: from Bind to its return a
\* step of the program or of the clock is always possible, also in the queue for a connection
\* and in the middle of the rows.  Such steps are finitely many for one statement, so it
\* returns.  (StatementTimeout, cancelRows)
NeverAtServersMercy ==
    \A v \in VUs : timeout # "none" /\ ~Idle(v) =>
        ENABLED (Step(v) \/ Tick(v) \/ Expire(v) \/ HintFires(v))
=============================================================================
