-------------------------- MODULE StatementsProofs --------------------------
(***************************************************************************)
(* Proofs about Statements for every number of virtual users, connections, *)
(* templates, rows and statements, and for every limit of the cache.       *)
(***************************************************************************)
EXTENDS Statements, FiniteSetTheorems, TLAPS

Places == {"idle", "lookup", "room", "store", "count", "bind", "acquire", "sent", "answered",
           "reading", "closing", "finish"}
Causes == {"conflict", "aborted", "deadline", "canceled", "other"}
Kinds == {"conflict", "canceled", "timeout", "unknown"}

Cursor == [left : Nat, seen : Nat, fault : {{}, {"conflict"}}, ended : BOOLEAN,
           raw : SUBSET Causes, kept : SUBSET Causes]

Stmt == [template : Templates \cup {NoText}, shape : {"select", "other"}, call : Calls,
         ctx : {"parent", "armed", "expired", "released"}, elapsed : Nat, sentAt : Nat,
         hung : BOOLEAN, cursor : Cursor, errs : SUBSET Causes]

\* A VU that looks up a template or is to store one has one.
Parsed ==
    \A v \in VUs : pc[v] \in {"lookup", "room", "store"} => stmt[v].template \in Templates

TypeOK ==
    /\ driver \in {"postgres", "mysql", "ydb", "picodata"}
    /\ timeout \in {"none", "tiny", "usual"}
    /\ canceled \in BOOLEAN
    /\ cache \subseteq Templates /\ IsFiniteSet(cache)
    /\ cacheSize \in Nat
    /\ free \in Nat
    /\ issued \in Nat
    /\ pc \in [VUs -> Places]
    /\ inTx \in [VUs -> BOOLEAN]
    /\ holds \in [VUs -> BOOLEAN]
    /\ stmt \in [VUs -> Stmt]
    /\ outcome \in [VUs -> {"none", "ok"} \cup Kinds]
    /\ Parsed

\* Before its statement's context exists.
Unbound == {"idle", "lookup", "room", "store", "count", "bind"}
Flying == {"acquire", "sent", "answered", "reading", "closing"}
Connected == {"sent", "answered", "reading", "closing"}

\* A VU has its connection from Begin to the end of the transaction, and while one of its
\* statements is at the server.
Connection(v) == holds[v] <=> inTx[v] \/ pc[v] \in Connected

\* The context lives from Bind to the end of the rows; a hinted statement that was sent at
\* once is aborted by its server before the padded deadline.
Context(v) ==
    LET s == stmt[v] IN
    /\ pc[v] \in Unbound \cup {"finish"} => s.ctx # "armed"
    /\ pc[v] \in Flying => s.ctx # "released"
    /\ pc[v] = "sent" /\ ~s.hung /\ StatementTimeoutHint(s) /\ s.sentAt = 0 =>
           s.ctx # "expired" /\ s.elapsed <= 1

\* The server's rows while they are read: their end without an error is the end of the
\* result, and a cancellation is one of the run.
Rows(v) ==
    LET s == stmt[v]
        c == s.cursor
    IN  /\ pc[v] \in Unbound \cup {"acquire", "sent"} => c = NoCursor
        /\ pc[v] # "finish" => c.kept = {} /\ s.errs = {}
        /\ pc[v] \in {"answered", "reading", "closing"} /\ ~c.ended => c.raw = {}
        /\ pc[v] = "answered" => c.seen = 0 /\ (c.ended => c.raw # {})
        /\ pc[v] \in {"reading", "finish"} /\ c.ended /\ c.raw = {} /\ s.call = "rows" =>
               c.left = 0
        /\ pc[v] = "reading" => s.call # "exec"
        /\ pc[v] = "reading" /\ s.call = "first" =>
               c.seen = 0 /\ (c.ended /\ c.raw = {} => c.left = 0)
        /\ pc[v] = "closing" => s.call # "rows" /\ (s.call = "first" => c.seen = 1)
        /\ pc[v] = "finish" => c.ended
        /\ pc[v] = "finish" /\ c.raw = {} /\ s.call = "first" => c.seen = 1 \/ c.left = 0
        /\ "canceled" \in c.raw => canceled

\* The errors a call has met when it returns: those of its rows, kept since before the
\* context was released.
Errors(v) ==
    LET s == stmt[v]
        c == s.cursor
    IN  pc[v] = "finish" =>
            /\ c.raw \subseteq s.errs
            /\ driver = "postgres" /\ c.raw # {} => c.kept # {}
            /\ "canceled" \in s.errs \cup c.kept => canceled
            /\ s.ctx # "expired" /\ ~canceled => s.errs \subseteq c.raw /\ c.kept \subseteq c.raw

Sound(v) == Connection(v) /\ Context(v) /\ Rows(v) /\ Errors(v)

Holders == {v \in VUs : holds[v]}
Storing == {v \in VUs : pc[v] = "store"}
Counting == {v \in VUs : pc[v] = "count"}

\* Every connection of the pool is idle or held.
Pooled == free + Cardinality(Holders) = PoolSize

\* Entries are counted once, and those that may still come are bounded.
Cached ==
    /\ cacheSize + Cardinality(Counting) = Cardinality(cache)
    /\ CacheMax = 0 => Storing = {}
    /\ CacheMax > 0 => Cardinality(cache) + Cardinality(Storing) < CacheMax + Cardinality(VUs)

IInv == TypeOK /\ (\A v \in VUs : Sound(v)) /\ Pooled /\ Cached

-----------------------------------------------------------------------------
(* Types of the values the actions store.                                  *)

LEMMA Blank ==
    /\ NoCursor \in Cursor /\ NoStmt \in Stmt
    /\ \A c \in {"parent", "armed", "expired", "released"} :
           Remains(c) \in Stmt /\ Cancel(c) \in {"parent", "expired", "released"}
<1>1. NoCursor \in Cursor
  BY DEF NoCursor, Cursor, Causes
<1>2. NoStmt \in Stmt
  BY <1>1 DEF NoStmt, Stmt, Calls, Causes
<1>3. \A c \in {"parent", "armed", "expired", "released"} : Remains(c) \in Stmt
  BY <1>2 DEF Remains, Stmt
<1> QED
  BY <1>1, <1>2, <1>3 DEF Cancel

\* An error of a context, and what each driver makes of an error.
LEMMA ContextErrors ==
    ASSUME TypeOK, NEW s \in Stmt
    PROVE  /\ CtxErr(s) \in SUBSET {"deadline", "canceled"}
           /\ "deadline" \in CtxErr(s) <=> s.ctx = "expired"
           /\ "canceled" \in CtxErr(s) <=> s.ctx # "expired" /\ (canceled \/ s.ctx = "released")
           /\ \A causes \in SUBSET Causes :
                  /\ StatementContextError(s, causes) \in SUBSET Causes
                  /\ QueryError(s, causes) \in SUBSET Causes
                  /\ causes \subseteq QueryError(s, causes)
                  /\ QueryError(s, causes) \subseteq causes \cup CtxErr(s)
           /\ RowsErr(s) \in SUBSET Causes
<1>1. /\ CtxErr(s) \in SUBSET {"deadline", "canceled"}
      /\ "deadline" \in CtxErr(s) <=> s.ctx = "expired"
      /\ "canceled" \in CtxErr(s) <=> s.ctx # "expired" /\ (canceled \/ s.ctx = "released")
  <2>1. CASE s.ctx = "expired"
    <3>1. CtxErr(s) = {"deadline"}
      BY <2>1 DEF CtxErr
    <3> QED
      BY <2>1, <3>1
  <2>2. CASE s.ctx # "expired" /\ (canceled \/ s.ctx = "released")
    <3>1. CtxErr(s) = {"canceled"}
      BY <2>2 DEF CtxErr
    <3> QED
      BY <2>2, <3>1
  <2>3. CASE s.ctx # "expired" /\ ~(canceled \/ s.ctx = "released")
    <3>1. CtxErr(s) = {}
      BY <2>3 DEF CtxErr
    <3> QED
      BY <2>3, <3>1
  <2> QED
    BY <2>1, <2>2, <2>3
<1>2. CtxErr(s) \in SUBSET Causes
  BY <1>1 DEF Causes
<1>3. \A causes \in SUBSET Causes :
          /\ StatementContextError(s, causes) \in SUBSET Causes
          /\ QueryError(s, causes) \in SUBSET Causes
          /\ causes \subseteq QueryError(s, causes)
          /\ QueryError(s, causes) \subseteq causes \cup CtxErr(s)
  BY <1>2 DEF StatementContextError, QueryError
<1>4. RowsErr(s) \in SUBSET Causes
  <2>1. s.cursor.kept \in SUBSET Causes /\ s.cursor.raw \in SUBSET Causes
    BY DEF Stmt, Cursor
  <2> QED
    BY <1>3, <2>1 DEF RowsErr, KeptOnce
<1> QED
  BY <1>1, <1>3, <1>4

LEMMA Reports ==
    ASSUME TypeOK, NEW causes \in SUBSET Causes
    PROVE  /\ Report(causes) \in {"ok"} \cup Kinds
           /\ Report(causes) = "ok" <=> causes = {}
           /\ Report(causes) = "canceled" => "canceled" \in causes
           /\ causes = {"conflict"} /\ driver # "picodata" => Report(causes) = "conflict"
<1>1. /\ DefaultErrorFacts(causes) \in {"canceled", "timeout", "unknown"}
      /\ DefaultErrorFacts(causes) = "canceled" => "canceled" \in causes
      /\ causes = {"conflict"} => DefaultErrorFacts(causes) = "unknown"
  <2>1. CASE "canceled" \in causes
    <3>1. DefaultErrorFacts(causes) = "canceled"
      BY <2>1 DEF DefaultErrorFacts
    <3> QED
      BY <2>1, <3>1
  <2>2. CASE "canceled" \notin causes /\ "deadline" \in causes
    <3>1. DefaultErrorFacts(causes) = "timeout"
      BY <2>2 DEF DefaultErrorFacts
    <3> QED
      BY <2>2, <3>1
  <2>3. CASE "canceled" \notin causes /\ "deadline" \notin causes
    <3>1. DefaultErrorFacts(causes) = "unknown"
      BY <2>3 DEF DefaultErrorFacts
    <3> QED
      BY <2>3, <3>1
  <2> QED
    BY <2>1, <2>2, <2>3
<1>2. /\ MysqlFacts(causes) \in Kinds
      /\ MysqlFacts(causes) = "canceled" => "canceled" \in causes
      /\ causes = {"conflict"} => MysqlFacts(causes) = "conflict"
  <2>1. CASE "conflict" \in causes
    <3>1. MysqlFacts(causes) = "conflict"
      BY <2>1 DEF MysqlFacts
    <3> QED
      BY <3>1 DEF Kinds
  <2>2. CASE "conflict" \notin causes /\ "aborted" \in causes
    <3>1. MysqlFacts(causes) = "timeout"
      BY <2>2 DEF MysqlFacts
    <3> QED
      BY <2>2, <3>1 DEF Kinds
  <2>3. CASE "conflict" \notin causes /\ "aborted" \notin causes
    <3>1. MysqlFacts(causes) = DefaultErrorFacts(causes)
      BY <2>3 DEF MysqlFacts
    <3> QED
      BY <1>1, <2>3, <3>1 DEF Kinds
  <2> QED
    BY <2>1, <2>2, <2>3
<1>3. \/ ClassifyError(causes) = PostgresFacts(causes)
      \/ ClassifyError(causes) = MysqlFacts(causes)
      \/ ClassifyError(causes) = YdbFacts(causes)
      \/ driver = "picodata" /\ ClassifyError(causes) = DefaultErrorFacts(causes)
  <2>1. CASE driver = "postgres"
    BY <2>1 DEF ClassifyError
  <2>2. CASE driver = "mysql"
    BY <2>2 DEF ClassifyError
  <2>3. CASE driver = "ydb"
    BY <2>3 DEF ClassifyError
  <2>4. CASE driver = "picodata"
    BY <2>4 DEF ClassifyError
  <2> QED
    BY <2>1, <2>2, <2>3, <2>4 DEF TypeOK
<1>4. /\ ClassifyError(causes) \in Kinds
      /\ ClassifyError(causes) = "canceled" => "canceled" \in causes
      /\ causes = {"conflict"} /\ driver # "picodata" => ClassifyError(causes) = "conflict"
  BY <1>1, <1>2, <1>3 DEF PostgresFacts, YdbFacts, Kinds
<1> QED
  BY <1>4 DEF Report, Kinds

-----------------------------------------------------------------------------
(* The steps of a VU, by what they do.                                     *)

\* Between statements, and on the way to the statement's context.
Prepares(v) == \/ Begin(v) \/ EndTx(v) \/ Issue(v) \/ Lookup(v) \/ CheckRoom(v) \/ Store(v)
               \/ Count(v) \/ RejectArguments(v) \/ Bind(v)

\* The statement ends without rows.
Abandons(v) ==
    /\ pc[v] \in {"acquire", "sent"}
    /\ \E causes \in SUBSET Causes :
           /\ causes # {}
           /\ causes \subseteq {"conflict", "aborted"} \cup CtxErr(stmt[v])
           /\ QueryFails(v, causes)

\* The stream ends.
Stops(v) ==
    /\ Open(v)
    /\ \E causes \in SUBSET Causes :
           /\ causes = {} => /\ pc[v] # "answered"
                             /\ pc[v] = "reading" => stmt[v].cursor.left = 0
           /\ causes \subseteq {"conflict", "aborted"} \cup CtxErr(stmt[v])
           /\ Ends(v, causes)

Handles(v) == \/ Send(v) \/ ServerAnswers(v) \/ RowsFailAtOnce(v) \/ HandOut(v) \/ NextRow(v)
              \/ Exhaust(v) \/ FinishQuery(v)

LEMMA StepKinds ==
    ASSUME TypeOK, [Next]_vars
    PROVE  \/ \E v \in VUs : \/ Prepares(v) \/ Abandons(v) \/ Stops(v) \/ Handles(v)
                             \/ Tick(v) \/ Expire(v)
           \/ CancelRun
           \/ UNCHANGED vars
<1>1. ASSUME NEW v \in VUs
      PROVE  /\ stmt[v] \in Stmt /\ stmt[v].cursor.fault \in {{}, {"conflict"}}
             /\ CtxErr(stmt[v]) \in SUBSET Causes
  <2>1. stmt[v] \in Stmt
    BY DEF TypeOK
  <2>2. stmt[v].cursor.fault \in {{}, {"conflict"}}
    BY <2>1 DEF Stmt, Cursor
  <2>3. CtxErr(stmt[v]) \in SUBSET {"deadline", "canceled"}
    BY <2>1, ContextErrors
  <2> QED
    BY <2>1, <2>2, <2>3 DEF Causes
<1>2. ASSUME NEW v \in VUs, AcquireFails(v) \/ ServerRefuses(v) \/ HintFires(v) \/ InterruptQuery(v)
      PROVE  Abandons(v)
  <2>1. {"conflict"} \in SUBSET Causes /\ {"aborted"} \in SUBSET Causes
    BY DEF Causes
  <2>2. CASE AcquireFails(v)
    BY <1>1, <2>2 DEF AcquireFails, Abandons
  <2>3. CASE ServerRefuses(v)
    BY <2>1, <2>3 DEF ServerRefuses, Abandons
  <2>4. CASE HintFires(v)
    BY <2>1, <2>4 DEF HintFires, Abandons
  <2>5. CASE InterruptQuery(v)
    BY <1>1, <2>1, <2>5 DEF InterruptQuery, Interrupted, Abandons
  <2> QED
    BY <1>2, <2>2, <2>3, <2>4, <2>5
<1>3. ASSUME NEW v \in VUs, StreamEnds(v) \/ InterruptStream(v)
      PROVE  Stops(v)
  <2>1. {"aborted"} \in SUBSET Causes /\ {"conflict"} \in SUBSET Causes
    BY DEF Causes
  <2>2. CASE StreamEnds(v)
    BY <1>1, <2>1, <2>2 DEF StreamEnds, Stops
  <2>3. CASE InterruptStream(v)
    BY <1>1, <2>1, <2>3 DEF InterruptStream, Interrupted, Stops
  <2> QED
    BY <1>3, <2>2, <2>3
<1> QED
  BY <1>2, <1>3 DEF Next, Step, Server, Prepares, Handles

\* A VU's step leaves the other VUs alone.
LEMMA Frame ==
    ASSUME TypeOK, NEW v \in VUs,
           Prepares(v) \/ Abandons(v) \/ Stops(v) \/ Handles(v) \/ Tick(v) \/ Expire(v)
    PROVE  /\ UNCHANGED <<driver, timeout, canceled>>
           /\ \A u \in VUs \ {v} : /\ pc'[u] = pc[u] /\ stmt'[u] = stmt[u]
                                   /\ outcome'[u] = outcome[u]
                                   /\ inTx'[u] <=> inTx[u]
                                   /\ holds'[u] <=> holds[u]
<1> USE DEF config, caching, pool, Running, Parsing, Goto, Return, TypeOK
<1>1. CASE Prepares(v)
  BY <1>1 DEF Prepares, Begin, EndTx, Issue, Lookup, CheckRoom, Store, Count, RejectArguments,
              Bind, TakeConn
<1>2. CASE Abandons(v)
  BY <1>2 DEF Abandons, QueryFails, ReleaseConn
<1>3. CASE Stops(v)
  BY <1>3 DEF Stops, Ends
<1>4. CASE Handles(v)
  BY <1>4 DEF Handles, Send, ServerAnswers, RowsFailAtOnce, HandOut, NextRow, Exhaust,
              FinishQuery, TakeConn, ReleaseConn
<1>5. CASE Tick(v) \/ Expire(v)
  BY <1>5 DEF Tick, Expire
<1> QED
  BY <1>1, <1>2, <1>3, <1>4, <1>5

\* Each step keeps the variables in their ranges.
LEMMA TypeStep ==
    ASSUME TypeOK, [Next]_vars
    PROVE  TypeOK'
<1> USE DEF config, caching, pool, Running, Parsing, Goto, Return
<1>1. ASSUME NEW v \in VUs,
             Prepares(v) \/ Abandons(v) \/ Stops(v) \/ Handles(v) \/ Tick(v) \/ Expire(v)
      PROVE  TypeOK'
  <2>1. UNCHANGED <<driver, timeout, canceled>>
    BY <1>1, Frame
  <2>2. stmt[v] \in Stmt /\ stmt \in [VUs -> Stmt]
    BY DEF TypeOK
  <2>3. /\ stmt[v].cursor \in Cursor /\ stmt[v].errs \in SUBSET Causes
        /\ stmt[v].ctx \in {"parent", "armed", "expired", "released"}
        /\ stmt[v].elapsed \in Nat
    BY <2>2 DEF Stmt
  <2>4. /\ CtxErr(stmt[v]) \in SUBSET Causes /\ RowsErr(stmt[v]) \in SUBSET Causes
        /\ \A causes \in SUBSET Causes : QueryError(stmt[v], causes) \in SUBSET Causes
    <3>1. CtxErr(stmt[v]) \in SUBSET {"deadline", "canceled"}
      BY <2>2, ContextErrors
    <3>2. CtxErr(stmt[v]) \in SUBSET Causes
      BY <3>1 DEF Causes
    <3> QED
      BY <2>2, <3>2, ContextErrors
  <2>5. /\ NoStmt \in Stmt /\ NoCursor \in Cursor
        /\ Remains(stmt[v].ctx) \in Stmt /\ Remains(Cancel(stmt[v].ctx)) \in Stmt
        /\ Cancel(stmt[v].ctx) \in {"parent", "expired", "released"}
    <3>1. Cancel(stmt[v].ctx) \in {"parent", "armed", "expired", "released"}
      BY <2>3 DEF Cancel
    <3> QED
      BY <2>3, <3>1, Blank
  <2>6. stmt' \in [VUs -> Stmt]
    <3>1. CASE Prepares(v)
      <4>1. CASE Issue(v)
        <5>1. PICK t \in Templates : stmt' = [stmt EXCEPT ![v] = [NoStmt EXCEPT !.template = t]]
          BY <4>1 DEF Issue
        <5>2. [NoStmt EXCEPT !.template = t] \in Stmt
          BY <2>5 DEF Stmt
        <5> QED
          BY <2>2, <5>1, <5>2
      <4>2. CASE Bind(v)
        <5>1. PICK shape \in {"select", "other"} :
                stmt' = [stmt EXCEPT ![v] = [NoStmt EXCEPT !.shape = shape, !.ctx = StatementTimeout]]
          BY <4>2 DEF Bind
        <5>2. [NoStmt EXCEPT !.shape = shape, !.ctx = StatementTimeout] \in Stmt
          BY <2>5 DEF Stmt, StatementTimeout
        <5> QED
          BY <2>2, <5>1, <5>2
      <4>3. CASE RejectArguments(v)
        BY <2>2, <2>5, <4>3 DEF RejectArguments
      <4>4. CASE ~Issue(v) /\ ~Bind(v) /\ ~RejectArguments(v)
        <5>1. stmt' = stmt
          BY <3>1, <4>4 DEF Prepares, Begin, EndTx, Lookup, CheckRoom, Store, Count
        <5> QED
          BY <2>2, <5>1
      <4> QED
        BY <4>1, <4>2, <4>3, <4>4
    <3>2. CASE Abandons(v)
      BY <2>2, <2>5, <3>2 DEF Abandons, QueryFails
    <3>3. CASE Stops(v)
      <4>1. PICK causes \in SUBSET Causes :
              stmt' = [stmt EXCEPT ![v].cursor.ended = TRUE, ![v].cursor.raw = causes,
                                   ![v].cursor.fault = {}]
        BY <3>3 DEF Stops, Ends
      <4> QED
        BY <2>2, <2>3, <4>1 DEF Stmt, Cursor
    <3>4. CASE Send(v)
      <4>1. PICK h \in BOOLEAN :
              stmt' = [stmt EXCEPT ![v].hung = h, ![v].sentAt = stmt[v].elapsed]
        BY <3>4 DEF Send
      <4> QED
        BY <2>2, <2>3, <4>1 DEF Stmt
    <3>5. CASE ServerAnswers(v)
      <4>1. PICK n \in 0..MaxRows, fault \in {{}, {"conflict"}} :
              stmt' = [stmt EXCEPT ![v].cursor = NewCursor(n, fault), ![v].sentAt = 0]
        BY <3>5 DEF ServerAnswers
      <4>2. NewCursor(n, fault) \in Cursor
        <5>1. n \in Nat
          BY StatementsAssumption
        <5> QED
          BY <2>5, <5>1 DEF NewCursor, Cursor
      <4> QED
        BY <2>2, <4>1, <4>2 DEF Stmt
    <3>6. CASE RowsFailAtOnce(v)
      BY <2>2, <2>5, <3>6 DEF RowsFailAtOnce
    <3>7. CASE HandOut(v)
      BY <2>2, <3>7 DEF HandOut, Stmt
    <3>8. CASE NextRow(v)
      <4>1. stmt' = [stmt EXCEPT ![v].cursor.left = @ - 1, ![v].cursor.seen = @ + 1]
            /\ stmt[v].cursor.left > 0
        BY <3>8 DEF NextRow
      <4> QED
        BY <2>2, <2>3, <4>1 DEF Stmt, Cursor
    <3>9. CASE Exhaust(v)
      <4> DEFINE errs == JoinErrors(stmt[v].errs, RowsErr(stmt[v]))
                 kept == IF driver = "postgres" THEN RowsErr(stmt[v]) ELSE stmt[v].cursor.kept
                 ctx == Cancel(stmt[v].ctx)
      <4>1. errs \in SUBSET Causes
        BY <2>3, <2>4 DEF JoinErrors
      <4>2. kept \in SUBSET Causes
        BY <2>3, <2>4 DEF Cursor
      <4>3. ctx \in {"parent", "armed", "expired", "released"}
        BY <2>5
      <4>4. stmt' = [stmt EXCEPT ![v].errs = errs, ![v].cursor.kept = kept, ![v].ctx = ctx,
                                 ![v].elapsed = 0, ![v].shape = "other"]
        BY <2>2, <3>9 DEF Exhaust
      <4> HIDE DEF errs, kept, ctx
      <4> QED
        BY <2>2, <2>3, <4>1, <4>2, <4>3, <4>4 DEF Stmt, Cursor
    <3>10. CASE FinishQuery(v)
      BY <2>2, <2>5, <3>10 DEF FinishQuery
    <3>11. CASE Tick(v) \/ Expire(v)
      BY <2>2, <2>3, <3>11 DEF Tick, Expire, Stmt
    <3> QED
      BY <1>1, <3>1, <3>2, <3>3, <3>4, <3>5, <3>6, <3>7, <3>8, <3>9, <3>10, <3>11 DEF Handles
  <2>7. outcome' \in [VUs -> {"none", "ok"} \cup Kinds]
    <3>1. CASE Prepares(v)
      <4>1. {"other"} \in SUBSET Causes
        BY DEF Causes
      <4>2. Report({"other"}) \in {"ok"} \cup Kinds
        BY <4>1, Reports
      <4> QED
        BY <3>1, <4>2 DEF TypeOK, Prepares, Begin, EndTx, Issue, Lookup, CheckRoom, Store, Count,
                       RejectArguments, Bind
    <3>2. CASE Abandons(v)
      <4>1. PICK causes \in SUBSET Causes : QueryFails(v, causes)
        BY <3>2 DEF Abandons
      <4>2. Report(QueryError(stmt[v], causes)) \in {"ok"} \cup Kinds
        BY <2>4, Reports
      <4> QED
        BY <4>1, <4>2 DEF QueryFails, TypeOK
    <3>3. CASE RowsFailAtOnce(v)
      <4>1. Report(RowsErr(stmt[v])) \in {"ok"} \cup Kinds
        BY <2>4, Reports
      <4> QED
        BY <3>3, <4>1 DEF RowsFailAtOnce, TypeOK
    <3>4. CASE FinishQuery(v)
      <4>1. FinalErr(v) \in SUBSET Causes
        BY <2>3, <2>4 DEF FinalErr, JoinErrors
      <4>2. Report(FinalErr(v)) \in {"ok"} \cup Kinds
        BY <4>1, Reports
      <4> QED
        BY <3>4, <4>2 DEF FinishQuery, TypeOK
    <3>5. CASE Stops(v) \/ Tick(v) \/ Expire(v) \/ Send(v) \/ ServerAnswers(v) \/ HandOut(v)
               \/ NextRow(v) \/ Exhaust(v)
      BY <3>5 DEF TypeOK, Stops, Ends, Tick, Expire, Send, ServerAnswers, HandOut, NextRow, Exhaust
    <3> QED
      BY <1>1, <3>1, <3>2, <3>3, <3>4, <3>5 DEF Handles
  <2>8. pc' \in [VUs -> Places]
    <3>1. CASE Prepares(v)
      BY <3>1 DEF TypeOK, Places, Prepares, Begin, EndTx, Issue, Lookup, CheckRoom, Store, Count,
                  RejectArguments, Bind
    <3>2. CASE Abandons(v) \/ Stops(v) \/ Tick(v) \/ Expire(v)
      BY <3>2 DEF TypeOK, Places, Abandons, QueryFails, Stops, Ends, Tick, Expire
    <3>3. CASE Handles(v)
      BY <3>3 DEF TypeOK, Places, Handles, Send, ServerAnswers, RowsFailAtOnce, HandOut, NextRow,
                  Exhaust, FinishQuery
    <3> QED
      BY <1>1, <3>1, <3>2, <3>3
  <2>9. inTx' \in [VUs -> BOOLEAN] /\ holds' \in [VUs -> BOOLEAN]
    <3> USE DEF TypeOK
    <3>1. CASE Prepares(v)
      BY <3>1 DEF Prepares, Begin, EndTx, Issue, Lookup, CheckRoom, Store, Count, RejectArguments,
                  Bind, TakeConn
    <3>2. CASE Abandons(v) \/ Stops(v) \/ Tick(v) \/ Expire(v)
      BY <3>2 DEF Abandons, QueryFails, ReleaseConn, Stops, Ends, Tick, Expire
    <3>3. CASE Handles(v)
      BY <3>3 DEF Handles, Send, ServerAnswers, RowsFailAtOnce, HandOut, NextRow, Exhaust,
                  FinishQuery, TakeConn, ReleaseConn
    <3> QED
      BY <1>1, <3>1, <3>2, <3>3
  <2>10. free' \in Nat
    <3>1. \/ free' = free
          \/ free' = free + 1
          \/ free > 0 /\ free' = free - 1
      BY <1>1 DEF Prepares, Begin, EndTx, Issue, Lookup, CheckRoom, Store, Count, RejectArguments,
                  Bind, TakeConn, Abandons, QueryFails, ReleaseConn, Stops, Ends, Tick, Expire,
                  Handles, Send, ServerAnswers, RowsFailAtOnce, HandOut, NextRow, Exhaust,
                  FinishQuery
    <3> QED
      BY <3>1 DEF TypeOK
  <2>11. cache' \subseteq Templates /\ IsFiniteSet(cache') /\ cacheSize' \in Nat /\ issued' \in Nat
    <3>1. pc[v] = "store" => stmt[v].template \in Templates
      BY DEF TypeOK, Parsed
    <3>2. IsFiniteSet(cache \cup {stmt[v].template})
      BY FS_AddElement DEF TypeOK
    <3>3. /\ \/ cache' = cache
             \/ pc[v] = "store" /\ cache' = cache \cup {stmt[v].template}
          /\ cacheSize' = cacheSize \/ cacheSize' = cacheSize + 1
          /\ issued' = issued \/ issued' = issued + 1
      BY <1>1 DEF Prepares, Begin, EndTx, Issue, Lookup, CheckRoom, Store, Count, RejectArguments,
                  Bind, Abandons, QueryFails, Stops, Ends, Tick, Expire, Handles, Send,
                  ServerAnswers, RowsFailAtOnce, HandOut, NextRow, Exhaust, FinishQuery
    <3>4. cache \subseteq Templates /\ IsFiniteSet(cache) /\ cacheSize \in Nat /\ issued \in Nat
      BY DEF TypeOK
    <3>5. IsFiniteSet(cache')
      BY <3>2, <3>3, <3>4
    <3> QED
      BY <3>1, <3>3, <3>4, <3>5
  <2>12. Parsed'
    <3>1. \A u \in VUs \ {v} : pc'[u] = pc[u] /\ stmt'[u] = stmt[u]
      BY <1>1, Frame
    <3>2. ASSUME pc'[v] \in {"lookup", "room", "store"}
          PROVE  stmt'[v].template \in Templates
      <4> USE DEF TypeOK
      <4>1. CASE Issue(v)
        <5>1. PICK t \in Templates : stmt' = [stmt EXCEPT ![v] = [NoStmt EXCEPT !.template = t]]
          BY <4>1 DEF Issue
        <5> QED
          BY <2>2, <2>5, <5>1 DEF Stmt
      <4>2. CASE Lookup(v) \/ CheckRoom(v)
        BY <4>2 DEF Lookup, CheckRoom, Parsed
      <4>3. CASE Prepares(v) /\ ~Issue(v) /\ ~Lookup(v) /\ ~CheckRoom(v)
        BY <3>2, <4>3 DEF Prepares, Begin, EndTx, Store, Count, RejectArguments, Bind
      <4>4. CASE Abandons(v) \/ Stops(v) \/ Tick(v) \/ Expire(v)
        BY <3>2, <4>4 DEF Abandons, QueryFails, Stops, Ends, Open, Tick, Expire, InFlight
      <4>5. CASE Handles(v)
        BY <3>2, <4>5 DEF Handles, Send, ServerAnswers, RowsFailAtOnce, HandOut, NextRow, Exhaust,
                          FinishQuery
      <4> QED
        BY <1>1, <4>1, <4>2, <4>3, <4>4, <4>5
    <3> QED
      BY <3>1, <3>2 DEF TypeOK, Parsed
  <2> QED
    BY <2>1, <2>6, <2>7, <2>8, <2>9, <2>10, <2>11, <2>12 DEF TypeOK
<1>2. CASE CancelRun \/ UNCHANGED vars
  BY <1>2 DEF CancelRun, vars, TypeOK, Parsed
<1> QED
  BY <1>1, <1>2, StepKinds

-----------------------------------------------------------------------------
(* The life of a statement.                                                *)

\* Cancelling the run, and the steps of other VUs, disturb no statement.
LEMMA SoundElsewhere ==
    ASSUME NEW u \in VUs, Sound(u), UNCHANGED <<driver, timeout>>, canceled => canceled',
           pc'[u] = pc[u], stmt'[u] = stmt[u], inTx'[u] <=> inTx[u], holds'[u] <=> holds[u]
    PROVE  Sound(u)'
<1>1. Connection(u)'
  BY DEF Sound, Connection
<1>2. Context(u)'
  BY DEF Sound, Context, StatementTimeoutHint, Expressible, Hintable
<1>3. Rows(u)'
  BY DEF Sound, Rows
<1>4. Errors(u)'
  BY DEF Sound, Errors
<1> QED
  BY <1>1, <1>2, <1>3, <1>4 DEF Sound

\* A connection is taken and given back with the VU's need of it.
LEMMA ConnectionStep ==
    ASSUME TypeOK, NEW v \in VUs, Sound(v),
           Prepares(v) \/ Abandons(v) \/ Stops(v) \/ Handles(v) \/ Tick(v) \/ Expire(v)
    PROVE  Connection(v)'
<1> USE DEF Connection, Connected, Sound, TypeOK, config, caching, pool, Running, Parsing, Goto,
            Return
<1>1. CASE Prepares(v)
  BY <1>1 DEF Prepares, Begin, EndTx, Issue, Lookup, CheckRoom, Store, Count, RejectArguments,
              Bind, TakeConn
<1>2. CASE Abandons(v)
  BY <1>2 DEF Abandons, QueryFails, ReleaseConn
<1>3. CASE Stops(v) \/ Tick(v) \/ Expire(v)
  BY <1>3 DEF Stops, Ends, Tick, Expire
<1>4. CASE Handles(v)
  BY <1>4 DEF Handles, Send, ServerAnswers, RowsFailAtOnce, HandOut, NextRow, Exhaust,
              FinishQuery, TakeConn, ReleaseConn
<1> QED
  BY <1>1, <1>2, <1>3, <1>4

\* A step of the VU keeps its statement sound.
LEMMA StatementStep ==
    ASSUME TypeOK, NEW v \in VUs, Sound(v),
           Prepares(v) \/ Abandons(v) \/ Stops(v) \/ Handles(v) \/ Tick(v) \/ Expire(v)
    PROVE  Context(v)' /\ Rows(v)' /\ Errors(v)'
<1> DEFINE s == stmt[v]
           c == s.cursor
           t == stmt'[v]
<1>1. /\ UNCHANGED <<driver, timeout, canceled>>
      /\ s \in Stmt /\ c \in Cursor /\ pc[v] \in Places /\ stmt \in [VUs -> Stmt]
      /\ pc \in [VUs -> Places] /\ NoStmt \in Stmt
  BY Frame, Blank DEF TypeOK, Stmt
<1>2. Context(v) /\ Rows(v) /\ Errors(v)
  BY DEF Sound
<1>3. /\ s.ctx \in {"parent", "armed", "expired", "released"} /\ s.elapsed \in Nat
      /\ s.sentAt \in Nat /\ s.errs \in SUBSET Causes /\ c.left \in Nat /\ c.seen \in Nat
      /\ c.raw \in SUBSET Causes /\ c.kept \in SUBSET Causes /\ s.call \in Calls
  BY <1>1 DEF Stmt, Cursor
<1>4. NoCursor.raw = {} /\ NoCursor.kept = {} /\ NoStmt.cursor = NoCursor /\ NoStmt.errs = {}
      /\ NoStmt.ctx = "parent"
  BY DEF NoCursor, NoStmt
\* A statement that is blank but for its context and text.
<1>5. ASSUME t.cursor = NoCursor, t.errs = {}, pc'[v] \in Unbound \cup {"acquire"},
             t.ctx = "parent" \/ (t.ctx = "armed" /\ pc'[v] = "acquire")
      PROVE  Context(v)' /\ Rows(v)' /\ Errors(v)'
  <2>1. Context(v)'
    BY <1>5 DEF Context, Unbound, Flying
  <2>2. Rows(v)'
    BY <1>4, <1>5 DEF Rows, Unbound
  <2>3. Errors(v)'
    BY <1>5 DEF Errors, Unbound
  <2> QED
    BY <2>1, <2>2, <2>3
<1>6. ASSUME NEW x \in {"parent", "expired", "released"}
      PROVE  Remains(x).cursor = NoCursor /\ Remains(x).errs = {} /\ Remains(x).ctx = "parent"
  BY <1>1, <1>4 DEF Remains, Stmt
<1> USE DEF config, caching, pool, Running, Parsing, Goto, Return
<1>7. CASE Prepares(v)
  <2>1. CASE Issue(v)
    <3>1. PICK x \in Templates : stmt' = [stmt EXCEPT ![v] = [NoStmt EXCEPT !.template = x]]
      BY <2>1 DEF Issue
    <3>2. t.cursor = NoCursor /\ t.errs = {} /\ t.ctx = "parent"
      BY <1>1, <1>4, <3>1 DEF Stmt
    <3> QED
      BY <1>1, <1>5, <2>1, <3>2 DEF Issue, Unbound
  <2>2. CASE Bind(v)
    <3>1. PICK x \in {"select", "other"} :
            stmt' = [stmt EXCEPT ![v] = [NoStmt EXCEPT !.shape = x, !.ctx = StatementTimeout]]
      BY <2>2 DEF Bind
    <3>2. t.cursor = NoCursor /\ t.errs = {} /\ t.ctx \in {"parent", "armed"}
      BY <1>1, <1>4, <3>1 DEF Stmt, StatementTimeout
    <3> QED
      BY <1>1, <1>5, <2>2, <3>2 DEF Bind
  <2>3. CASE RejectArguments(v)
    BY <1>1, <1>4, <1>5, <2>3 DEF RejectArguments, Unbound
  <2>4. CASE ~Issue(v) /\ ~Bind(v) /\ ~RejectArguments(v)
    <3>1. t = s /\ pc[v] \in Unbound /\ pc'[v] \in Unbound
      BY <1>1, <1>7, <2>4 DEF Prepares, Begin, EndTx, Lookup, CheckRoom, Store, Count, Unbound
    <3>2. Context(v)'
      BY <1>2, <3>1 DEF Context, Unbound, Flying
    <3>3. Rows(v)'
      BY <1>1, <1>2, <1>4, <3>1 DEF Rows, Unbound
    <3>4. Errors(v)'
      BY <3>1 DEF Errors, Unbound
    <3> QED
      BY <3>2, <3>3, <3>4
  <2> QED
    BY <2>1, <2>2, <2>3, <2>4
<1>8. CASE Abandons(v) \/ RowsFailAtOnce(v)
  <2>1. stmt' = [stmt EXCEPT ![v] = Remains(Cancel(s.ctx))] /\ pc'[v] = "idle"
    BY <1>1, <1>8 DEF Abandons, QueryFails, RowsFailAtOnce
  <2>2. Cancel(s.ctx) \in {"parent", "expired", "released"}
    BY <1>3, Blank
  <2>3. t.cursor = NoCursor /\ t.errs = {} /\ t.ctx = "parent"
    BY <1>1, <1>6, <2>1, <2>2
  <2> QED
    BY <1>5, <2>1, <2>3 DEF Unbound
<1>9. CASE FinishQuery(v)
  <2>1. stmt' = [stmt EXCEPT ![v] = Remains(s.ctx)] /\ pc'[v] = "idle" /\ s.ctx # "armed"
    BY <1>1, <1>2, <1>9 DEF FinishQuery, Context
  <2>2. t.cursor = NoCursor /\ t.errs = {} /\ t.ctx = "parent"
    BY <1>1, <1>3, <1>6, <2>1
  <2> QED
    BY <1>5, <2>1, <2>2 DEF Unbound
<1>10. CASE Send(v)
  <2>1. PICK h \in BOOLEAN : stmt' = [stmt EXCEPT ![v].hung = h, ![v].sentAt = stmt[v].elapsed]
    BY <1>10 DEF Send
  <2>2. /\ pc[v] = "acquire" /\ pc'[v] = "sent" /\ CtxErr(s) = {}
        /\ t.cursor = c /\ t.errs = s.errs /\ t.ctx = s.ctx /\ t.elapsed = s.elapsed
        /\ t.sentAt = s.elapsed
    BY <1>1, <1>10, <2>1 DEF Send, Stmt
  <2>3. s.ctx # "expired"
    BY <1>1, <2>2, ContextErrors
  <2>4. Context(v)'
    BY <1>2, <1>3, <2>2, <2>3 DEF Context, Unbound, Flying
  <2>5. Rows(v)'
    BY <1>1, <1>2, <1>4, <2>2 DEF Rows
  <2>6. Errors(v)'
    BY <2>2 DEF Errors
  <2> QED
    BY <2>4, <2>5, <2>6
<1>11. CASE ServerAnswers(v)
  <2>1. PICK n \in 0..MaxRows, fault \in {{}, {"conflict"}} :
          stmt' = [stmt EXCEPT ![v].cursor = NewCursor(n, fault), ![v].sentAt = 0]
    BY <1>11 DEF ServerAnswers
  <2>2. /\ pc[v] = "sent" /\ pc'[v] = "answered" /\ t.cursor = NewCursor(n, fault)
        /\ t.errs = s.errs /\ t.ctx = s.ctx
    BY <1>1, <1>11, <2>1 DEF ServerAnswers, Stmt
  <2>3. /\ t.cursor.raw = {} /\ t.cursor.kept = {} /\ ~t.cursor.ended
        /\ t.cursor.seen = 0
    BY <2>2 DEF NewCursor, NoCursor
  <2>4. Context(v)'
    BY <1>2, <2>2 DEF Context, Unbound, Flying
  <2>5. Rows(v)'
    BY <1>1, <1>2, <2>2, <2>3 DEF Rows, Unbound
  <2>6. Errors(v)'
    BY <2>2 DEF Errors
  <2> QED
    BY <2>4, <2>5, <2>6
<1>12. CASE Stops(v)
  <2>1. PICK causes \in SUBSET Causes :
          /\ causes = {} => /\ pc[v] # "answered"
                            /\ pc[v] = "reading" => c.left = 0
          /\ causes \subseteq {"conflict", "aborted"} \cup CtxErr(s)
          /\ Ends(v, causes)
    BY <1>12 DEF Stops
  <2>2. /\ pc[v] \in {"answered", "reading", "closing"} /\ pc'[v] = pc[v] /\ ~c.ended
        /\ t.cursor.ended /\ t.cursor.raw = causes /\ t.cursor.kept = c.kept
        /\ t.cursor.left = c.left /\ t.cursor.seen = c.seen /\ t.errs = s.errs
        /\ t.ctx = s.ctx /\ t.call = s.call
    BY <1>1, <1>12, <2>1 DEF Stops, Open, Ends, Stmt, Cursor
  <2>3. s.ctx # "released"
    BY <1>2, <2>2 DEF Context, Flying
  <2>4. "canceled" \in causes => canceled
    BY <1>1, <2>1, <2>3, ContextErrors
  <2>5. Context(v)'
    BY <1>2, <2>2 DEF Context, Unbound, Flying
  <2>6. Rows(v)'
    BY <1>1, <1>2, <2>1, <2>2, <2>4 DEF Rows, Unbound
  <2>7. Errors(v)'
    BY <2>2 DEF Errors
  <2> QED
    BY <2>5, <2>6, <2>7
<1>13. CASE HandOut(v)
  <2>1. PICK call \in Calls : /\ stmt' = [stmt EXCEPT ![v].call = call]
                              /\ pc' = [pc EXCEPT ![v] = IF call = "exec" THEN "closing"
                                                          ELSE "reading"]
    BY <1>13 DEF HandOut
  <2>2. /\ pc[v] = "answered" /\ c.raw = {} /\ t.cursor = c /\ t.errs = s.errs
        /\ t.ctx = s.ctx /\ t.call = call
    BY <1>1, <1>13, <2>1 DEF HandOut, Stmt
  <2>3. Context(v)'
    BY <1>1, <1>2, <2>1, <2>2 DEF Context, Unbound, Flying
  <2>4. Rows(v)'
    BY <1>1, <1>2, <2>1, <2>2 DEF Rows, Unbound, Calls
  <2>5. Errors(v)'
    BY <1>1, <2>1 DEF Errors
  <2> QED
    BY <2>3, <2>4, <2>5
<1>14. CASE NextRow(v)
  <2>1. /\ pc[v] = "reading" /\ ~c.ended /\ t.cursor.seen = c.seen + 1 /\ t.cursor.raw = c.raw
        /\ t.cursor.ended = c.ended /\ t.cursor.kept = c.kept /\ t.errs = s.errs
        /\ t.ctx = s.ctx /\ t.call = s.call
        /\ pc'[v] = IF s.call = "first" THEN "closing" ELSE "reading"
    BY <1>1, <1>14 DEF NextRow, Stmt, Cursor
  <2>2. Context(v)'
    BY <1>2, <2>1 DEF Context, Unbound, Flying
  <2>3. Rows(v)'
    BY <1>1, <1>2, <1>3, <2>1 DEF Rows, Unbound
  <2>4. Errors(v)'
    BY <2>1 DEF Errors
  <2> QED
    BY <2>2, <2>3, <2>4
<1>15. CASE Exhaust(v)
  <2> DEFINE e == RowsErr(s)
  <2>1. /\ pc[v] \in {"reading", "closing"} /\ pc'[v] = "finish" /\ c.ended
        /\ c.kept = {} /\ s.errs = {} /\ s.ctx # "released"
    BY <1>1, <1>2, <1>15 DEF Exhaust, Rows, Context, Flying
  <2>2. stmt' = [stmt EXCEPT ![v].errs = JoinErrors(@, e),
                             ![v].cursor.kept = IF driver = "postgres" THEN e ELSE @,
                             ![v].ctx = Cancel(@), ![v].elapsed = 0, ![v].shape = "other"]
    BY <1>15 DEF Exhaust
  <2>3. /\ t.errs = s.errs \cup e /\ t.ctx = Cancel(s.ctx) /\ t.call = s.call
        /\ t.cursor.kept = IF driver = "postgres" THEN e ELSE c.kept
    BY <1>1, <2>2 DEF Stmt, Cursor, JoinErrors
  <2>4. /\ t.cursor.raw = c.raw /\ t.cursor.ended = c.ended /\ t.cursor.left = c.left
        /\ t.cursor.seen = c.seen
    BY <1>1, <2>2 DEF Stmt, Cursor
  <2>5. e = IF driver = "postgres" /\ c.raw # {} THEN c.raw \cup CtxErr(s) ELSE c.raw
    BY <2>1 DEF RowsErr, KeptOnce, StatementContextError
  <2>6. /\ "canceled" \in CtxErr(s) => canceled
        /\ s.ctx # "expired" /\ ~canceled => CtxErr(s) = {}
        /\ CtxErr(s) \in SUBSET {"deadline", "canceled"}
    BY <1>1, <2>1, ContextErrors
  <2>7. /\ Cancel(s.ctx) # "armed"
        /\ s.ctx = "expired" => Cancel(s.ctx) = "expired"
    BY DEF Cancel
  <2> HIDE DEF e
  <2>8. Context(v)'
    BY <2>1, <2>3, <2>7 DEF Context, Flying
  <2>9. Rows(v)'
    BY <1>1, <1>2, <2>1, <2>3, <2>4 DEF Rows, Unbound
  <2>10. Errors(v)'
    BY <1>1, <1>2, <2>1, <2>3, <2>4, <2>5, <2>6, <2>7 DEF Errors, Rows
  <2> QED
    BY <2>8, <2>9, <2>10
<1>16. CASE Tick(v)
  <2>1. /\ pc[v] \in Flying /\ pc'[v] = pc[v] /\ s.ctx = "armed" /\ ~Enforcing(v)
        /\ t.elapsed = s.elapsed + 1 /\ t.ctx = s.ctx /\ t.sentAt = s.sentAt
        /\ t.cursor = c /\ t.errs = s.errs /\ t.call = s.call /\ t.shape = s.shape
    BY <1>1, <1>16 DEF Tick, InFlight, Flying, Stmt
  <2>2. t.hung <=> s.hung
    BY <1>1, <1>16 DEF Tick, Stmt
  <2>3. StatementTimeoutHint(s)' <=> StatementTimeoutHint(s)
    BY <1>1, <2>1 DEF StatementTimeoutHint, Expressible, Hintable
  <2>4. Context(v)'
    BY <1>2, <1>3, <2>1, <2>2, <2>3 DEF Context, Unbound, Flying, Enforcing
  <2>5. Rows(v)'
    BY <1>1, <1>2, <2>1 DEF Rows
  <2>6. Errors(v)'
    BY <1>1, <1>2, <2>1 DEF Errors, Flying
  <2> QED
    BY <2>4, <2>5, <2>6
<1>17. CASE Expire(v)
  <2>1. /\ pc[v] \in Flying /\ pc'[v] = pc[v] /\ s.ctx = "armed"
        /\ s.elapsed = StatementDeadline(s)
        /\ t.elapsed = 0 /\ t.ctx = "expired" /\ t.sentAt = s.sentAt
        /\ t.cursor = c /\ t.errs = s.errs /\ t.call = s.call /\ t.shape = s.shape
    BY <1>1, <1>17 DEF Expire, InFlight, Flying, Stmt
  <2>2. t.hung <=> s.hung
    BY <1>1, <1>17 DEF Expire, Stmt
  <2>3. /\ StatementTimeoutHint(s)' <=> StatementTimeoutHint(s)
        /\ StatementTimeoutHint(s) => s.elapsed = 2
    BY <1>1, <2>1 DEF StatementTimeoutHint, Expressible, Hintable, StatementDeadline
  <2>4. Context(v)'
    BY <1>2, <1>3, <2>1, <2>2, <2>3 DEF Context, Unbound, Flying
  <2>5. Rows(v)'
    BY <1>1, <1>2, <2>1 DEF Rows
  <2>6. Errors(v)'
    BY <1>1, <1>2, <2>1 DEF Errors, Flying
  <2> QED
    BY <2>4, <2>5, <2>6
<1> QED
  BY <1>7, <1>8, <1>9, <1>10, <1>11, <1>12, <1>13, <1>14, <1>15, <1>16, <1>17 DEF Handles

LEMMA SoundStep ==
    ASSUME TypeOK, \A v \in VUs : Sound(v), [Next]_vars
    PROVE  \A v \in VUs : Sound(v)'
<1>1. ASSUME NEW v \in VUs, NEW u \in VUs,
             Prepares(v) \/ Abandons(v) \/ Stops(v) \/ Handles(v) \/ Tick(v) \/ Expire(v)
      PROVE  Sound(u)'
  <2>1. CASE u = v
    BY <1>1, <2>1, ConnectionStep, StatementStep DEF Sound
  <2>2. CASE u # v
    BY <1>1, <2>2, Frame, SoundElsewhere
  <2> QED
    BY <2>1, <2>2
<1>2. ASSUME CancelRun \/ UNCHANGED vars, NEW u \in VUs
      PROVE  Sound(u)'
  <2>1. UNCHANGED <<driver, timeout, pc, stmt, inTx, holds>> /\ (canceled => canceled')
    BY <1>2 DEF CancelRun, vars, config, pool
  <2> QED
    BY <2>1, SoundElsewhere
<1> QED
  BY <1>1, <1>2, StepKinds

-----------------------------------------------------------------------------
(* Counting connections and cache entries.                                 *)

LEMMA Adding ==
    ASSUME NEW S, IsFiniteSet(S), NEW x
    PROVE  /\ IsFiniteSet(S \cup {x}) /\ IsFiniteSet(S \ {x})
           /\ Cardinality(S) \in Nat
           /\ x \notin S => Cardinality(S \cup {x}) = Cardinality(S) + 1
           /\ x \in S => Cardinality(S \ {x}) = Cardinality(S) - 1
<1>1. Cardinality(S) \in Nat
  BY FS_CardinalityType
<1>2. IsFiniteSet(S \cup {x}) /\ (x \notin S => Cardinality(S \cup {x}) = Cardinality(S) + 1)
  BY FS_AddElement
<1>3. IsFiniteSet(S \ {x}) /\ (x \in S => Cardinality(S \ {x}) = Cardinality(S) - 1)
  BY FS_RemoveElement
<1> QED
  BY <1>1, <1>2, <1>3

LEMMA VUSets ==
    /\ IsFiniteSet(VUs) /\ Cardinality(VUs) \in Nat
    /\ \A S \in SUBSET VUs : IsFiniteSet(S) /\ Cardinality(S) \in Nat
<1>1. IsFiniteSet(VUs)
  BY StatementsAssumption
<1> QED
  BY <1>1, FS_Subset, FS_CardinalityType

\* No connection of the pool is lost or used twice.
LEMMA PooledStep ==
    ASSUME TypeOK, \A v \in VUs : Sound(v), Pooled, [Next]_vars
    PROVE  Pooled'
<1>1. /\ free \in Nat /\ PoolSize \in Nat /\ IsFiniteSet(Holders) /\ Cardinality(Holders) \in Nat
      /\ free + Cardinality(Holders) = PoolSize
  BY VUSets, StatementsAssumption DEF Pooled, TypeOK, Holders
<1>2. ASSUME NEW v \in VUs,
             Prepares(v) \/ Abandons(v) \/ Stops(v) \/ Handles(v) \/ Tick(v) \/ Expire(v)
      PROVE  Pooled'
  <2>1. \/ UNCHANGED <<free, holds>>
        \/ TakeConn(v) /\ ~holds[v]
        \/ holds[v] /\ holds' = [holds EXCEPT ![v] = FALSE] /\ free' = free + 1
    <3>1. Connection(v)
      BY DEF Sound
    <3> USE DEF config, caching, pool, Running, Parsing, Goto, Return
    <3>2. CASE Prepares(v)
      BY <3>1, <3>2 DEF Prepares, Begin, EndTx, Issue, Lookup, CheckRoom, Store, Count,
                        RejectArguments, Bind, Connection, Connected
    <3>3. CASE Abandons(v) \/ Stops(v) \/ Tick(v) \/ Expire(v)
      BY <3>3 DEF Abandons, QueryFails, ReleaseConn, Stops, Ends, Tick, Expire
    <3>4. CASE Handles(v)
      BY <3>4 DEF Handles, Send, ServerAnswers, RowsFailAtOnce, HandOut, NextRow, Exhaust,
                  FinishQuery, ReleaseConn
    <3> QED
      BY <1>2, <3>2, <3>3, <3>4
  <2>2. CASE UNCHANGED <<free, holds>>
    BY <1>1, <2>2 DEF Pooled, Holders
  <2>3. CASE TakeConn(v) /\ ~holds[v]
    <3>1. Holders' = Holders \cup {v} /\ v \notin Holders
      BY <2>3 DEF TakeConn, Holders, TypeOK
    <3>2. Cardinality(Holders') = Cardinality(Holders) + 1
      BY <1>1, <3>1, Adding
    <3>3. free' = free - 1
      BY <2>3 DEF TakeConn
    <3> QED
      BY <1>1, <3>2, <3>3 DEF Pooled
  <2>4. CASE holds[v] /\ holds' = [holds EXCEPT ![v] = FALSE] /\ free' = free + 1
    <3>1. Holders' = Holders \ {v} /\ v \in Holders
      BY <2>4 DEF Holders, TypeOK
    <3>2. Cardinality(Holders') = Cardinality(Holders) - 1
      BY <1>1, <3>1, Adding
    <3> QED
      BY <1>1, <2>4, <3>2 DEF Pooled
  <2> QED
    BY <2>1, <2>2, <2>3, <2>4
<1>3. CASE CancelRun \/ UNCHANGED vars
  BY <1>1, <1>3 DEF CancelRun, vars, pool, Pooled, Holders
<1> QED
  BY <1>2, <1>3, StepKinds

\* The counter follows the cache, and the VUs that passed the check of its size are few.
LEMMA CachedStep ==
    ASSUME TypeOK, Cached, [Next]_vars
    PROVE  Cached'
<1>1. /\ IsFiniteSet(cache) /\ Cardinality(cache) \in Nat /\ cacheSize \in Nat /\ CacheMax \in Nat
      /\ IsFiniteSet(Storing) /\ Cardinality(Storing) \in Nat
      /\ IsFiniteSet(Counting) /\ Cardinality(Counting) \in Nat
      /\ Cardinality(VUs) \in Nat
  <2>1. IsFiniteSet(cache) /\ cacheSize \in Nat
    BY DEF TypeOK
  <2> QED
    BY <2>1, VUSets, FS_CardinalityType, StatementsAssumption DEF Storing, Counting
<1>2. /\ cacheSize + Cardinality(Counting) = Cardinality(cache)
      /\ CacheMax = 0 => Storing = {}
      /\ CacheMax > 0 => Cardinality(cache) + Cardinality(Storing) < CacheMax + Cardinality(VUs)
  BY DEF Cached
<1> USE DEF config, caching, pool, Running, Parsing, Goto, Return
<1>3. ASSUME NEW v \in VUs, Store(v)
      PROVE  Cached'
  <2>1. v \in Storing /\ v \notin Counting /\ Storing' = Storing \ {v}
    BY <1>3 DEF Store, Storing, Counting, TypeOK
  <2>2. Cardinality(Storing') = Cardinality(Storing) - 1 /\ cacheSize' = cacheSize
    BY <1>1, <1>3, <2>1, Adding DEF Store
  <2>3. CacheMax # 0
    BY <1>2, <2>1
  <2>4. CASE stmt[v].template \in cache
    <3>1. Counting' = Counting /\ cache' = cache
      BY <1>3, <2>4 DEF Store, StoredByMe, Counting, TypeOK
    <3> QED
      BY <1>1, <1>2, <2>2, <2>3, <3>1 DEF Cached
  <2>5. CASE stmt[v].template \notin cache
    <3>1. Counting' = Counting \cup {v} /\ cache' = cache \cup {stmt[v].template}
      BY <1>3, <2>5 DEF Store, StoredByMe, Counting, TypeOK
    <3>2. /\ Cardinality(Counting') = Cardinality(Counting) + 1
          /\ Cardinality(cache') = Cardinality(cache) + 1
      BY <1>1, <2>1, <2>5, <3>1, Adding
    <3> QED
      BY <1>1, <1>2, <2>2, <2>3, <3>2 DEF Cached
  <2> QED
    BY <2>4, <2>5
<1>4. ASSUME NEW v \in VUs, Count(v)
      PROVE  Cached'
  <2>1. v \in Counting /\ Counting' = Counting \ {v} /\ Storing' = Storing
    BY <1>4 DEF Count, Storing, Counting, TypeOK
  <2>2. /\ Cardinality(Counting') = Cardinality(Counting) - 1
        /\ cacheSize' = cacheSize + 1 /\ cache' = cache
    BY <1>1, <1>4, <2>1, Adding DEF Count
  <2> QED
    BY <1>1, <1>2, <2>1, <2>2 DEF Cached
<1>5. ASSUME NEW v \in VUs, CheckRoom(v), HasRoom
      PROVE  Cached'
  <2>1. /\ v \notin Storing /\ v \notin Counting /\ Storing' = Storing \cup {v}
        /\ Counting' = Counting
    BY <1>5 DEF CheckRoom, Storing, Counting, TypeOK
  <2>2. Cardinality(Storing') = Cardinality(Storing) + 1 /\ UNCHANGED <<cache, cacheSize>>
    BY <1>1, <1>5, <2>1, Adding DEF CheckRoom
  <2>3. Cardinality(Storing') + Cardinality(Counting) <= Cardinality(VUs)
    <3>1. IsFiniteSet(Storing') /\ IsFiniteSet(Counting) /\ Storing' \cap Counting = {}
          /\ Storing' \cup Counting \subseteq VUs
      BY <1>1, <2>1, Adding DEF Storing, Counting
    <3>2. Cardinality(Storing' \cup Counting) =
            Cardinality(Storing') + Cardinality(Counting) - Cardinality(Storing' \cap Counting)
      BY <3>1, FS_Union
    <3>3. Cardinality(Storing' \cup Counting) <= Cardinality(VUs)
      BY <3>1, VUSets, FS_Subset
    <3>4. Cardinality(Storing' \cap Counting) = 0
      BY <3>1, FS_EmptySet
    <3> QED
      BY <1>1, <2>2, <3>2, <3>3, <3>4
  <2> QED
    BY <1>1, <1>2, <1>5, <2>1, <2>2, <2>3 DEF Cached, HasRoom
\* No other step touches the cache or the VUs that are about to.
<1>6. ASSUME UNCHANGED <<cache, cacheSize, Storing, Counting>>
      PROVE  Cached'
  BY <1>2, <1>6 DEF Cached
<1>7. ASSUME NEW v \in VUs, CheckRoom(v), ~HasRoom
      PROVE  UNCHANGED <<cache, cacheSize, Storing, Counting>>
  BY <1>7 DEF CheckRoom, Storing, Counting, TypeOK
<1>8. ASSUME NEW v \in VUs,
             Prepares(v) \/ Abandons(v) \/ Stops(v) \/ Handles(v) \/ Tick(v) \/ Expire(v),
             ~Store(v), ~Count(v), ~CheckRoom(v)
      PROVE  UNCHANGED <<cache, cacheSize, Storing, Counting>>
  <2>1. UNCHANGED <<cache, cacheSize>> /\ pc[v] \notin {"store", "count"}
        /\ pc'[v] \notin {"store", "count"}
    <3>1. CASE Prepares(v)
      BY <1>8, <3>1 DEF Prepares, Begin, EndTx, Issue, Lookup, RejectArguments, Bind, TypeOK
    <3>2. CASE Abandons(v) \/ Stops(v) \/ Tick(v) \/ Expire(v)
      BY <3>2 DEF Abandons, QueryFails, Stops, Open, Ends, Tick, Expire, InFlight, TypeOK
    <3>3. CASE Handles(v)
      BY <3>3 DEF Handles, Send, ServerAnswers, RowsFailAtOnce, HandOut, NextRow, Exhaust,
                  FinishQuery, TypeOK
    <3> QED
      BY <1>8, <3>1, <3>2, <3>3
  <2>2. \A u \in VUs \ {v} : pc'[u] = pc[u]
    BY <1>8, Frame
  <2> QED
    BY <2>1, <2>2 DEF Storing, Counting
<1>9. ASSUME CancelRun \/ UNCHANGED vars
      PROVE  UNCHANGED <<cache, cacheSize, Storing, Counting>>
  BY <1>9 DEF CancelRun, vars, Storing, Counting
<1> QED
  BY <1>3, <1>4, <1>5, <1>6, <1>7, <1>8, <1>9, StepKinds

-----------------------------------------------------------------------------
(* The theorems.                                                           *)

LEMMA InitInvariant == Init => IInv
<1> SUFFICES ASSUME Init
             PROVE  IInv
  OBVIOUS
<1>1. /\ driver \in {"postgres", "mysql", "ydb", "picodata"}
      /\ timeout \in {"none", "tiny", "usual"}
  BY StatementsAssumption DEF Init
<1>2. /\ pc = [v \in VUs |-> "idle"] /\ stmt = [v \in VUs |-> NoStmt]
      /\ outcome = [v \in VUs |-> "none"] /\ cache = {} /\ cacheSize = 0
      /\ free = PoolSize /\ issued = 0
  BY DEF Init
<1>3. inTx = [v \in VUs |-> FALSE] /\ holds = [v \in VUs |-> FALSE] /\ canceled = FALSE
  BY DEF Init
<1>4. TypeOK
  <2>1. stmt \in [VUs -> Stmt]
    BY <1>2, Blank
  <2>2. cache \subseteq Templates /\ IsFiniteSet(cache)
    BY <1>2, FS_EmptySet
  <2>3. pc \in [VUs -> Places] /\ outcome \in [VUs -> {"none", "ok"} \cup Kinds]
    BY <1>2 DEF Places
  <2>4. inTx \in [VUs -> BOOLEAN] /\ holds \in [VUs -> BOOLEAN] /\ canceled \in BOOLEAN
    BY <1>3
  <2>5. cacheSize \in Nat /\ free \in Nat /\ issued \in Nat
    BY <1>2, StatementsAssumption
  <2>6. Parsed
    BY <1>2 DEF Parsed
  <2> QED
    BY <1>1, <2>1, <2>2, <2>3, <2>4, <2>5, <2>6 DEF TypeOK
<1>5. ASSUME NEW v \in VUs
      PROVE  Sound(v)
  <2>1. pc[v] = "idle" /\ stmt[v] = NoStmt
    BY <1>2
  <2>2. ~inTx[v] /\ ~holds[v]
    BY <1>3
  <2>3. /\ NoStmt.cursor = NoCursor /\ NoStmt.errs = {} /\ NoStmt.ctx = "parent"
        /\ NoCursor.raw = {} /\ NoCursor.kept = {}
    BY DEF NoStmt, NoCursor
  <2> QED
    BY <2>1, <2>2, <2>3 DEF Sound, Connection, Connected, Context, Unbound, Flying, Rows, Errors
<1>6. Pooled
  <2>1. Holders = {}
    BY <1>3 DEF Holders
  <2> QED
    BY <1>2, <2>1, FS_EmptySet, StatementsAssumption DEF Pooled
<1>7. Cached
  <2>1. Storing = {} /\ Counting = {}
    BY <1>2 DEF Storing, Counting
  <2>2. Cardinality({}) = 0
    BY FS_EmptySet
  <2> QED
    BY <1>2, <2>1, <2>2, VUSets, StatementsAssumption DEF Cached
<1> QED
  BY <1>4, <1>5, <1>6, <1>7 DEF IInv

\* Spec keeps the inductive invariant.
THEOREM Invariance == Spec => []IInv
<1>1. IInv /\ [Next]_vars => IInv'
  BY TypeStep, SoundStep, PooledStep, CachedStep DEF IInv
<1> QED
  BY <1>1, InitInvariant, PTL DEF Spec

\* Between statements no timer is armed and a VU holds a connection exactly while it has
\* begun something; none of the pool is lost.
THEOREM LeavesNothingBehind == Spec => []NothingLeftBehind
<1>1. IInv => NothingLeftBehind
  BY DEF IInv, Sound, Connection, Connected, Context, Unbound, Pooled, Holders, NothingLeftBehind,
         Idle
<1> QED
  BY <1>1, Invariance, PTL

\* The padded deadline of a hinted statement never overtakes a server that was given the
\* statement at once.
THEOREM HintComesFirst == Spec => []HintKeepsConnection
<1>1. IInv => HintKeepsConnection
  <2> SUFFICES ASSUME IInv, NEW v \in VUs, Overtaken(v)
               PROVE  stmt[v].sentAt > 0
    BY DEF HintKeepsConnection
  <2>1. stmt[v].sentAt \in Nat
    BY DEF IInv, TypeOK, Stmt
  <2>2. stmt[v].sentAt # 0
    BY DEF IInv, Sound, Context, Overtaken
  <2> QED
    BY <2>1, <2>2
<1> QED
  BY <1>1, Invariance, PTL

\* The cache exceeds its limit by fewer entries than there are VUs, for any number of VUs,
\* though nothing makes the check of its size and the store one step.
THEOREM CacheStaysBounded == Spec => []CacheBounded
<1>1. IInv => CacheBounded
  <2> SUFFICES ASSUME IInv
               PROVE  CacheBounded
    OBVIOUS
  <2>1. Cached /\ Cardinality(cache) \in Nat
    BY FS_CardinalityType DEF IInv, TypeOK
  <2>2. Cardinality(Storing) \in Nat /\ Cardinality(VUs) \in Nat /\ CacheMax \in Nat
    BY VUSets, StatementsAssumption DEF Storing
  <2> QED
    BY <2>1, <2>2 DEF Cached, Counting, CacheBounded
<1> QED
  BY <1>1, Invariance, PTL

\* What one call may answer.
TrueAnswer(v) ==
    LET c == stmt[v].cursor IN
        /\ outcome'[v] = "ok" =>
              /\ c.raw = {}
              /\ stmt[v].call = "rows" => c.left = 0
              /\ stmt[v].call = "first" => c.seen = 1 \/ c.left = 0
        /\ outcome'[v] = "canceled" => canceled
        /\ /\ c.raw = {"conflict"} /\ stmt[v].ctx # "expired"
           /\ ~canceled /\ driver # "picodata"
           => outcome'[v] = "conflict"

LEMMA AnswerStep ==
    ASSUME IInv, NEW v \in VUs, Returns(v),
           Prepares(v) \/ Abandons(v) \/ Stops(v) \/ Handles(v) \/ Tick(v) \/ Expire(v)
    PROVE  TrueAnswer(v)
<1> DEFINE s == stmt[v]
           c == s.cursor
<1>1. /\ TypeOK /\ s \in Stmt /\ c \in Cursor /\ s.errs \in SUBSET Causes
      /\ Context(v) /\ Rows(v) /\ Errors(v)
      /\ pc[v] # "idle" /\ pc'[v] = "idle" /\ pc \in [VUs -> Places]
      /\ outcome \in [VUs -> {"none", "ok"} \cup Kinds]
  BY DEF IInv, Sound, TypeOK, Stmt, Returns, Idle
<1>2. c.raw \in SUBSET Causes /\ c.kept \in SUBSET Causes
  BY <1>1 DEF Cursor
<1>3. NoCursor.raw = {}
  BY DEF NoCursor
\* An answer that is Report of some causes.
<1>4. ASSUME NEW causes \in SUBSET Causes, outcome' = [outcome EXCEPT ![v] = Report(causes)],
             causes = {} => /\ c.raw = {}
                            /\ s.call = "rows" => c.left = 0
                            /\ s.call = "first" => c.seen = 1 \/ c.left = 0,
             "canceled" \in causes => canceled,
             c.raw = {"conflict"} /\ s.ctx # "expired" /\ ~canceled => causes = {"conflict"}
      PROVE  TrueAnswer(v)
  <2>1. /\ outcome'[v] = "ok" <=> causes = {}
        /\ outcome'[v] = "canceled" => "canceled" \in causes
        /\ causes = {"conflict"} /\ driver # "picodata" => outcome'[v] = "conflict"
    BY <1>1, <1>4, Reports
  <2> QED
    BY <1>4, <2>1 DEF TrueAnswer
<1>5. CASE Prepares(v)
  <2>1. RejectArguments(v)
    BY <1>1, <1>5 DEF Prepares, Begin, EndTx, Issue, Lookup, CheckRoom, Store, Count, Bind, Goto
  <2>2. outcome' = [outcome EXCEPT ![v] = Report({"other"})] /\ c = NoCursor
    BY <1>1, <2>1 DEF RejectArguments, Return, Rows, Unbound
  <2>3. {"other"} \in SUBSET Causes
    BY DEF Causes
  <2> QED
    BY <1>3, <1>4, <2>2, <2>3
<1>6. CASE Abandons(v)
  <2>1. PICK causes \in SUBSET Causes :
          /\ causes # {}
          /\ causes \subseteq {"conflict", "aborted"} \cup CtxErr(s)
          /\ QueryFails(v, causes)
    BY <1>6 DEF Abandons
  <2> DEFINE all == QueryError(s, causes)
  <2>2. outcome' = [outcome EXCEPT ![v] = Report(all)]
    BY <2>1 DEF QueryFails, Return
  <2>3. c = NoCursor /\ s.ctx # "released"
    BY <1>1, <1>6 DEF Abandons, Rows, Unbound, Context, Flying
  <2>4. /\ all \in SUBSET Causes /\ causes \subseteq all
        /\ all \subseteq {"conflict", "aborted"} \cup CtxErr(s)
    BY <1>1, <2>1, ContextErrors
  <2>5. "canceled" \in CtxErr(s) => canceled
    BY <1>1, <2>3, ContextErrors
  <2> HIDE DEF all
  <2> QED
    BY <1>3, <1>4, <2>1, <2>2, <2>3, <2>4, <2>5
<1>7. CASE RowsFailAtOnce(v)
  <2>1. /\ outcome' = [outcome EXCEPT ![v] = Report(RowsErr(s))] /\ pc[v] = "answered"
        /\ c.raw # {}
    BY <1>7 DEF RowsFailAtOnce, Return
  <2>2. c.kept = {} /\ s.ctx # "released" /\ ("canceled" \in c.raw => canceled)
    BY <1>1, <2>1 DEF Rows, Context, Flying
  <2>3. RowsErr(s) \in {c.raw, c.raw \cup CtxErr(s)} /\ RowsErr(s) \in SUBSET Causes
    BY <1>1, <2>1, <2>2, ContextErrors DEF RowsErr, KeptOnce, StatementContextError
  <2>4. /\ "canceled" \in CtxErr(s) => canceled
        /\ s.ctx # "expired" /\ ~canceled => CtxErr(s) = {}
    BY <1>1, <2>2, ContextErrors
  <2> QED
    BY <1>4, <2>1, <2>2, <2>3, <2>4
<1>8. CASE FinishQuery(v)
  <2>1. outcome' = [outcome EXCEPT ![v] = Report(FinalErr(v))] /\ pc[v] = "finish"
    BY <1>8 DEF FinishQuery, Return
  <2>2. /\ c.raw \subseteq s.errs /\ c.ended
        /\ driver = "postgres" /\ c.raw # {} => c.kept # {}
        /\ "canceled" \in s.errs \cup c.kept => canceled
        /\ s.ctx # "expired" /\ ~canceled => s.errs \subseteq c.raw /\ c.kept \subseteq c.raw
    BY <1>1, <2>1 DEF Errors, Rows
  <2>3. RowsErr(s) \in {c.raw, c.kept}
    BY <2>2 DEF RowsErr, KeptOnce, StatementContextError
  <2>4. FinalErr(v) \in {s.errs \cup c.raw, s.errs \cup c.kept} /\ FinalErr(v) \in SUBSET Causes
    BY <1>1, <1>2, <2>3 DEF FinalErr, JoinErrors
  <2>5. c.raw = {} => /\ s.call = "rows" => c.left = 0
                      /\ s.call = "first" => c.seen = 1 \/ c.left = 0
    BY <1>1, <2>1, <2>2 DEF Rows
  <2> QED
    BY <1>4, <2>1, <2>2, <2>4, <2>5
<1>9. CASE Stops(v) \/ Tick(v) \/ Expire(v) \/ Send(v) \/ ServerAnswers(v) \/ HandOut(v)
           \/ NextRow(v) \/ Exhaust(v)
  BY <1>1, <1>9 DEF Stops, Ends, Tick, Expire, Send, ServerAnswers, HandOut, NextRow, Exhaust,
                    Goto
<1> QED
  BY <1>5, <1>6, <1>7, <1>8, <1>9 DEF Handles

\* Whatever ends the rows early, no call reports success for them, and no cancel() of a
\* finished statement turns the server's conflict into a cancellation.
THEOREM AnswersTruly == Spec => AnswerIsTrue
<1>1. ASSUME IInv, [Next]_vars
      PROVE  [\A v \in VUs : Returns(v) => TrueAnswer(v)]_vars
  <2>1. ASSUME NEW v \in VUs, NEW u \in VUs, Returns(u),
               Prepares(v) \/ Abandons(v) \/ Stops(v) \/ Handles(v) \/ Tick(v) \/ Expire(v)
        PROVE  TrueAnswer(u)
    <3>1. u = v
      BY <1>1, <2>1, Frame DEF Returns, Idle, IInv
    <3> QED
      BY <1>1, <2>1, <3>1, AnswerStep
  <2>2. CancelRun => \A u \in VUs : ~Returns(u)
    BY DEF CancelRun, Returns, Idle
  <2> QED
    BY <1>1, <2>1, <2>2, StepKinds DEF IInv
<1> QED
  BY <1>1, Invariance, PTL DEF Spec, AnswerIsTrue, TrueAnswer

=============================================================================
