------------------------------- MODULE TpccTx -------------------------------
(***************************************************************************)
(* The TPC-C transactions of internal/workloads/tpcc on PostgreSQL: the    *)
(* virtual users run the bodies of the mix's transactions as sequences     *)
(* of statements, inside Bench.Begin/BeginTx, under bench.Retry0.          *)
(*                                                                         *)
(* The database (external) keeps row locks and snapshots: a statement that *)
(* writes a row waits for the row's lock; under REPEATABLE READ it fails   *)
(* with a serialization error when the row changed since the transaction's *)
(* snapshot, under READ COMMITTED it goes on with the newest version.      *)
(* There is one warehouse, district, customer and item, and an order has   *)
(* one line; every amount is one.                                          *)
(***************************************************************************)
EXTENDS Integers, Sequences

CONSTANTS
    VUs,           \* the virtual users with this home warehouse
    MaxIterations, \* bound: iterations all VUs begin together
    MaxAttempts,   \* retry-attempts
    TxIsolation,   \* tx-isolation, "" for the driver's default
    Kinds          \* the transactions of the mix that are run

ASSUME TpccTxAssumption ==
    /\ VUs # {}
    /\ MaxIterations \in Nat
    /\ MaxAttempts \in Int
    /\ TxIsolation \in {"", "read_committed", "repeatable_read"}
    /\ Kinds \subseteq {"new_order", "payment", "order_status", "delivery", "stock_level"}

\* Order 1 is loaded; every new_order iteration adds at most one.
OrderIds == 1..(1 + MaxIterations)

\* Mutant: the default isolation is TPC-B's.
ReadCommittedDefault == "read_committed"

\* resolveIsolation for the postgres and mysql drivers.
ResolveIsolation == IF TxIsolation # "" THEN TxIsolation ELSE "repeatable_read"

\* max(policy.MaxAttempts, 1).
Attempts == IF MaxAttempts > 1 THEN MaxAttempts ELSE 1

UsesSnapshot == ResolveIsolation = "repeatable_read"

VARIABLES
    db,       \* the committed contents
    ctxDone,  \* the iterations' context is cancelled
    pc,       \* where each VU stands
    kind,     \* the transaction it runs
    forced,   \* forceRollback of new_order
    attempt,  \* Retry0's attempt
    step,     \* the next statement of the body
    err,      \* the error at hand, "none" for nil
    done,     \* write statements of the open transaction
    oID,      \* the order id the transaction read
    quantity, \* the stock quantity it read
    snapshot, \* its snapshot of db
    stale,    \* rows others committed since that snapshot
    applied,  \* history: times the iteration's effects reached db
    undone,   \* history: the iteration's last rollback was acknowledged
    outcome,  \* what the VU's last iteration returned, "none" before
    left      \* iterations that may still begin

txVars == <<step, done, oID, quantity, snapshot, stale>>
vuVars == <<pc, kind, forced, attempt, err, applied, undone, outcome, left>>
vars == <<db, ctxDone, txVars, vuVars>>

Loaded == [nextOID |-> 2, orders |-> {1}, newOrders |-> {1}, lines |-> {1},
           wYtd |-> 0, dYtd |-> 0, history |-> 0,
           sQuantity |-> 11, sYtd |-> 0, delivered |-> [o \in OrderIds |-> 0]]

\* What ClassifyError makes of an error: "lock" is a deadlock or lock timeout, and
\* "unknown" stands for a statement timeout too, which is treated alike; the last
\* two are unknown kinds kept apart for the properties.
Errors == {"none", "serialization", "lock", "unknown", "canceled", "duplicate",
           "sentinel"}

Rows == {"warehouse", "district", "customer", "stock", "order"} \X Nat

Contents == [nextOID : Nat, orders : SUBSET Nat, newOrders : SUBSET Nat, lines : SUBSET Nat,
             wYtd : Nat, dYtd : Nat, history : Nat,
             sQuantity : Int, sYtd : Nat, delivered : [OrderIds -> Nat]]

\* The statements that lock rows or write.
Writing == {"get_district", "update_district", "insert_order", "insert_new_order",
            "update_stock", "insert_order_line", "update_get_warehouse",
            "update_get_district", "update_customer", "insert_history",
            "delete_new_order", "update_order", "deliver_to_customer"}

TypeOK ==
    /\ db \in Contents
    /\ ctxDone \in BOOLEAN
    /\ pc \in [VUs -> {"idle", "attempt", "body", "commit", "rollback", "decide"}]
    /\ kind \in [VUs -> {"new_order"} \cup Kinds]
    /\ forced \in [VUs -> BOOLEAN]
    /\ attempt \in [VUs -> 1..Attempts]
    /\ step \in [VUs -> 1..8]
    /\ err \in [VUs -> Errors]
    /\ done \in [VUs -> SUBSET Writing]
    /\ oID \in [VUs -> Nat]
    /\ quantity \in [VUs -> Int]
    /\ snapshot \in [VUs -> Contents]
    /\ stale \in [VUs -> SUBSET Rows]
    /\ applied \in [VUs -> Nat]
    /\ undone \in [VUs -> BOOLEAN]
    /\ outcome \in [VUs -> {"none", "ok", "error"}]
    /\ left \in 0..MaxIterations

Init ==
    /\ db = Loaded
    /\ ctxDone = FALSE
    /\ pc = [v \in VUs |-> "idle"]
    /\ kind = [v \in VUs |-> "new_order"]
    /\ forced = [v \in VUs |-> FALSE]
    /\ attempt = [v \in VUs |-> 1]
    /\ step = [v \in VUs |-> 1]
    /\ err = [v \in VUs |-> "none"]
    /\ done = [v \in VUs |-> {}]
    /\ oID = [v \in VUs |-> 0]
    /\ quantity = [v \in VUs |-> 0]
    /\ snapshot = [v \in VUs |-> Loaded]
    /\ stale = [v \in VUs |-> {}]
    /\ applied = [v \in VUs |-> 0]
    /\ undone = [v \in VUs |-> FALSE]
    /\ outcome = [v \in VUs |-> "none"]
    /\ left = MaxIterations

-----------------------------------------------------------------------------
(* The statements of the bodies and the rows they lock.                    *)

NewOrderBody == <<"get_customer", "get_district", "update_district", "insert_order",
                  "insert_new_order", "get_stocks", "update_stock", "insert_order_line">>

PaymentBody == <<"update_get_warehouse", "update_get_district", "update_customer",
                 "insert_history">>

DeliveryBody == <<"get_min_new_order", "delete_new_order", "update_order",
                  "deliver_to_customer">>

\* The customer is found by name or by id; every customer has an order with lines.
OrderStatusBody == <<"get_customer", "get_last_order", "get_order_lines">>

\* The window holds lines from the load on.
StockLevelBody == <<"get_next_order", "get_window_items", "stock_count_in">>

Body(v) == CASE kind[v] = "new_order"    -> NewOrderBody
             [] kind[v] = "payment"      -> PaymentBody
             [] kind[v] = "order_status" -> OrderStatusBody
             [] kind[v] = "delivery"     -> DeliveryBody
             [] kind[v] = "stock_level"  -> StockLevelBody

Statement(v) == Body(v)[step[v]]

\* The statements that only read; stock_level's get_district is get_next_order here.
Reads == {"get_customer", "get_stocks", "get_min_new_order", "get_last_order",
          "get_order_lines", "get_next_order", "get_window_items", "stock_count_in"}

\* Mutant: get_district reads without FOR UPDATE.
PlainRead == Reads \cup {"insert_order_line", "insert_history", "get_district"}

\* Reads, and inserts of rows no other transaction can name.
LockFree == Reads \cup {"insert_order_line", "insert_history"}

\* The rows statement s of VU v's transaction locks; get_district is FOR UPDATE.
RowsOf(v, s) ==
    CASE s \in LockFree -> {}
      [] s \in {"get_district", "update_district", "update_get_district"} ->
             {<<"district", 1>>}
      [] s = "update_get_warehouse" -> {<<"warehouse", 1>>}
      [] s \in {"update_customer", "deliver_to_customer"} -> {<<"customer", 1>>}
      [] s = "update_stock" -> {<<"stock", 1>>}
      [] OTHER -> {<<"order", oID[v]>>}

Locked(v) == UNION {RowsOf(v, s) : s \in done[v]}

Wrote(v) == UNION {RowsOf(v, s) : s \in done[v] \ {"get_district"}}

\* What a read of VU v's transaction sees.
Seen(v) == IF UsesSnapshot /\ step[v] > 1 THEN snapshot[v] ELSE db

\* ORDER BY o_id DESC LIMIT 1.
Newest(S) == CHOOSE o \in S : \A p \in S : p <= o

\* SELECT min(no_o_id).
Oldest(S) == CHOOSE o \in S : \A p \in S : o <= p

\* An order of two: below ten the stock is refilled by 91.
NewQuantity(q) == IF q - 2 < 10 THEN q - 2 + 91 ELSE q - 2

\* The contents after VU v's transaction commits.
Apply(v) ==
    LET one(s) == IF s \in done[v] THEN 1 ELSE 0
        order(s) == IF s \in done[v] THEN {oID[v]} ELSE {}
    IN  [nextOID   |-> db.nextOID + one("update_district"),
         orders    |-> db.orders \cup order("insert_order"),
         newOrders |-> (db.newOrders \cup order("insert_new_order"))
                           \ order("delete_new_order"),
         lines     |-> db.lines \cup order("insert_order_line"),
         wYtd      |-> db.wYtd + one("update_get_warehouse"),
         dYtd      |-> db.dYtd + one("update_get_district"),
         history   |-> db.history + one("insert_history"),
         sQuantity |-> IF "update_stock" \in done[v] THEN NewQuantity(quantity[v])
                                                     ELSE db.sQuantity,
         sYtd      |-> db.sYtd + 2 * one("update_stock"),
         delivered |-> [o \in OrderIds |->
             db.delivered[o] + IF o \in order("deliver_to_customer") THEN 1 ELSE 0]]

-----------------------------------------------------------------------------
(* An iteration: Retry0 around the transaction.                            *)

Goto(v, to) == pc' = [pc EXCEPT ![v] = to]
SetErr(v, e) == err' = [err EXCEPT ![v] = e]

\* Iterate picks a transaction; new_order decides once whether to roll back.
StartIteration(v) ==
    /\ pc[v] = "idle"
    /\ left > 0
    /\ left' = left - 1
    /\ \E k \in Kinds : kind' = [kind EXCEPT ![v] = k]
    /\ \E f \in BOOLEAN : /\ f => kind'[v] = "new_order"
                          /\ forced' = [forced EXCEPT ![v] = f]
    /\ attempt' = [attempt EXCEPT ![v] = 1]
    /\ applied' = [applied EXCEPT ![v] = 0]
    /\ undone' = [undone EXCEPT ![v] = FALSE]
    /\ outcome' = [outcome EXCEPT ![v] = "none"]
    /\ Goto(v, "attempt")
    /\ UNCHANGED <<db, ctxDone, err, txVars>>

\* The iteration returns err, nil for "none".
EndIteration(v, e) ==
    /\ Goto(v, "idle")
    /\ outcome' = [outcome EXCEPT ![v] = IF e = "none" THEN "ok" ELSE "error"]
    /\ SetErr(v, "none")

\* The head of Retry0's loop, then Begin: the driver opens a transaction, or
\* its error goes to the retry decision.
BeginAttempt(v) ==
    /\ pc[v] = "attempt"
    /\ \/ ctxDone /\ EndIteration(v, "canceled")
       \/ ~ctxDone /\ Goto(v, "body") /\ SetErr(v, "none") /\ UNCHANGED outcome
       \/ ~ctxDone /\ Goto(v, "decide") /\ SetErr(v, "unknown") /\ UNCHANGED outcome
    /\ UNCHANGED <<db, ctxDone, txVars, kind, forced, attempt, applied, undone, left>>

\* The database holds nothing of VU v's transaction any more.
EndTx(v) ==
    /\ step' = [step EXCEPT ![v] = 1]
    /\ done' = [done EXCEPT ![v] = {}]
    /\ oID' = [oID EXCEPT ![v] = 0]
    /\ quantity' = [quantity EXCEPT ![v] = 0]
    /\ snapshot' = [snapshot EXCEPT ![v] = Loaded]

\* A call whose answer is lost reports a broken connection, a timeout, or the
\* context that was cancelled while it waited.
LostAnswers == {"unknown"} \cup (IF ctxDone THEN {"canceled"} ELSE {})

\* Errors a statement meets whatever it does.
StatementErrors == {"lock"} \cup LostAnswers

BodyFails(v, e) ==
    /\ Goto(v, "rollback")
    /\ SetErr(v, e)
    /\ UNCHANGED txVars

\* The rows are free and, under REPEATABLE READ, unchanged since the snapshot.
Free(v, rows) == \A u \in VUs \ {v} : rows \cap Locked(u) = {}
Current(v, rows) == UsesSnapshot /\ step[v] > 1 => rows \cap stale[v] = {}

\* The statement succeeds.  The first one takes the snapshot; delivery skips a
\* district that has no new order; a forced new_order ends at its missing item.
StatementDone(v) ==
    LET s == Statement(v)
        none == s = "get_min_new_order" /\ Seen(v).newOrders = {}
        missing == forced[v] /\ s = "get_stocks"
        last == none \/ step[v] = Len(Body(v))
    IN  /\ done' = [done EXCEPT ![v] = IF s \in Reads THEN @ ELSE @ \cup {s}]
        /\ snapshot' = [snapshot EXCEPT ![v] = IF step[v] = 1 THEN db ELSE @]
        /\ stale' = [stale EXCEPT ![v] = IF step[v] = 1 THEN {} ELSE @]
        /\ oID' = [oID EXCEPT ![v] =
               CASE s = "get_district" -> Seen(v).nextOID
                 [] s = "get_min_new_order" /\ ~none -> Oldest(Seen(v).newOrders)
                 [] s = "get_last_order" -> Newest(Seen(v).orders)
                 [] OTHER -> @]
        /\ quantity' = [quantity EXCEPT ![v] =
               IF s = "get_stocks" THEN Seen(v).sQuantity ELSE @]
        /\ step' = [step EXCEPT ![v] = IF last \/ missing THEN @ ELSE @ + 1]
        /\ \/ missing /\ Goto(v, "rollback") /\ SetErr(v, "sentinel")
           \/ last /\ Goto(v, "commit") /\ UNCHANGED err
           \/ ~missing /\ ~last /\ UNCHANGED <<pc, err>>

\* One statement of the body, once its rows are free.
ExecStatement(v) ==
    LET rows == RowsOf(v, Statement(v))
        taken == Statement(v) = "insert_order" /\ oID[v] \in db.orders
    IN  /\ pc[v] = "body"
        /\ Free(v, rows)
        /\ \/ ~Current(v, rows) /\ BodyFails(v, "serialization")
           \/ Current(v, rows) /\ taken /\ BodyFails(v, "duplicate")
           \/ Current(v, rows) /\ ~taken /\ StatementDone(v)
        /\ UNCHANGED <<db, ctxDone, kind, forced, attempt, applied, undone, outcome, left>>

\* A statement fails whatever it does, waiting or not.
StatementFails(v) ==
    /\ pc[v] = "body"
    /\ \E e \in StatementErrors : BodyFails(v, e)
    /\ UNCHANGED <<db, ctxDone, kind, forced, attempt, applied, undone, outcome, left>>

\* The commit takes effect: the rows become stale for the others' snapshots.
TakeEffect(v) ==
    /\ db' = Apply(v)
    /\ applied' = [applied EXCEPT ![v] = @ + 1]
    /\ stale' = [u \in VUs |-> IF u = v THEN {} ELSE stale[u] \cup Wrote(v)]

\* tx.Commit: acknowledged, refused, or in doubt: an error may hide a commit.
CommitTx(v) ==
    /\ pc[v] = "commit"
    /\ \/ TakeEffect(v) /\ EndIteration(v, "none")
       \/ /\ \E e \in LostAnswers : SetErr(v, e)
          /\ TakeEffect(v)
          /\ Goto(v, "decide")
          /\ UNCHANGED outcome
       \/ /\ \E e \in StatementErrors : SetErr(v, e)
          /\ stale' = [stale EXCEPT ![v] = {}]
          /\ Goto(v, "decide")
          /\ UNCHANGED <<db, applied, outcome>>
    /\ EndTx(v)
    /\ UNCHANGED <<ctxDone, kind, forced, attempt, undone, left>>

\* Mutant: a rollback error is dropped on the way out of a spec rollback.
SentinelWins(v, rb) == IF err[v] = "sentinel" THEN "none" ELSE err[v]

\* finishNewOrder: a spec rollback succeeds only if it completed; otherwise the
\* two errors are joined, and a cancellation among them is what is classified.
\* The other transactions go through BeginTx, which ignores rb.
FinishTx(v, rb) ==
    IF err[v] = "sentinel" \/ (kind[v] = "new_order" /\ rb = "canceled") THEN rb
    ELSE err[v]

\* Mutant: the rollback of a failed body is forgotten.
Forgotten(v) == step' = [step EXCEPT ![v] = 1] /\ UNCHANGED <<done, oID, quantity, snapshot>>

\* The rollback ends the transaction in the database.
EndsTx(v) == EndTx(v)

\* tx.Rollback, acknowledged or not (the connection is then dropped, and the
\* database rolls back on its own), and the transaction's result.
RollbackTx(v) ==
    /\ pc[v] = "rollback"
    /\ EndsTx(v)
    /\ stale' = [stale EXCEPT ![v] = {}]
    /\ \E rb \in {"none"} \cup LostAnswers :
          /\ undone' = [undone EXCEPT ![v] = rb = "none"]
          /\ IF FinishTx(v, rb) = "none"
             THEN EndIteration(v, "none")
             ELSE /\ Goto(v, "decide")
                  /\ SetErr(v, FinishTx(v, rb))
                  /\ UNCHANGED outcome
    /\ UNCHANGED <<db, ctxDone, kind, forced, attempt, applied, left>>

\* Mutant: the default action of an unknown error is to retry.
UnknownToo(e) == e \in {"serialization", "lock", "unknown"}

\* RetryPolicy.decision with the default actions, on the kinds the PostgreSQL
\* driver classifies: serialization failures, deadlocks and lock timeouts.
Retryable(e) == e \in {"serialization", "lock"}

AttemptsLeft(n) == n < Attempts

\* applyRetryDecision: replay the transaction or return the error.
Decide(v) ==
    /\ pc[v] = "decide"
    /\ \/ /\ Retryable(err[v]) /\ AttemptsLeft(attempt[v])
          /\ attempt' = [attempt EXCEPT ![v] = @ + 1]
          /\ Goto(v, "attempt")
          /\ UNCHANGED <<err, outcome>>
       \/ /\ ~(Retryable(err[v]) /\ AttemptsLeft(attempt[v]))
          /\ EndIteration(v, err[v])
          /\ UNCHANGED attempt
    /\ UNCHANGED <<db, ctxDone, txVars, kind, forced, applied, undone, left>>

CancelRun ==
    /\ ~ctxDone
    /\ ctxDone' = TRUE
    /\ UNCHANGED <<db, txVars, vuVars>>

VU(v) == \/ StartIteration(v) \/ BeginAttempt(v) \/ ExecStatement(v)
         \/ CommitTx(v) \/ RollbackTx(v) \/ Decide(v)

Finished == (\A v \in VUs : pc[v] = "idle") /\ left = 0 /\ UNCHANGED vars

Next == (\E v \in VUs : VU(v) \/ StatementFails(v)) \/ CancelRun \/ Finished

Spec == Init /\ [][Next]_vars

\* Every VU is scheduled, and the database hands a lock that is released again and
\* again to every transaction that waits for it; no statement has to fail.
FairSpec == Spec /\ \A v \in VUs : SF_vars(VU(v))

-----------------------------------------------------------------------------
(* Properties.                                                             *)

\* The committed contents keep the consistency conditions validatePopulation checks
\* once after the load, at every moment of the run: CC1 (and the history behind it),
\* CC2a, CC3 and CC4.  Stock is never sold twice from one reading of its quantity: the
\* quantity accounts for everything sold, up to refills of 91, and stays at ten or more.
Consistent ==
    /\ db.wYtd = db.dYtd /\ db.wYtd = db.history
    /\ db.orders = 1..(db.nextOID - 1)
    /\ \A o \in db.newOrders : o..(db.nextOID - 1) \subseteq db.newOrders
    /\ db.lines = db.orders
    /\ (11 - db.sYtd - db.sQuantity) % 91 = 0
    /\ db.sQuantity >= 10

\* No order is delivered, and charged to its customer, twice by deliveries that
\* read the same oldest order.
DeliveredOnce ==
    \A o \in OrderIds :
        db.delivered[o] = IF o \in db.orders \ db.newOrders THEN 1 ELSE 0

\* An iteration's effects reach the database at most once, however often it is
\* retried and whatever became of a commit whose answer was lost.
AppliedOnce == \A v \in VUs : applied[v] <= 1

\* An iteration that reports success applied its effects, or is a spec rollback
\* that the database acknowledged: no unknown outcome is reported as success.
SuccessIsReal ==
    \A v \in VUs : outcome[v] = "ok" =>
        IF forced[v] THEN applied[v] = 0 /\ undone[v] ELSE applied[v] = 1

\* No transaction outlives its iteration: between iterations, and while Retry0
\* decides, the VU holds no lock the others would wait for.
NoOrphanTx == \A v \in VUs : pc[v] \in {"idle", "attempt", "decide"} => done[v] = {}

\* "both INSERT INTO orders fail with Duplicate entry": FOR UPDATE prevents it
\* even where the isolation level alone would not.
NoDuplicateOrder == \A v \in VUs : err[v] # "duplicate"

\* Every iteration ends: waits for locks and retries are finite.
IterationsEnd == \A v \in VUs : pc[v] # "idle" ~> pc[v] = "idle"

=============================================================================
