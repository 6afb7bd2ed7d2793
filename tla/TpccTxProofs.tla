---------------------------- MODULE TpccTxProofs ----------------------------
(***************************************************************************)
(* Proofs about TpccTx for every set of VUs, every number of iterations    *)
(* and attempts and every mix of transactions.  What the row locks give    *)
(* holds under both isolation levels; Consistent and DeliveredOnce need    *)
(* the snapshots of REPEATABLE READ, the default of the workload.          *)
(***************************************************************************)
EXTENDS TpccTx, WellFoundedInduction, TLAPS

\* The statements of each transaction that lock rows or write.
Writes(k) ==
    IF k = "new_order" THEN {"get_district", "update_district", "insert_order",
                             "insert_new_order", "update_stock", "insert_order_line"}
    ELSE IF k = "payment" THEN {"update_get_warehouse", "update_get_district",
                                "update_customer", "insert_history"}
    ELSE IF k = "delivery" THEN {"delete_new_order", "update_order", "deliver_to_customer"}
    ELSE {}

\* Their places in the bodies.
Rank(s) ==
    IF s = "update_get_warehouse" THEN 1
    ELSE IF s \in {"get_district", "update_get_district", "delete_new_order"} THEN 2
    ELSE IF s \in {"update_district", "update_customer", "update_order"} THEN 3
    ELSE IF s \in {"insert_order", "insert_history", "deliver_to_customer"} THEN 4
    ELSE IF s = "insert_new_order" THEN 5
    ELSE IF s = "update_stock" THEN 7
    ELSE 8

\* What the first n - 1 statements of a transaction of kind k wrote.
Executed(k, n) == {s \in Writes(k) : Rank(s) < n}

Length(k) == IF k = "new_order" THEN 8 ELSE IF k \in {"payment", "delivery"} THEN 4 ELSE 3

\* The open transaction holds exactly what its statements before the next one wrote;
\* at the commit all of them, unless delivery found no new order; otherwise nothing.
Progress ==
    \A v \in VUs :
        /\ pc[v] \in {"body", "rollback"} =>
               done[v] = Executed(kind[v], step[v]) /\ step[v] <= Length(kind[v])
        /\ pc[v] = "commit" =>
               \/ done[v] = Writes(kind[v]) /\ step[v] = Length(kind[v])
               \/ kind[v] = "delivery" /\ done[v] = {} /\ step[v] = 1
        /\ pc[v] \in {"idle", "attempt", "decide"} => done[v] = {} /\ step[v] = 1

\* Where Retry0 stands: an error at hand, effects applied, the outcome reported.
Control ==
    \A v \in VUs :
        /\ err[v] = "sentinel" => pc[v] = "rollback" /\ forced[v]
        /\ pc[v] \in {"rollback", "decide"} => err[v] # "none"
        /\ forced[v] => kind[v] = "new_order" /\ pc[v] # "commit" /\ applied[v] = 0
        /\ forced[v] /\ pc[v] = "body" => step[v] <= 6
        /\ pc[v] \in {"attempt", "body", "commit", "rollback"} => applied[v] = 0
        /\ pc[v] = "decide" /\ applied[v] # 0 => ~Retryable(err[v])
        /\ pc[v] # "idle" => outcome[v] = "none"

\* Row locks exclude each other.
LocksExclude == \A u, v \in VUs : u # v => Locked(u) \cap Locked(v) = {}

\* A VU that holds the district knows the next order id.
OwnsNumber == \A v \in VUs : "get_district" \in done[v] => oID[v] = db.nextOID

\* A row that is not stale is as the snapshot has it.
FreshRows ==
    \A v \in VUs : step[v] > 1 =>
        /\ <<"district", 1>> \notin stale[v] => snapshot[v].nextOID = db.nextOID
        /\ <<"stock", 1>> \notin stale[v] => snapshot[v].sQuantity = db.sQuantity

\* What the bodies read stays true until the row they read it from is stale.
FreshRead(v) ==
    /\ kind[v] = "new_order" /\ step[v] >= 7 /\ <<"stock", 1>> \notin stale[v] =>
           quantity[v] = db.sQuantity
    /\ kind[v] = "delivery" /\ step[v] >= 2 /\ <<"order", oID[v]>> \notin stale[v] =>
           oID[v] \in db.newOrders /\ \A o \in db.newOrders : oID[v] <= o

FreshReads == \A v \in VUs : FreshRead(v)

\* REPEATABLE READ never locks a row that changed since the snapshot.
NotStale == UsesSnapshot => \A v \in VUs : Locked(v) \cap stale[v] = {}

\* Orders are numbered without gaps, and only orders are new orders.
Numbered(c) ==
    /\ c.nextOID >= 2
    /\ c.orders = 1..(c.nextOID - 1)
    /\ c.newOrders \subseteq c.orders

Numbering == Numbered(db) /\ \A v \in VUs : Numbered(snapshot[v])

Books == UsesSnapshot => Consistent /\ DeliveredOnce

IInv ==
    /\ TypeOK /\ Progress /\ Control /\ LocksExclude /\ OwnsNumber
    /\ FreshRows /\ FreshReads /\ NotStale /\ Numbering /\ Books
    /\ AppliedOnce /\ SuccessIsReal /\ NoDuplicateOrder

-----------------------------------------------------------------------------
(* Statements, rows and the contents after a commit.                       *)

LessThan == {ss \in Nat \X Nat : ss[1] < ss[2]}

\* A non-empty set of numbers has an oldest one.
LEMMA OldestExists ==
    ASSUME NEW S, S \subseteq Nat, S # {}
    PROVE  Oldest(S) \in S /\ \A p \in S : Oldest(S) <= p
<1>1. IsWellFoundedOn(LessThan, Nat)
  BY NatLessThanWellFounded DEF OpToRel, LessThan
<1>2. PICK o \in S : \A p \in S : ~(<<p, o>> \in LessThan)
  BY <1>1, WFMin
<1>3. ASSUME NEW p \in S, p < o
      PROVE  FALSE
  <2>1. <<p, o>> \in LessThan
    BY <1>3 DEF LessThan
  <2> QED
    BY <1>2, <2>1
<1>4. \A p \in S : o <= p
  BY <1>3
<1> QED
  BY <1>4 DEF Oldest

\* The newest of the orders numbered so far.
LEMMA NewestIsLast ==
    ASSUME NEW n \in Nat, n >= 2
    PROVE  Newest(1..(n - 1)) \in Nat
<1>1. n - 1 \in 1..(n - 1) /\ \A p \in 1..(n - 1) : p <= n - 1
  OBVIOUS
<1>2. Newest(1..(n - 1)) \in 1..(n - 1)
  BY <1>1 DEF Newest
<1> QED
  BY <1>2

\* The transactions' bodies, by kind.
LEMMA BodyOf ==
    ASSUME TypeOK, NEW v \in VUs
    PROVE  \/ kind[v] = "new_order" /\ Body(v) = NewOrderBody
           \/ kind[v] = "payment" /\ Body(v) = PaymentBody
           \/ kind[v] = "order_status" /\ Body(v) = OrderStatusBody
           \/ kind[v] = "delivery" /\ Body(v) = DeliveryBody
           \/ kind[v] = "stock_level" /\ Body(v) = StockLevelBody
<1>1. kind[v] \in {"new_order", "payment", "order_status", "delivery", "stock_level"}
  BY TpccTxAssumption DEF TypeOK
<1> QED
  BY <1>1 DEF Body

\* What the statements of a body are.
IsPlace(k, i, s) ==
    /\ s \in Reads \cup Writing
    /\ s = "get_district" <=> k = "new_order" /\ i = 2
    /\ s = "insert_order" <=> k = "new_order" /\ i = 4
    /\ s = "get_stocks" <=> k = "new_order" /\ i = 6
    /\ s = "get_min_new_order" <=> k = "delivery" /\ i = 1
    /\ s = "get_last_order" <=> k = "order_status" /\ i = 2
    /\ s \in Reads => \A w \in Writes(k) : Rank(w) # i
    /\ s \notin Reads => s \in Writes(k) /\ \A w \in Writes(k) : Rank(w) = i <=> w = s

LEMMA NewOrderPlaces ==
    ASSUME NEW i \in 1..8
    PROVE  IsPlace("new_order", i, NewOrderBody[i])
<1> DEFINE s == NewOrderBody[i]
<1>1. /\ s \in Reads \cup Writing
      /\ s = "get_district" <=> i = 2
      /\ s = "insert_order" <=> i = 4
      /\ s = "get_stocks" <=> i = 6
      /\ s # "get_min_new_order" /\ s # "get_last_order"
  BY DEF NewOrderBody, Reads, Writing
<1>2. s \in Reads => i = 1 \/ i = 6
  BY DEF NewOrderBody, Reads
<1>3. s \notin Reads => s \in Writes("new_order") /\ Rank(s) = i
  BY DEF NewOrderBody, Reads, Writes, Rank
<1>4. \A w \in Writes("new_order") : Rank(w) # 1 /\ Rank(w) # 6
  BY DEF Writes, Rank
<1>5. \A w \in Writes("new_order"), x \in Writes("new_order") : Rank(w) = Rank(x) => w = x
  BY DEF Writes, Rank
<1> QED
  BY <1>1, <1>2, <1>3, <1>4, <1>5 DEF IsPlace

LEMMA PaymentPlaces ==
    ASSUME NEW i \in 1..4
    PROVE  IsPlace("payment", i, PaymentBody[i])
<1> DEFINE s == PaymentBody[i]
<1>1. /\ s \in Reads \cup Writing /\ s \notin Reads
      /\ s \notin {"get_district", "insert_order", "get_stocks", "get_min_new_order",
                   "get_last_order"}
  BY DEF PaymentBody, Reads, Writing
<1>2. s \in Writes("payment") /\ Rank(s) = i
  BY DEF PaymentBody, Writes, Rank
<1>3. \A w \in Writes("payment"), x \in Writes("payment") : Rank(w) = Rank(x) => w = x
  BY DEF Writes, Rank
<1> QED
  BY <1>1, <1>2, <1>3 DEF IsPlace

LEMMA DeliveryPlaces ==
    ASSUME NEW i \in 1..4
    PROVE  IsPlace("delivery", i, DeliveryBody[i])
<1> DEFINE s == DeliveryBody[i]
<1>1. /\ s \in Reads \cup Writing
      /\ s = "get_min_new_order" <=> i = 1
      /\ s \notin {"get_district", "insert_order", "get_stocks", "get_last_order"}
  BY DEF DeliveryBody, Reads, Writing
<1>2. s \in Reads => i = 1
  BY DEF DeliveryBody, Reads
<1>3. s \notin Reads => s \in Writes("delivery") /\ Rank(s) = i
  BY DEF DeliveryBody, Reads, Writes, Rank
<1>4. \A w \in Writes("delivery") : Rank(w) # 1
  BY DEF Writes, Rank
<1>5. \A w \in Writes("delivery"), x \in Writes("delivery") : Rank(w) = Rank(x) => w = x
  BY DEF Writes, Rank
<1> QED
  BY <1>1, <1>2, <1>3, <1>4, <1>5 DEF IsPlace

LEMMA ReaderPlaces ==
    ASSUME NEW i \in 1..3
    PROVE  /\ IsPlace("order_status", i, OrderStatusBody[i])
           /\ IsPlace("stock_level", i, StockLevelBody[i])
<1>1. Writes("order_status") = {} /\ Writes("stock_level") = {}
  BY DEF Writes
<1>2. OrderStatusBody[i] \in Reads /\ StockLevelBody[i] \in Reads
  BY DEF OrderStatusBody, StockLevelBody, Reads
<1>3. /\ OrderStatusBody[i] \in Reads \cup Writing
      /\ OrderStatusBody[i] = "get_last_order" <=> i = 2
      /\ OrderStatusBody[i] \notin {"get_district", "insert_order", "get_stocks",
                                    "get_min_new_order"}
  BY DEF OrderStatusBody, Reads, Writing
<1>4. /\ StockLevelBody[i] \in Reads \cup Writing
      /\ StockLevelBody[i] \notin {"get_district", "insert_order", "get_stocks",
                                   "get_min_new_order", "get_last_order"}
  BY DEF StockLevelBody, Reads, Writing
<1>5. IsPlace("order_status", i, OrderStatusBody[i])
  BY <1>1, <1>2, <1>3 DEF IsPlace
<1>6. IsPlace("stock_level", i, StockLevelBody[i])
  BY <1>1, <1>2, <1>4 DEF IsPlace
<1> QED
  BY <1>5, <1>6

\* The next statement is what its place in the body says.
LEMMA NextPlace ==
    ASSUME TypeOK, NEW v \in VUs, step[v] <= Length(kind[v])
    PROVE  Len(Body(v)) = Length(kind[v]) /\ IsPlace(kind[v], step[v], Statement(v))
<1>1. step[v] \in 1..Length(kind[v])
  BY DEF TypeOK, Length
<1>2. CASE kind[v] = "new_order" /\ Body(v) = NewOrderBody
  BY <1>1, <1>2, NewOrderPlaces DEF NewOrderBody, Length, Statement
<1>3. CASE kind[v] = "payment" /\ Body(v) = PaymentBody
  BY <1>1, <1>3, PaymentPlaces DEF PaymentBody, Length, Statement
<1>4. CASE kind[v] = "order_status" /\ Body(v) = OrderStatusBody
  BY <1>1, <1>4, ReaderPlaces DEF OrderStatusBody, Length, Statement
<1>5. CASE kind[v] = "delivery" /\ Body(v) = DeliveryBody
  BY <1>1, <1>5, DeliveryPlaces DEF DeliveryBody, Length, Statement
<1>6. CASE kind[v] = "stock_level" /\ Body(v) = StockLevelBody
  BY <1>1, <1>6, ReaderPlaces DEF StockLevelBody, Length, Statement
<1> QED
  BY <1>2, <1>3, <1>4, <1>5, <1>6, BodyOf

\* Executing the next statement.
LEMMA ExecutedNext ==
    ASSUME TypeOK, NEW v \in VUs, step[v] <= Length(kind[v])
    PROVE  /\ Executed(kind[v], 1) = {}
           /\ Executed(kind[v], step[v])
                  \cup (IF Statement(v) \in Reads THEN {} ELSE {Statement(v)})
              = Executed(kind[v], step[v] + 1)
           /\ Executed(kind[v], Length(kind[v]) + 1) = Writes(kind[v])
<1>1. \A k : \A s \in Writes(k) : Rank(s) \in 1..Length(k)
  <2> SUFFICES ASSUME NEW k, NEW s \in Writes(k)
               PROVE  Rank(s) \in 1..Length(k)
    OBVIOUS
  <2>1. CASE k = "new_order"
    BY <2>1 DEF Writes, Rank, Length
  <2>2. CASE k = "payment"
    BY <2>2 DEF Writes, Rank, Length
  <2>3. CASE k = "delivery"
    BY <2>3 DEF Writes, Rank, Length
  <2> QED
    BY <2>1, <2>2, <2>3 DEF Writes
<1>2. step[v] \in 1..8 /\ Length(kind[v]) \in Nat
  BY DEF TypeOK, Length
<1>3. IsPlace(kind[v], step[v], Statement(v))
  BY NextPlace
<1>4. \A s \in Writes(kind[v]) : Rank(s) \in 1..Length(kind[v])
  BY <1>1, <1>2
<1>5. Executed(kind[v], 1) = {}
  BY <1>4 DEF Executed
<1>6. Executed(kind[v], Length(kind[v]) + 1) = Writes(kind[v])
  BY <1>2, <1>4 DEF Executed
<1>7. CASE Statement(v) \in Reads
  BY <1>2, <1>3, <1>4, <1>7 DEF Executed, IsPlace
<1>8. CASE Statement(v) \notin Reads
  BY <1>2, <1>3, <1>4, <1>8 DEF Executed, IsPlace
<1> QED
  BY <1>5, <1>6, <1>7, <1>8

-----------------------------------------------------------------------------
(* Rows and locks.                                                         *)

OrderStatements == {"insert_order", "insert_new_order", "delete_new_order", "update_order"}

\* The rows of each statement that writes.
LEMMA RowsOfWrites ==
    ASSUME NEW v, NEW s \in Writing
    PROVE  /\ s \in {"insert_order_line", "insert_history"} => RowsOf(v, s) = {}
           /\ s \in {"get_district", "update_district", "update_get_district"} =>
                  RowsOf(v, s) = {<<"district", 1>>}
           /\ s = "update_get_warehouse" => RowsOf(v, s) = {<<"warehouse", 1>>}
           /\ s \in {"update_customer", "deliver_to_customer"} =>
                  RowsOf(v, s) = {<<"customer", 1>>}
           /\ s = "update_stock" => RowsOf(v, s) = {<<"stock", 1>>}
           /\ s \in OrderStatements => RowsOf(v, s) = {<<"order", oID[v]>>}
<1> USE DEF RowsOf, LockFree, Reads, OrderStatements
<1>1. CASE s \in {"insert_order_line", "insert_history"}
  BY <1>1
<1>2. CASE s \in {"get_district", "update_district", "update_get_district"}
  BY <1>2
<1>3. CASE s = "update_get_warehouse"
  BY <1>3
<1>4. CASE s \in {"update_customer", "deliver_to_customer"}
  BY <1>4
<1>5. CASE s = "update_stock"
  BY <1>5
<1>6. CASE s \in OrderStatements
  BY <1>6
<1> QED
  BY <1>1, <1>2, <1>3, <1>4, <1>5, <1>6 DEF Writing

\* A plain read locks nothing.
LEMMA ReadsLockNothing ==
    ASSUME NEW v, NEW s \in Reads
    PROVE  RowsOf(v, s) = {}
  BY DEF RowsOf, LockFree, Reads

\* Locks depend on the transaction's own statements and order id only.
LEMMA LocksFrame ==
    ASSUME NEW v, done'[v] = done[v], oID'[v] = oID[v]
    PROVE  Locked(v)' = Locked(v)
<1>1. \A s : RowsOf(v, s)' = RowsOf(v, s)
  BY DEF RowsOf
<1> QED
  BY <1>1 DEF Locked

\* What was written was locked.
LEMMA WroteLocked ==
    ASSUME NEW v
    PROVE  Wrote(v) \subseteq Locked(v)
  BY DEF Wrote, Locked

\* At the commit the rows whose contents change are written rows.
LEMMA CommitRows ==
    ASSUME TypeOK, Progress, NEW v \in VUs, pc[v] = "commit"
    PROVE  /\ kind[v] = "new_order" =>
                  /\ "get_district" \in done[v]
                  /\ <<"district", 1>> \in Wrote(v)
                  /\ <<"stock", 1>> \in Wrote(v)
                  /\ <<"order", oID[v]>> \in Wrote(v)
           /\ kind[v] = "delivery" /\ done[v] # {} => <<"order", oID[v]>> \in Wrote(v)
<1>1. CASE kind[v] = "new_order"
  <2>1. {"get_district", "update_district", "insert_order", "update_stock"} \subseteq done[v]
    BY <1>1 DEF Progress, Writes
  <2>2. /\ RowsOf(v, "update_district") = {<<"district", 1>>}
        /\ RowsOf(v, "update_stock") = {<<"stock", 1>>}
        /\ RowsOf(v, "insert_order") = {<<"order", oID[v]>>}
    BY RowsOfWrites DEF Writing, OrderStatements
  <2> QED
    BY <1>1, <2>1, <2>2 DEF Wrote
<1>2. CASE kind[v] = "delivery" /\ done[v] # {}
  <2>1. "delete_new_order" \in done[v]
    BY <1>2 DEF Progress, Writes
  <2>2. RowsOf(v, "delete_new_order") = {<<"order", oID[v]>>}
    BY RowsOfWrites DEF Writing, OrderStatements
  <2> QED
    BY <1>2, <2>1, <2>2 DEF Wrote
<1> QED
  BY <1>1, <1>2

-----------------------------------------------------------------------------
(* The contents after a commit, by transaction.                            *)

NewOrderEffect(v) ==
    /\ kind[v] = "new_order"
    /\ db'.nextOID = db.nextOID + 1
    /\ db'.orders = db.orders \cup {oID[v]}
    /\ db'.newOrders = db.newOrders \cup {oID[v]}
    /\ db'.lines = db.lines \cup {oID[v]}
    /\ db'.sQuantity = NewQuantity(quantity[v])
    /\ db'.sYtd = db.sYtd + 2
    /\ db'.wYtd = db.wYtd /\ db'.dYtd = db.dYtd /\ db'.history = db.history
    /\ \A o \in OrderIds : db'.delivered[o] = db.delivered[o]

PaymentEffect(v) ==
    /\ kind[v] = "payment"
    /\ db'.wYtd = db.wYtd + 1
    /\ db'.dYtd = db.dYtd + 1
    /\ db'.history = db.history + 1
    /\ db'.nextOID = db.nextOID
    /\ db'.orders = db.orders /\ db'.newOrders = db.newOrders /\ db'.lines = db.lines
    /\ db'.sQuantity = db.sQuantity /\ db'.sYtd = db.sYtd
    /\ \A o \in OrderIds : db'.delivered[o] = db.delivered[o]

DeliveryEffect(v) ==
    /\ kind[v] = "delivery"
    /\ done[v] # {}
    /\ db'.newOrders = db.newOrders \ {oID[v]}
    /\ \A o \in OrderIds :
           db'.delivered[o] = db.delivered[o] + (IF o = oID[v] THEN 1 ELSE 0)
    /\ db'.nextOID = db.nextOID
    /\ db'.orders = db.orders /\ db'.lines = db.lines
    /\ db'.wYtd = db.wYtd /\ db'.dYtd = db.dYtd /\ db'.history = db.history
    /\ db'.sQuantity = db.sQuantity /\ db'.sYtd = db.sYtd

NoEffect ==
    /\ db'.nextOID = db.nextOID
    /\ db'.orders = db.orders /\ db'.newOrders = db.newOrders /\ db'.lines = db.lines
    /\ db'.wYtd = db.wYtd /\ db'.dYtd = db.dYtd /\ db'.history = db.history
    /\ db'.sQuantity = db.sQuantity /\ db'.sYtd = db.sYtd
    /\ \A o \in OrderIds : db'.delivered[o] = db.delivered[o]

\* What a commit does to the contents.
LEMMA CommitEffect ==
    ASSUME TypeOK, Progress, NEW v \in VUs, pc[v] = "commit", db' = Apply(v)
    PROVE  NewOrderEffect(v) \/ PaymentEffect(v) \/ DeliveryEffect(v) \/ NoEffect
<1> USE DEF Apply
<1>1. \A o \in OrderIds : db.delivered[o] \in Nat
  BY DEF TypeOK, Contents
<1>2. /\ db.nextOID \in Nat /\ db.sYtd \in Nat /\ db.sQuantity \in Int
      /\ db.wYtd \in Nat /\ db.dYtd \in Nat /\ db.history \in Nat
  BY DEF TypeOK, Contents
<1>3. CASE done[v] = {}
  BY <1>1, <1>2, <1>3 DEF NoEffect
<1>4. CASE kind[v] = "new_order" /\ done[v] = Writes("new_order")
  BY <1>1, <1>2, <1>4 DEF NewOrderEffect, Writes
<1>5. CASE kind[v] = "payment" /\ done[v] = Writes("payment")
  BY <1>1, <1>2, <1>5 DEF PaymentEffect, Writes
<1>6. CASE kind[v] = "delivery" /\ done[v] = Writes("delivery")
  BY <1>1, <1>2, <1>6 DEF DeliveryEffect, Writes
<1> QED
  BY <1>3, <1>4, <1>5, <1>6 DEF Progress, Writes

-----------------------------------------------------------------------------
(* The steps, as the database sees them.                                   *)

\* Nothing in the database changes; a VU that changes transaction has none open.
Quiet ==
    /\ UNCHANGED <<db, txVars>>
    /\ \A v \in VUs : kind'[v] = kind[v] \/ step[v] = 1

\* A statement of VU v succeeds.
Executes(v) ==
    /\ pc[v] = "body"
    /\ Free(v, RowsOf(v, Statement(v)))
    /\ Current(v, RowsOf(v, Statement(v)))
    /\ ~(Statement(v) = "insert_order" /\ oID[v] \in db.orders)
    /\ StatementDone(v)
    /\ UNCHANGED <<db, ctxDone, kind, forced, attempt, applied, undone, outcome, left>>

\* VU v's transaction commits.
Commits(v) ==
    /\ pc[v] = "commit"
    /\ TakeEffect(v)
    /\ EndTx(v)
    /\ UNCHANGED kind

\* VU v's transaction ends without effect.
Aborts(v) ==
    /\ EndTx(v)
    /\ stale' = [stale EXCEPT ![v] = {}]
    /\ UNCHANGED <<db, kind>>

\* Every step is one of the four.
LEMMA StepKinds ==
    ASSUME IInv, [Next]_vars
    PROVE  Quiet \/ \E v \in VUs : Executes(v) \/ Commits(v) \/ Aborts(v)
<1> USE DEF vuVars
<1>1. ASSUME NEW v \in VUs, StartIteration(v)
      PROVE  Quiet
  BY <1>1 DEF StartIteration, Quiet, IInv, Progress, TypeOK
<1>2. ASSUME NEW v \in VUs, BeginAttempt(v)
      PROVE  Quiet
  BY <1>2 DEF BeginAttempt, Quiet
<1>3. ASSUME NEW v \in VUs, ExecStatement(v)
      PROVE  Quiet \/ Executes(v)
  BY <1>3 DEF ExecStatement, BodyFails, Quiet, Executes
<1>4. ASSUME NEW v \in VUs, StatementFails(v)
      PROVE  Quiet
  BY <1>4 DEF StatementFails, BodyFails, Quiet
<1>5. ASSUME NEW v \in VUs, CommitTx(v)
      PROVE  Commits(v) \/ Aborts(v)
  BY <1>5 DEF CommitTx, Commits, Aborts
<1>6. ASSUME NEW v \in VUs, RollbackTx(v)
      PROVE  Aborts(v)
  BY <1>6 DEF RollbackTx, EndsTx, Aborts
<1>7. ASSUME NEW v \in VUs, Decide(v)
      PROVE  Quiet
  BY <1>7 DEF Decide, Quiet
<1>8. CASE CancelRun
  BY <1>8 DEF CancelRun, Quiet
<1>9. CASE UNCHANGED vars
  BY <1>9 DEF vars, Quiet
<1> QED
  BY <1>1, <1>2, <1>3, <1>4, <1>5, <1>6, <1>7, <1>8, <1>9 DEF Next, VU, Finished

\* The order id changes only while the transaction holds nothing.
LEMMA OrderIdReads ==
    ASSUME IInv, NEW v \in VUs, Executes(v)
    PROVE  /\ oID' = [oID EXCEPT ![v] = oID'[v]]
           /\ oID'[v] \in Nat
           /\ oID'[v] # oID[v] =>
                  /\ done[v] = {}
                  /\ Statement(v) \in {"get_district", "get_min_new_order", "get_last_order"}
           /\ Statement(v) = "get_district" => oID'[v] = Seen(v).nextOID
           /\ Statement(v) = "get_min_new_order" /\ Seen(v).newOrders # {} =>
                  oID'[v] = Oldest(Seen(v).newOrders)
<1> USE DEF IInv
<1>1. /\ Numbered(Seen(v))
      /\ Seen(v).nextOID \in Nat
      /\ Seen(v).newOrders \subseteq Nat
  BY DEF Seen, Numbering, TypeOK, Contents
<1>2. Newest(Seen(v).orders) \in Nat
  BY <1>1, NewestIsLast DEF Numbered
<1>3. Seen(v).newOrders # {} => Oldest(Seen(v).newOrders) \in Nat
  BY <1>1, OldestExists
<1>4. /\ done[v] = Executed(kind[v], step[v])
      /\ IsPlace(kind[v], step[v], Statement(v))
      /\ step[v] <= Length(kind[v])
  BY NextPlace DEF Executes, Progress
<1>5. Statement(v) \in {"get_district", "get_min_new_order", "get_last_order"} =>
          done[v] = {}
  BY <1>4 DEF IsPlace, Executed, Writes, Rank
<1>6. oID' = [oID EXCEPT ![v] =
                 CASE Statement(v) = "get_district" -> Seen(v).nextOID
                   [] Statement(v) = "get_min_new_order" /\ Seen(v).newOrders # {} ->
                          Oldest(Seen(v).newOrders)
                   [] Statement(v) = "get_last_order" -> Newest(Seen(v).orders)
                   [] OTHER -> @]
  BY DEF Executes, StatementDone
<1>7. oID \in [VUs -> Nat]
  BY DEF TypeOK
<1>8. CASE Statement(v) = "get_district"
  BY <1>1, <1>5, <1>6, <1>7, <1>8
<1>9. CASE Statement(v) = "get_min_new_order" /\ Seen(v).newOrders # {}
  BY <1>3, <1>5, <1>6, <1>7, <1>9
<1>10. CASE Statement(v) = "get_last_order"
  BY <1>2, <1>5, <1>6, <1>7, <1>10
<1>11. CASE /\ Statement(v) \notin {"get_district", "get_last_order"}
            /\ ~(Statement(v) = "get_min_new_order" /\ Seen(v).newOrders # {})
  BY <1>6, <1>7, <1>11
<1> QED
  BY <1>8, <1>9, <1>10, <1>11

\* The transaction's state after a statement.
LEMMA StatementEffect ==
    ASSUME IInv, NEW v \in VUs, Executes(v)
    PROVE  /\ done' = [done EXCEPT ![v] = done'[v]]
           /\ done'[v] = done[v] \cup (IF Statement(v) \in Reads THEN {} ELSE {Statement(v)})
           /\ done'[v] = Executed(kind[v], step[v] + 1)
           /\ step' = [step EXCEPT ![v] = step'[v]]
           /\ step'[v] \in {step[v], step[v] + 1}
           /\ step[v] > 1 => snapshot'[v] = snapshot[v] /\ stale'[v] = stale[v]
           /\ step[v] = 1 => snapshot'[v] = db /\ stale'[v] = {}
           /\ snapshot' = [snapshot EXCEPT ![v] = snapshot'[v]]
           /\ stale' = [stale EXCEPT ![v] = stale'[v]]
           /\ quantity' = [quantity EXCEPT ![v] = quantity'[v]]
           /\ quantity'[v] = IF kind[v] = "new_order" /\ step[v] = 6
                             THEN Seen(v).sQuantity ELSE quantity[v]
<1> USE DEF IInv, TypeOK
<1>1. /\ step[v] <= Length(kind[v])
      /\ done[v] = Executed(kind[v], step[v])
      /\ IsPlace(kind[v], step[v], Statement(v))
  BY NextPlace DEF Executes, Progress
<1>2. done'[v] = done[v] \cup (IF Statement(v) \in Reads THEN {} ELSE {Statement(v)})
  BY DEF Executes, StatementDone
<1>3. done'[v] = Executed(kind[v], step[v] + 1)
  BY <1>1, <1>2, ExecutedNext
<1>4. quantity'[v] = IF kind[v] = "new_order" /\ step[v] = 6
                     THEN Seen(v).sQuantity ELSE quantity[v]
  BY <1>1 DEF Executes, StatementDone, IsPlace
<1>5. /\ done' = [done EXCEPT ![v] = done'[v]]
      /\ quantity' = [quantity EXCEPT ![v] = quantity'[v]]
  BY DEF Executes, StatementDone
<1>6. /\ step' = [step EXCEPT ![v] = step'[v]]
      /\ step'[v] \in {step[v], step[v] + 1}
  BY DEF Executes, StatementDone
<1>7. /\ step[v] > 1 => snapshot'[v] = snapshot[v] /\ stale'[v] = stale[v]
      /\ step[v] = 1 => snapshot'[v] = db /\ stale'[v] = {}
      /\ snapshot' = [snapshot EXCEPT ![v] = snapshot'[v]]
      /\ stale' = [stale EXCEPT ![v] = stale'[v]]
  BY DEF Executes, StatementDone
<1> QED
  BY <1>2, <1>3, <1>4, <1>5, <1>6, <1>7

\* The locks after a statement: those before it and the statement's own rows.
LEMMA StatementLocks ==
    ASSUME IInv, NEW v \in VUs, Executes(v)
    PROVE  /\ Locked(v)' = Locked(v) \cup RowsOf(v, Statement(v))
           /\ \A u \in VUs \ {v} : Locked(u)' = Locked(u)
<1>1. /\ done' = [done EXCEPT ![v] = done'[v]]
      /\ oID' = [oID EXCEPT ![v] = oID'[v]]
      /\ done \in [VUs -> SUBSET Writing] /\ oID \in [VUs -> Nat]
  BY StatementEffect, OrderIdReads DEF IInv, TypeOK
<1>2. \A u \in VUs \ {v} : Locked(u)' = Locked(u)
  <2> SUFFICES ASSUME NEW u \in VUs \ {v}
               PROVE  Locked(u)' = Locked(u)
    OBVIOUS
  <2>1. done'[u] = done[u] /\ oID'[u] = oID[u]
    BY <1>1
  <2> QED
    BY <2>1, LocksFrame
<1>3. done'[v] = done[v] \cup (IF Statement(v) \in Reads THEN {} ELSE {Statement(v)})
  BY StatementEffect
<1>4. Statement(v) \in Reads => RowsOf(v, Statement(v)) = {}
  BY ReadsLockNothing
<1>5. Locked(v)' = Locked(v) \cup RowsOf(v, Statement(v))
  <2>1. CASE oID'[v] = oID[v]
    <3>1. \A s : RowsOf(v, s)' = RowsOf(v, s)
      BY <2>1 DEF RowsOf
    <3>2. Locked(v)' = UNION {RowsOf(v, s) : s \in done'[v]}
      BY <3>1 DEF Locked
    <3> QED
      BY <1>3, <1>4, <3>2 DEF Locked
  <2>2. CASE oID'[v] # oID[v] /\ Statement(v) = "get_district"
    <3>1. done'[v] = {"get_district"} /\ Locked(v) = {}
      BY <1>3, <2>2, OrderIdReads DEF Locked, Reads
    <3>2. RowsOf(v, "get_district")' = RowsOf(v, "get_district")
      BY DEF RowsOf, LockFree, Reads
    <3> QED
      BY <2>2, <3>1, <3>2 DEF Locked
  <2>3. CASE oID'[v] # oID[v] /\ Statement(v) \in {"get_min_new_order", "get_last_order"}
    <3>1. done'[v] = {} /\ done[v] = {} /\ Statement(v) \in Reads
      BY <1>3, <2>3, OrderIdReads DEF Reads
    <3> QED
      BY <1>4, <3>1 DEF Locked
  <2> QED
    BY <2>1, <2>2, <2>3, OrderIdReads
<1> QED
  BY <1>2, <1>5

\* A transaction that ended holds no lock; the others keep theirs.
LEMMA EndedLocks ==
    ASSUME TypeOK, NEW v \in VUs, EndTx(v)
    PROVE  Locked(v)' = {} /\ \A u \in VUs \ {v} : Locked(u)' = Locked(u)
<1>1. done'[v] = {}
  BY DEF EndTx, TypeOK
<1>2. \A u \in VUs \ {v} : done'[u] = done[u] /\ oID'[u] = oID[u]
  BY DEF EndTx, TypeOK
<1> QED
  BY <1>1, <1>2, LocksFrame DEF Locked

LEMMA QuietLocks ==
    ASSUME Quiet, NEW u \in VUs
    PROVE  Locked(u)' = Locked(u)
  BY LocksFrame DEF Quiet, txVars

-----------------------------------------------------------------------------
(* Preservation of what the row locks and the snapshots give.              *)

\* The statements whose locks the invariants rely on.
LEMMA HeldRows ==
    ASSUME NEW v
    PROVE  /\ "get_district" \in done[v] => <<"district", 1>> \in Locked(v)
           /\ "update_stock" \in done[v] => <<"stock", 1>> \in Locked(v)
           /\ "delete_new_order" \in done[v] => <<"order", oID[v]>> \in Locked(v)
<1>1. /\ RowsOf(v, "get_district") = {<<"district", 1>>}
      /\ RowsOf(v, "update_stock") = {<<"stock", 1>>}
      /\ RowsOf(v, "delete_new_order") = {<<"order", oID[v]>>}
  BY RowsOfWrites DEF Writing, OrderStatements
<1> QED
  BY <1>1 DEF Locked

\* A statement gets only rows no other transaction holds.
LEMMA LocksStep ==
    ASSUME IInv, [Next]_vars
    PROVE  LocksExclude'
<1> USE DEF IInv, LocksExclude
<1>1. CASE Quiet
  BY <1>1, QuietLocks
<1>2. ASSUME NEW v \in VUs, Executes(v)
      PROVE  LocksExclude'
  <2>1. \A u \in VUs \ {v} : RowsOf(v, Statement(v)) \cap Locked(u) = {}
    BY <1>2 DEF Executes, Free
  <2> QED
    BY <1>2, <2>1, StatementLocks
<1>3. ASSUME NEW v \in VUs, EndTx(v)
      PROVE  LocksExclude'
  BY <1>3, EndedLocks
<1> QED
  BY <1>1, <1>2, <1>3, StepKinds DEF Commits, Aborts

\* The district's counter belongs to who locked it.
LEMMA NumberStep ==
    ASSUME IInv, [Next]_vars
    PROVE  OwnsNumber'
<1> USE DEF IInv, OwnsNumber
<1>1. CASE Quiet
  BY <1>1 DEF Quiet, txVars
<1>2. ASSUME NEW v \in VUs, Executes(v)
      PROVE  OwnsNumber'
  <2>1. db' = db /\ done' = [done EXCEPT ![v] = done'[v]] /\ oID' = [oID EXCEPT ![v] = oID'[v]]
    BY <1>2, StatementEffect, OrderIdReads DEF Executes
  <2>2. CASE "get_district" \in done[v]
    <3>1. oID'[v] = oID[v]
      BY <1>2, <2>2, OrderIdReads
    <3> QED
      BY <2>1, <2>2, <3>1 DEF TypeOK
  <2>3. CASE "get_district" \notin done[v] /\ Statement(v) = "get_district"
    <3>1. Seen(v).nextOID = db.nextOID
      <4>1. CASE UsesSnapshot /\ step[v] > 1
        <5>1. RowsOf(v, "get_district") = {<<"district", 1>>}
          BY RowsOfWrites DEF Writing
        <5>2. <<"district", 1>> \notin stale[v]
          BY <1>2, <2>3, <4>1, <5>1 DEF Executes, Current
        <5> QED
          BY <4>1, <5>2 DEF FreshRows, Seen
      <4>2. CASE ~(UsesSnapshot /\ step[v] > 1)
        BY <4>2 DEF Seen
      <4> QED
        BY <4>1, <4>2
    <3> QED
      BY <1>2, <2>1, <2>3, <3>1, OrderIdReads DEF TypeOK
  <2>4. CASE "get_district" \notin done[v] /\ Statement(v) # "get_district"
    <3>1. "get_district" \notin done'[v]
      BY <1>2, <2>4, StatementEffect
    <3> QED
      BY <2>1, <3>1 DEF TypeOK
  <2> QED
    BY <2>2, <2>3, <2>4
<1>3. ASSUME NEW v \in VUs, Commits(v)
      PROVE  OwnsNumber'
  <2> SUFFICES ASSUME NEW u \in VUs, "get_district" \in done'[u]
               PROVE  oID'[u] = db'.nextOID
    OBVIOUS
  <2>1. u # v /\ done'[u] = done[u] /\ oID'[u] = oID[u]
    BY <1>3 DEF Commits, EndTx, TypeOK
  <2>2. <<"district", 1>> \notin Wrote(v)
    BY <2>1, HeldRows, WroteLocked DEF LocksExclude
  <2>3. db'.nextOID = db.nextOID
    BY <1>3, <2>2, CommitRows, CommitEffect
    DEF Commits, TakeEffect, NewOrderEffect, PaymentEffect, DeliveryEffect, NoEffect
  <2> QED
    BY <2>1, <2>3
<1>4. ASSUME NEW v \in VUs, Aborts(v)
      PROVE  OwnsNumber'
  BY <1>4 DEF Aborts, EndTx, TypeOK
<1> QED
  BY <1>1, <1>2, <1>3, <1>4, StepKinds

\* A commit makes the rows it changed stale for every other snapshot.
LEMMA FreshRowsStep ==
    ASSUME IInv, [Next]_vars
    PROVE  FreshRows'
<1> USE DEF IInv, FreshRows
<1>1. CASE Quiet
  BY <1>1 DEF Quiet, txVars
<1>2. ASSUME NEW v \in VUs, Executes(v)
      PROVE  FreshRows'
  <2>1. db' = db /\ step[v] \in 1..8
    BY <1>2 DEF Executes, TypeOK
  <2> QED
    BY <1>2, <2>1, StatementEffect DEF TypeOK
<1>3. ASSUME NEW v \in VUs, Commits(v)
      PROVE  FreshRows'
  <2> SUFFICES ASSUME NEW u \in VUs, step'[u] > 1
               PROVE  /\ <<"district", 1>> \notin stale'[u] =>
                             snapshot'[u].nextOID = db'.nextOID
                      /\ <<"stock", 1>> \notin stale'[u] =>
                             snapshot'[u].sQuantity = db'.sQuantity
    OBVIOUS
  <2>1. u # v /\ step'[u] = step[u] /\ snapshot'[u] = snapshot[u]
    BY <1>3 DEF Commits, EndTx, TypeOK
  <2>2. stale'[u] = stale[u] \cup Wrote(v)
    BY <1>3, <2>1 DEF Commits, TakeEffect
  <2>3. <<"district", 1>> \notin Wrote(v) => db'.nextOID = db.nextOID
    BY <1>3, CommitRows, CommitEffect
    DEF Commits, TakeEffect, NewOrderEffect, PaymentEffect, DeliveryEffect, NoEffect
  <2>4. <<"stock", 1>> \notin Wrote(v) => db'.sQuantity = db.sQuantity
    BY <1>3, CommitRows, CommitEffect
    DEF Commits, TakeEffect, NewOrderEffect, PaymentEffect, DeliveryEffect, NoEffect
  <2> QED
    BY <2>1, <2>2, <2>3, <2>4
<1>4. ASSUME NEW v \in VUs, Aborts(v)
      PROVE  FreshRows'
  BY <1>4 DEF Aborts, EndTx, TypeOK
<1> QED
  BY <1>1, <1>2, <1>3, <1>4, StepKinds

\* No snapshot transaction goes on after a row it locks was changed behind it.
LEMMA NotStaleStep ==
    ASSUME IInv, [Next]_vars
    PROVE  NotStale'
<1> USE DEF IInv, NotStale
<1>1. CASE Quiet
  BY <1>1, QuietLocks DEF Quiet, txVars, UsesSnapshot, ResolveIsolation
<1>2. ASSUME NEW v \in VUs, Executes(v)
      PROVE  NotStale'
  <2>1. step[v] > 1 \/ step[v] = 1
    BY DEF TypeOK
  <2>2. UsesSnapshot /\ step[v] > 1 => RowsOf(v, Statement(v)) \cap stale[v] = {}
    BY <1>2 DEF Executes, Current
  <2>3. \A u \in VUs \ {v} : stale'[u] = stale[u]
    BY <1>2, StatementEffect DEF TypeOK
  <2> QED
    BY <1>2, <2>1, <2>2, <2>3, StatementEffect, StatementLocks
<1>3. ASSUME NEW v \in VUs, Commits(v)
      PROVE  NotStale'
  <2>1. stale'[v] = {} /\ \A u \in VUs \ {v} : stale'[u] = stale[u] \cup Wrote(v)
    BY <1>3 DEF Commits, TakeEffect
  <2>2. \A u \in VUs \ {v} : Locked(u) \cap Wrote(v) = {}
    BY WroteLocked DEF LocksExclude
  <2> QED
    BY <1>3, <2>1, <2>2, EndedLocks DEF Commits
<1>4. ASSUME NEW v \in VUs, Aborts(v)
      PROVE  NotStale'
  <2>1. stale'[v] = {} /\ \A u \in VUs \ {v} : stale'[u] = stale[u]
    BY <1>4 DEF Aborts, TypeOK
  <2> QED
    BY <1>4, <2>1, EndedLocks DEF Aborts
<1> QED
  BY <1>1, <1>2, <1>3, <1>4, StepKinds

-----------------------------------------------------------------------------
(* Preservation of what the transactions read and of the contents.         *)

\* What a commit of new_order inserts is the next order.
LEMMA NextOrder ==
    ASSUME IInv, NEW v \in VUs, pc[v] = "commit", kind[v] = "new_order"
    PROVE  oID[v] = db.nextOID
  BY CommitRows DEF IInv, OwnsNumber

\* The numbering has no gaps, whatever the isolation.
LEMMA NumberingStep ==
    ASSUME IInv, [Next]_vars
    PROVE  Numbering'
<1> USE DEF IInv, Numbering
<1>1. CASE Quiet
  BY <1>1 DEF Quiet, txVars, Numbered
<1>2. ASSUME NEW v \in VUs, Executes(v)
      PROVE  Numbering'
  <2>1. step[v] > 1 \/ step[v] = 1
    BY DEF TypeOK
  <2>2. \A u \in VUs : snapshot'[u] \in {snapshot[u], db}
    BY <1>2, <2>1, StatementEffect DEF TypeOK
  <2>3. db' = db
    BY <1>2 DEF Executes
  <2> QED
    BY <2>2, <2>3 DEF Numbered
<1>3. Numbered(Loaded)
  BY DEF Numbered, Loaded
<1>4. ASSUME NEW v \in VUs, EndTx(v)
      PROVE  \A u \in VUs : Numbered(snapshot'[u])
  BY <1>3, <1>4 DEF EndTx, TypeOK, Numbered
<1>5. ASSUME NEW v \in VUs, Commits(v)
      PROVE  Numbering'
  <2>1. db.nextOID \in Nat
    BY DEF TypeOK, Contents
  <2>2. CASE NewOrderEffect(v)
    <3>1. oID[v] = db.nextOID
      BY <1>5, <2>2, NextOrder DEF Commits, NewOrderEffect
    <3> QED
      BY <1>4, <1>5, <2>1, <2>2, <3>1 DEF NewOrderEffect, Numbered, Commits
  <2>3. CASE PaymentEffect(v) \/ DeliveryEffect(v) \/ NoEffect
    BY <1>4, <1>5, <2>3 DEF PaymentEffect, DeliveryEffect, NoEffect, Numbered, Commits
  <2> QED
    BY <1>5, <2>2, <2>3, CommitEffect DEF Commits, TakeEffect
<1>6. ASSUME NEW v \in VUs, Aborts(v)
      PROVE  Numbering'
  BY <1>4, <1>6 DEF Aborts, Numbered
<1> QED
  BY <1>1, <1>2, <1>5, <1>6, StepKinds

\* The stock quantity and the oldest new order are what was read while their rows are
\* not stale.
LEMMA FreshReadsStep ==
    ASSUME IInv, [Next]_vars
    PROVE  FreshReads'
<1> USE DEF FreshReads, FreshRead
<1>. TypeOK /\ Progress /\ FreshReads /\ FreshRows /\ Numbering
  BY DEF IInv
<1>1. CASE Quiet
  <2> SUFFICES ASSUME NEW u \in VUs
               PROVE  FreshRead(u)'
    OBVIOUS
  <2> QED
    BY <1>1 DEF Quiet, txVars
<1>2. ASSUME NEW v \in VUs, Executes(v)
      PROVE  FreshReads'
  <2>1. /\ db' = db /\ kind' = kind
        /\ IsPlace(kind[v], step[v], Statement(v))
        /\ step[v] \in 1..8
    BY <1>2, NextPlace DEF Executes, Progress, TypeOK
  <2>2. \A u \in VUs \ {v} : /\ step'[u] = step[u] /\ stale'[u] = stale[u]
                             /\ oID'[u] = oID[u] /\ quantity'[u] = quantity[u]
    <3>1. /\ step' = [step EXCEPT ![v] = step'[v]] /\ step \in [VUs -> 1..8]
          /\ stale' = [stale EXCEPT ![v] = stale'[v]] /\ stale \in [VUs -> SUBSET Rows]
          /\ oID' = [oID EXCEPT ![v] = oID'[v]] /\ oID \in [VUs -> Nat]
          /\ quantity' = [quantity EXCEPT ![v] = quantity'[v]] /\ quantity \in [VUs -> Int]
      BY <1>2, StatementEffect, OrderIdReads DEF TypeOK
    <3> QED
      BY <3>1
  <2>3. ASSUME kind[v] = "new_order", step'[v] >= 7, <<"stock", 1>> \notin stale'[v]
        PROVE  quantity'[v] = db.sQuantity
    <3>1. stale'[v] = stale[v] /\ step[v] >= 6
      BY <1>2, <2>1, <2>3, StatementEffect
    <3>2. CASE step[v] = 6
      BY <1>2, <2>3, <3>1, <3>2, StatementEffect DEF FreshRows, Seen
    <3>3. CASE step[v] >= 7
      <4>1. quantity'[v] = quantity[v]
        BY <1>2, <3>3, StatementEffect
      <4> QED
        BY <2>3, <3>1, <3>3, <4>1
    <3> QED
      BY <2>1, <3>1, <3>2, <3>3
  <2>4. ASSUME kind[v] = "delivery", step'[v] >= 2, <<"order", oID'[v]>> \notin stale'[v]
        PROVE  oID'[v] \in db.newOrders /\ \A o \in db.newOrders : oID'[v] <= o
    <3>1. CASE step[v] = 1
      <4>1. Statement(v) = "get_min_new_order" /\ Seen(v) = db
        BY <2>1, <2>4, <3>1 DEF IsPlace, Seen
      <4>2. db.newOrders # {}
        BY <1>2, <2>4, <3>1, <4>1 DEF Executes, StatementDone, TypeOK
      <4>3. oID'[v] = Oldest(db.newOrders) /\ db.newOrders \subseteq Nat
        BY <1>2, <4>1, <4>2, OrderIdReads DEF TypeOK, Contents
      <4> QED
        BY <4>2, <4>3, OldestExists
    <3>2. CASE step[v] >= 2
      <4>1. oID'[v] = oID[v]
        BY <1>2, <2>1, <2>4, <3>2, OrderIdReads DEF IsPlace
      <4>2. stale'[v] = stale[v]
        BY <1>2, <2>1, <3>2, StatementEffect
      <4> QED
        BY <2>4, <3>2, <4>1, <4>2
    <3> QED
      BY <2>1, <3>1, <3>2
  <2> QED
    BY <2>1, <2>2, <2>3, <2>4
<1>3. ASSUME NEW v \in VUs, Commits(v)
      PROVE  FreshReads'
  <2> SUFFICES ASSUME NEW u \in VUs
               PROVE  FreshRead(u)'
    OBVIOUS
  <2>1. CASE u = v
    BY <1>3, <2>1 DEF Commits, EndTx, TypeOK
  <2>2. CASE u # v
    <3>1. /\ step'[u] = step[u] /\ oID'[u] = oID[u] /\ quantity'[u] = quantity[u]
          /\ kind'[u] = kind[u] /\ stale'[u] = stale[u] \cup Wrote(v)
      BY <1>3, <2>2 DEF Commits, EndTx, TakeEffect, TypeOK
    <3>2. <<"stock", 1>> \notin Wrote(v) => db'.sQuantity = db.sQuantity
      BY <1>3, CommitRows, CommitEffect
      DEF Commits, TakeEffect, NewOrderEffect, PaymentEffect, DeliveryEffect, NoEffect
    <3>3. ASSUME kind[u] = "delivery", step[u] >= 2, <<"order", oID[u]>> \notin stale'[u]
          PROVE  oID[u] \in db'.newOrders /\ \A o \in db'.newOrders : oID[u] <= o
      <4>1. oID[u] \in db.newOrders /\ \A o \in db.newOrders : oID[u] <= o
        BY <3>1, <3>3
      <4>2. db.nextOID \in Nat /\ db.newOrders \subseteq 1..(db.nextOID - 1)
        BY DEF Numbering, Numbered, TypeOK, Contents
      <4>3. CASE NewOrderEffect(v)
        <5>1. oID[v] = db.nextOID
          BY <1>3, <4>3, NextOrder DEF Commits, NewOrderEffect
        <5> QED
          BY <4>1, <4>2, <4>3, <5>1 DEF NewOrderEffect
      <4>4. CASE DeliveryEffect(v)
        <5>1. oID[u] # oID[v]
          BY <1>3, <3>1, <3>3, <4>4, CommitRows DEF Commits, DeliveryEffect
        <5> QED
          BY <4>1, <4>4, <5>1 DEF DeliveryEffect
      <4>5. CASE PaymentEffect(v) \/ NoEffect
        BY <4>1, <4>5 DEF PaymentEffect, NoEffect
      <4> QED
        BY <1>3, <4>3, <4>4, <4>5, CommitEffect DEF Commits, TakeEffect
    <3> QED
      BY <3>1, <3>2, <3>3
  <2> QED
    BY <2>1, <2>2
<1>4. ASSUME NEW v \in VUs, Aborts(v)
      PROVE  FreshReads'
  <2>1. /\ db' = db /\ kind' = kind /\ step'[v] = 1
        /\ \A u \in VUs \ {v} : /\ step'[u] = step[u] /\ stale'[u] = stale[u]
                                /\ oID'[u] = oID[u] /\ quantity'[u] = quantity[u]
    BY <1>4 DEF Aborts, EndTx, TypeOK
  <2> QED
    BY <2>1
<1> QED
  BY <1>1, <1>2, <1>3, <1>4, StepKinds

\* Selling two keeps the stock's account, with or without the refill of 91.
LEMMA StockAccount ==
    ASSUME NEW y \in Nat, NEW q \in Int, (11 - y - q) % 91 = 0, q >= 10
    PROVE  (11 - (y + 2) - NewQuantity(q)) % 91 = 0 /\ NewQuantity(q) >= 10
<1>1. CASE q - 2 < 10
  <2>1. NewQuantity(q) = q + 89
    BY <1>1 DEF NewQuantity
  <2>2. 11 - (y + 2) - (q + 89) = (11 - y - q) - 91
    OBVIOUS
  <2>3. \A x \in Int : x % 91 = 0 => (x - 91) % 91 = 0
    OBVIOUS
  <2> QED
    BY <2>1, <2>2, <2>3
<1>2. CASE q - 2 >= 10
  <2>1. NewQuantity(q) = q - 2
    BY <1>2 DEF NewQuantity
  <2>2. 11 - (y + 2) - (q - 2) = 11 - y - q
    OBVIOUS
  <2> QED
    BY <1>2, <2>1, <2>2
<1> QED
  BY <1>1, <1>2

\* Under snapshots every commit keeps the books.
LEMMA BooksStep ==
    ASSUME IInv, [Next]_vars
    PROVE  Books'
<1> SUFFICES ASSUME UsesSnapshot
             PROVE  Consistent' /\ DeliveredOnce'
  BY DEF Books, UsesSnapshot, ResolveIsolation
<1>1. /\ TypeOK /\ Progress /\ FreshReads /\ Numbering /\ Consistent /\ DeliveredOnce
      /\ \A v \in VUs : Locked(v) \cap stale[v] = {}
  BY DEF IInv, Books, NotStale
<1>2. CASE UNCHANGED db
  BY <1>1, <1>2 DEF Consistent, DeliveredOnce
<1>3. ASSUME NEW v \in VUs, Commits(v)
      PROVE  Consistent' /\ DeliveredOnce'
  <2>1. /\ db.nextOID \in Nat /\ db.sQuantity \in Int /\ db.sYtd \in Nat
        /\ db.wYtd \in Nat /\ db.dYtd \in Nat /\ db.history \in Nat
        /\ \A o \in OrderIds : db.delivered[o] \in Nat
    BY <1>1 DEF TypeOK, Contents
  <2>2. db.newOrders \subseteq db.orders /\ db.orders = 1..(db.nextOID - 1)
    BY <1>1 DEF Numbering, Numbered
  <2>3. NewOrderEffect(v) \/ PaymentEffect(v) \/ DeliveryEffect(v) \/ NoEffect
    BY <1>1, <1>3, CommitEffect DEF Commits, TakeEffect
  <2>4. CASE NewOrderEffect(v)
    <3>1. oID[v] = db.nextOID
      BY <1>3, <2>4, NextOrder DEF Commits, NewOrderEffect
    <3>2. quantity[v] = db.sQuantity
      <4>1. "update_stock" \in done[v] /\ step[v] = 8
        BY <1>1, <1>3, <2>4 DEF Commits, NewOrderEffect, Progress, Writes, Length
      <4>2. <<"stock", 1>> \notin stale[v]
        BY <1>1, <4>1, HeldRows
      <4>3. FreshRead(v) /\ kind[v] = "new_order"
        BY <1>1, <2>4 DEF NewOrderEffect, FreshReads
      <4> QED
        BY <4>1, <4>2, <4>3 DEF FreshRead
    <3>3. /\ (11 - db'.sYtd - db'.sQuantity) % 91 = 0
          /\ db'.sQuantity >= 10
      <4>1. db'.sYtd = db.sYtd + 2 /\ db'.sQuantity = NewQuantity(db.sQuantity)
        BY <2>4, <3>2 DEF NewOrderEffect
      <4>2. (11 - db.sYtd - db.sQuantity) % 91 = 0 /\ db.sQuantity >= 10
        BY <1>1 DEF Consistent
      <4> QED
        BY <2>1, <4>1, <4>2, StockAccount
    <3>4. db'.orders = 1..(db'.nextOID - 1)
      <4>1. db'.nextOID - 1 = db.nextOID /\ db'.orders = db.orders \cup {db.nextOID}
        BY <2>1, <2>4, <3>1 DEF NewOrderEffect
      <4>2. db.nextOID >= 1
        BY <1>1, <2>1 DEF Numbering, Numbered
      <4> QED
        BY <2>1, <2>2, <4>1, <4>2
    <3>5. \A o \in db'.newOrders : o..(db'.nextOID - 1) \subseteq db'.newOrders
      BY <1>1, <2>1, <2>2, <2>4, <3>1 DEF NewOrderEffect, Consistent
    <3>6. Consistent'
      BY <1>1, <2>4, <3>3, <3>4, <3>5 DEF NewOrderEffect, Consistent
    <3>7. DeliveredOnce'
      BY <1>1, <2>1, <2>2, <2>4, <3>1 DEF NewOrderEffect, DeliveredOnce
    <3> QED
      BY <3>6, <3>7
  <2>5. CASE PaymentEffect(v)
    BY <1>1, <2>5 DEF PaymentEffect, Consistent, DeliveredOnce
  <2>6. CASE DeliveryEffect(v)
    <3>1. oID[v] \in db.newOrders /\ \A o \in db.newOrders : oID[v] <= o
      <4>1. "delete_new_order" \in done[v] /\ step[v] = 4
        BY <1>1, <1>3, <2>6 DEF Commits, DeliveryEffect, Progress, Writes, Length
      <4>2. <<"order", oID[v]>> \notin stale[v]
        BY <1>1, <4>1, HeldRows
      <4> QED
        BY <1>1, <2>6, <4>1, <4>2 DEF DeliveryEffect, FreshReads, FreshRead
    <3>2. \A o \in db'.newOrders : o..(db'.nextOID - 1) \subseteq db'.newOrders
      BY <1>1, <2>1, <2>2, <2>6, <3>1 DEF DeliveryEffect, Consistent
    <3>3. Consistent'
      BY <1>1, <2>6, <3>2 DEF DeliveryEffect, Consistent
    <3>4. DeliveredOnce'
      BY <1>1, <2>1, <2>2, <2>6, <3>1 DEF DeliveryEffect, DeliveredOnce
    <3> QED
      BY <3>3, <3>4
  <2>7. CASE NoEffect
    BY <1>1, <2>7 DEF NoEffect, Consistent, DeliveredOnce
  <2> QED
    BY <2>3, <2>4, <2>5, <2>6, <2>7
<1> QED
  BY <1>2, <1>3, StepKinds DEF Quiet, Executes, Aborts

-----------------------------------------------------------------------------
(* Preservation of types and of where Retry0 stands.                       *)

\* Each step keeps the variables in their ranges.
LEMMA TypeStep ==
    ASSUME IInv, [Next]_vars
    PROVE  TypeOK'
<1>1. TypeOK /\ Progress
  BY DEF IInv
<1>0. Attempts \in Nat /\ Attempts >= 1 /\ MaxIterations \in Nat
  <2>1. MaxAttempts \in Int /\ MaxIterations \in Nat
    BY TpccTxAssumption
  <2> QED
    BY <2>1 DEF Attempts
<1> USE DEF TypeOK, Goto, SetErr, EndIteration, Errors, vuVars, txVars
<1>2. ASSUME NEW v \in VUs, StartIteration(v)
      PROVE  TypeOK'
  BY <1>0, <1>1, <1>2 DEF StartIteration
<1>3. ASSUME NEW v \in VUs, BeginAttempt(v)
      PROVE  TypeOK'
  BY <1>1, <1>3 DEF BeginAttempt
<1>4. ASSUME NEW v \in VUs, ExecStatement(v)
      PROVE  TypeOK'
  <2>1. CASE BodyFails(v, "serialization") \/ BodyFails(v, "duplicate")
    BY <1>1, <1>4, <2>1 DEF ExecStatement, BodyFails
  <2>2. CASE Executes(v)
    <3>1. /\ pc' \in [VUs -> {"idle", "attempt", "body", "commit", "rollback", "decide"}]
          /\ err' \in [VUs -> Errors]
      BY <1>1, <2>2 DEF Executes, StatementDone
    <3>2. step' \in [VUs -> 1..8]
      <4>1. step[v] <= Length(kind[v]) /\ step[v] \in 1..8
        BY <1>1, <2>2 DEF Executes, Progress
      <4>2. Len(Body(v)) = Length(kind[v])
        BY <1>1, <4>1, NextPlace
      <4>3. Length(kind[v]) \in 1..8
        BY DEF Length
      <4>4. step[v] # Length(kind[v]) => step[v] + 1 \in 1..8
        BY <4>1, <4>3
      <4> QED
        BY <1>1, <2>2, <4>2, <4>4 DEF Executes, StatementDone
    <3>3. done' \in [VUs -> SUBSET Writing]
      <4>1. Statement(v) \in Reads \cup Writing
        BY <1>1, <2>2, NextPlace DEF Executes, Progress, IsPlace
      <4> QED
        BY <1>1, <2>2, <4>1, StatementEffect
    <3>4. /\ oID' \in [VUs -> Nat]
          /\ snapshot' \in [VUs -> Contents]
          /\ stale' \in [VUs -> SUBSET Rows]
      BY <1>1, <2>2, OrderIdReads, StatementEffect
    <3>5. quantity' \in [VUs -> Int]
      <4>1. Seen(v).sQuantity \in Int
        BY <1>1 DEF Seen, Contents
      <4> QED
        BY <1>1, <2>2, <4>1, StatementEffect
    <3> QED
      BY <1>1, <2>2, <3>1, <3>2, <3>3, <3>4, <3>5 DEF Executes
  <2> QED
    BY <1>4, <2>1, <2>2 DEF ExecStatement, Executes
<1>5. ASSUME NEW v \in VUs, StatementFails(v)
      PROVE  TypeOK'
  BY <1>1, <1>5 DEF StatementFails, BodyFails, StatementErrors, LostAnswers
<1>6. Loaded \in Contents
  <2>1. [o \in OrderIds |-> 0] \in [OrderIds -> Nat]
    OBVIOUS
  <2> QED
    BY <2>1 DEF Loaded, Contents
<1>7. ASSUME NEW v \in VUs, CommitTx(v)
      PROVE  TypeOK'
  <2>1. /\ step' \in [VUs -> 1..8] /\ done' \in [VUs -> SUBSET Writing]
        /\ oID' \in [VUs -> Nat] /\ quantity' \in [VUs -> Int]
        /\ snapshot' \in [VUs -> Contents]
    BY <1>1, <1>6, <1>7 DEF CommitTx, EndTx
  <2>2. /\ ctxDone' \in BOOLEAN /\ kind' \in [VUs -> {"new_order"} \cup Kinds]
        /\ forced' \in [VUs -> BOOLEAN] /\ attempt' \in [VUs -> 1..Attempts]
        /\ undone' \in [VUs -> BOOLEAN] /\ left' \in 0..MaxIterations
    BY <1>1, <1>7 DEF CommitTx
  <2>3. /\ pc' \in [VUs -> {"idle", "attempt", "body", "commit", "rollback", "decide"}]
        /\ err' \in [VUs -> Errors]
        /\ outcome' \in [VUs -> {"none", "ok", "error"}]
    BY <1>1, <1>7 DEF CommitTx, LostAnswers, StatementErrors
  <2>4. applied' \in [VUs -> Nat]
    BY <1>1, <1>7 DEF CommitTx, TakeEffect
  <2>5. stale' \in [VUs -> SUBSET Rows]
    <3>1. Wrote(v) \subseteq Rows
      <4>1. \A s \in Writing : RowsOf(v, s) \subseteq Rows
        BY <1>1, RowsOfWrites DEF Writing, OrderStatements, Rows
      <4> QED
        BY <1>1, <4>1 DEF Wrote
    <3> QED
      BY <1>1, <1>7, <3>1 DEF CommitTx, TakeEffect
  <2>6. db' \in Contents
    <3>1. CASE UNCHANGED db
      BY <1>1, <3>1
    <3>2. CASE db' = Apply(v)
      <4>1. /\ db.nextOID \in Nat /\ db.sYtd \in Nat /\ db.sQuantity \in Int
            /\ db.wYtd \in Nat /\ db.dYtd \in Nat /\ db.history \in Nat
            /\ db.orders \subseteq Nat /\ db.newOrders \subseteq Nat /\ db.lines \subseteq Nat
            /\ \A o \in OrderIds : db.delivered[o] \in Nat
            /\ oID[v] \in Nat /\ quantity[v] \in Int
        BY <1>1 DEF Contents
      <4>2. NewQuantity(quantity[v]) \in Int
        BY <4>1 DEF NewQuantity
      <4>3. /\ db'.nextOID \in Nat /\ db'.sYtd \in Nat /\ db'.sQuantity \in Int
            /\ db'.wYtd \in Nat /\ db'.dYtd \in Nat /\ db'.history \in Nat
        BY <3>2, <4>1, <4>2 DEF Apply
      <4>4. /\ db'.orders \subseteq Nat /\ db'.newOrders \subseteq Nat
            /\ db'.lines \subseteq Nat
        BY <3>2, <4>1 DEF Apply
      <4>5. db'.delivered \in [OrderIds -> Nat]
        BY <3>2, <4>1 DEF Apply
      <4>6. db' = [nextOID |-> db'.nextOID, orders |-> db'.orders,
                   newOrders |-> db'.newOrders, lines |-> db'.lines, wYtd |-> db'.wYtd,
                   dYtd |-> db'.dYtd, history |-> db'.history,
                   sQuantity |-> db'.sQuantity, sYtd |-> db'.sYtd,
                   delivered |-> db'.delivered]
        BY <3>2 DEF Apply
      <4> QED
        BY <4>3, <4>4, <4>5, <4>6 DEF Contents
    <3> QED
      BY <1>7, <3>1, <3>2 DEF CommitTx, TakeEffect
  <2> QED
    BY <2>1, <2>2, <2>3, <2>4, <2>5, <2>6
<1>8. ASSUME NEW v \in VUs, RollbackTx(v)
      PROVE  TypeOK'
  BY <1>1, <1>6, <1>8 DEF RollbackTx, EndsTx, EndTx, FinishTx, LostAnswers
<1>9. ASSUME NEW v \in VUs, Decide(v)
      PROVE  TypeOK'
  BY <1>0, <1>1, <1>9 DEF Decide, AttemptsLeft
<1>10. CASE CancelRun
  BY <1>1, <1>10 DEF CancelRun
<1>11. CASE UNCHANGED vars
  BY <1>1, <1>11 DEF vars
<1> QED
  BY <1>2, <1>3, <1>4, <1>5, <1>7, <1>8, <1>9, <1>10, <1>11 DEF Next, VU, Finished

\* The transaction holds what its statements so far wrote.
LEMMA ProgressStep ==
    ASSUME IInv, [Next]_vars
    PROVE  Progress'
<1>1. TypeOK /\ Progress
  BY DEF IInv
<1> USE DEF Goto, SetErr, EndIteration, vuVars, txVars
<1>2. ASSUME NEW v \in VUs, StartIteration(v)
      PROVE  Progress'
  BY <1>1, <1>2 DEF StartIteration, Progress, TypeOK
<1>3. \A k : Executed(k, 1) = {} /\ Length(k) \in Nat /\ Length(k) >= 1
  BY DEF Executed, Writes, Rank, Length
<1>4. ASSUME NEW v \in VUs, BeginAttempt(v)
      PROVE  Progress'
  <2>1. /\ pc'[v] \in {"idle", "body", "decide"} /\ pc[v] = "attempt"
        /\ kind' = kind /\ step' = step /\ done' = done
        /\ \A u \in VUs \ {v} : pc'[u] = pc[u]
    BY <1>1, <1>4 DEF BeginAttempt, TypeOK
  <2>2. done[v] = Executed(kind[v], 1) /\ step[v] = 1 /\ 1 <= Length(kind[v])
    BY <1>1, <1>3, <2>1 DEF Progress
  <2> QED
    BY <1>1, <2>1, <2>2 DEF Progress
<1>5. ASSUME NEW v \in VUs, ExecStatement(v)
      PROVE  Progress'
  <2>1. CASE BodyFails(v, "serialization") \/ BodyFails(v, "duplicate")
    BY <1>1, <1>5, <2>1 DEF ExecStatement, BodyFails, Progress, TypeOK
  <2>2. CASE Executes(v)
    <3>1. /\ step[v] <= Length(kind[v]) /\ step[v] \in 1..8
          /\ done[v] = Executed(kind[v], step[v])
          /\ IsPlace(kind[v], step[v], Statement(v))
          /\ Len(Body(v)) = Length(kind[v])
      BY <1>1, <2>2, NextPlace DEF Executes, Progress, TypeOK
    <3>2. /\ done'[v] = Executed(kind[v], step[v] + 1)
          /\ done'[v] = done[v] \cup (IF Statement(v) \in Reads THEN {} ELSE {Statement(v)})
      BY <2>2, StatementEffect
    <3>3. \A u \in VUs \ {v} : /\ pc'[u] = pc[u] /\ kind'[u] = kind[u]
                               /\ step'[u] = step[u] /\ done'[u] = done[u]
      <4>1. /\ done' = [done EXCEPT ![v] = done'[v]] /\ done \in [VUs -> SUBSET Writing]
            /\ step' = [step EXCEPT ![v] = step'[v]] /\ step \in [VUs -> 1..8]
        BY <1>1, <2>2, StatementEffect DEF TypeOK
      <4>2. \A u \in VUs \ {v} : pc'[u] = pc[u] /\ kind'[u] = kind[u]
        BY <1>1, <2>2 DEF Executes, StatementDone, TypeOK
      <4> QED
        BY <4>1, <4>2
    <3>4. CASE forced[v] /\ Statement(v) = "get_stocks"
      <4>1. kind'[v] = kind[v] /\ kind[v] = "new_order" /\ step[v] = 6 /\ step'[v] = step[v]
        BY <1>1, <2>2, <3>1, <3>4 DEF Executes, StatementDone, IsPlace, TypeOK
      <4>2. pc'[v] \in {"rollback"}
        BY <1>1, <2>2, <3>1, <3>4, <4>1 DEF Executes, StatementDone, Length, TypeOK
      <4>3. Statement(v) \in Reads
        BY <3>4 DEF Reads
      <4> QED
        BY <1>1, <3>1, <3>2, <3>3, <4>1, <4>2, <4>3 DEF Progress
    <3>5. CASE /\ ~(forced[v] /\ Statement(v) = "get_stocks")
               /\ Statement(v) = "get_min_new_order" /\ Seen(v).newOrders = {}
      <4>1. /\ kind'[v] = kind[v] /\ kind[v] = "delivery" /\ step[v] = 1 /\ step'[v] = 1
            /\ pc'[v] = "commit"
        BY <1>1, <2>2, <3>1, <3>5 DEF Executes, StatementDone, IsPlace, TypeOK
      <4>2. done'[v] = {}
        BY <1>3, <3>1, <3>2, <3>5, <4>1 DEF Reads
      <4> QED
        BY <1>1, <3>3, <4>1, <4>2 DEF Progress
    <3>6. CASE /\ ~(forced[v] /\ Statement(v) = "get_stocks")
               /\ ~(Statement(v) = "get_min_new_order" /\ Seen(v).newOrders = {})
               /\ step[v] = Length(kind[v])
      <4>1. kind'[v] = kind[v] /\ step'[v] = step[v] /\ pc'[v] = "commit"
        BY <1>1, <2>2, <3>1, <3>6 DEF Executes, StatementDone, TypeOK
      <4>2. done'[v] = Writes(kind[v])
        BY <1>1, <3>1, <3>2, <3>6, ExecutedNext
      <4> QED
        BY <1>1, <3>3, <3>6, <4>1, <4>2 DEF Progress
    <3>7. CASE /\ ~(forced[v] /\ Statement(v) = "get_stocks")
               /\ ~(Statement(v) = "get_min_new_order" /\ Seen(v).newOrders = {})
               /\ step[v] # Length(kind[v])
      <4>1. kind'[v] = kind[v] /\ step'[v] = step[v] + 1 /\ pc'[v] = "body"
        BY <1>1, <2>2, <3>1, <3>7 DEF Executes, StatementDone, TypeOK
      <4>2. step[v] + 1 <= Length(kind[v])
        BY <1>3, <3>1, <3>7
      <4> QED
        BY <1>1, <3>2, <3>3, <4>1, <4>2 DEF Progress
    <3> QED
      BY <3>4, <3>5, <3>6, <3>7
  <2> QED
    BY <1>5, <2>1, <2>2 DEF ExecStatement, Executes
<1>6. ASSUME NEW v \in VUs, StatementFails(v)
      PROVE  Progress'
  BY <1>1, <1>6 DEF StatementFails, BodyFails, Progress, TypeOK
<1>7. ASSUME NEW v \in VUs, CommitTx(v)
      PROVE  Progress'
  <2>1. /\ pc'[v] \in {"idle", "decide"} /\ done'[v] = {} /\ step'[v] = 1
        /\ \A u \in VUs \ {v} : /\ pc'[u] = pc[u] /\ kind'[u] = kind[u]
                                /\ step'[u] = step[u] /\ done'[u] = done[u]
    BY <1>1, <1>7 DEF CommitTx, EndTx, TypeOK
  <2> QED
    BY <1>1, <2>1 DEF Progress
<1>8. ASSUME NEW v \in VUs, RollbackTx(v)
      PROVE  Progress'
  <2>1. /\ pc'[v] \in {"idle", "decide"} /\ done'[v] = {} /\ step'[v] = 1
        /\ \A u \in VUs \ {v} : /\ pc'[u] = pc[u] /\ kind'[u] = kind[u]
                                /\ step'[u] = step[u] /\ done'[u] = done[u]
    BY <1>1, <1>8 DEF RollbackTx, EndsTx, EndTx, TypeOK
  <2> QED
    BY <1>1, <2>1 DEF Progress
<1>9. ASSUME NEW v \in VUs, Decide(v)
      PROVE  Progress'
  BY <1>1, <1>9 DEF Decide, Progress, TypeOK
<1>10. CASE CancelRun
  BY <1>1, <1>10 DEF CancelRun, Progress
<1>11. CASE UNCHANGED vars
  BY <1>1, <1>11 DEF vars, Progress
<1> QED
  BY <1>2, <1>4, <1>5, <1>6, <1>7, <1>8, <1>9, <1>10, <1>11 DEF Next, VU, Finished

\* No transaction inserts an order number that is taken.
LEMMA NoDuplicateStep ==
    ASSUME IInv, [Next]_vars
    PROVE  NoDuplicateOrder'
<1>1. TypeOK /\ Progress /\ OwnsNumber /\ Numbering /\ NoDuplicateOrder
  BY DEF IInv
<1> USE DEF Goto, SetErr, EndIteration, vuVars, txVars, NoDuplicateOrder
<1>2. ASSUME NEW v \in VUs, StartIteration(v)
      PROVE  NoDuplicateOrder'
  BY <1>1, <1>2 DEF StartIteration
<1>3. ASSUME NEW v \in VUs, BeginAttempt(v)
      PROVE  NoDuplicateOrder'
  BY <1>1, <1>3 DEF BeginAttempt, TypeOK
<1>4. ASSUME NEW v \in VUs, ExecStatement(v)
      PROVE  NoDuplicateOrder'
  <2>1. ASSUME Statement(v) = "insert_order"
        PROVE  oID[v] \notin db.orders
    <3>1. kind[v] = "new_order" /\ step[v] = 4 /\ done[v] = Executed(kind[v], step[v])
      BY <1>1, <1>4, <2>1, NextPlace DEF ExecStatement, Progress, IsPlace
    <3>2. "get_district" \in done[v]
      BY <3>1 DEF Executed, Writes, Rank
    <3>3. oID[v] = db.nextOID /\ db.orders = 1..(db.nextOID - 1) /\ db.nextOID \in Nat
      BY <1>1, <3>2 DEF OwnsNumber, Numbering, Numbered, TypeOK, Contents
    <3> QED
      BY <3>3
  <2>2. CASE BodyFails(v, "serialization") \/ StatementDone(v)
    BY <1>1, <2>2 DEF BodyFails, StatementDone, TypeOK
  <2> QED
    BY <1>4, <2>1, <2>2 DEF ExecStatement
<1>5. ASSUME NEW v \in VUs, StatementFails(v)
      PROVE  NoDuplicateOrder'
  BY <1>1, <1>5 DEF StatementFails, BodyFails, StatementErrors, LostAnswers, TypeOK
<1>6. ASSUME NEW v \in VUs, CommitTx(v)
      PROVE  NoDuplicateOrder'
  BY <1>1, <1>6 DEF CommitTx, StatementErrors, LostAnswers, TypeOK
<1>7. ASSUME NEW v \in VUs, RollbackTx(v)
      PROVE  NoDuplicateOrder'
  BY <1>1, <1>7 DEF RollbackTx, FinishTx, LostAnswers, TypeOK
<1>8. ASSUME NEW v \in VUs, Decide(v)
      PROVE  NoDuplicateOrder'
  BY <1>1, <1>8 DEF Decide, TypeOK
<1>9. CASE CancelRun
  BY <1>1, <1>9 DEF CancelRun
<1>10. CASE UNCHANGED vars
  BY <1>1, <1>10 DEF vars
<1> QED
  BY <1>2, <1>3, <1>4, <1>5, <1>6, <1>7, <1>8, <1>9, <1>10 DEF Next, VU, Finished

\* Retry0 replays only what took no effect, and success is what the database said.
LEMMA ControlStep ==
    ASSUME IInv, [Next]_vars
    PROVE  Control' /\ AppliedOnce' /\ SuccessIsReal'
<1>1. TypeOK /\ Progress /\ Control /\ AppliedOnce /\ SuccessIsReal
  BY DEF IInv
<1> DEFINE Good(v) ==
       /\ err[v] = "sentinel" => pc[v] = "rollback" /\ forced[v]
       /\ pc[v] \in {"rollback", "decide"} => err[v] # "none"
       /\ forced[v] => kind[v] = "new_order" /\ pc[v] # "commit" /\ applied[v] = 0
       /\ forced[v] /\ pc[v] = "body" => step[v] <= 6
       /\ pc[v] \in {"attempt", "body", "commit", "rollback"} => applied[v] = 0
       /\ pc[v] = "decide" /\ applied[v] # 0 => ~Retryable(err[v])
       /\ pc[v] # "idle" => outcome[v] = "none"
       /\ applied[v] <= 1
       /\ outcome[v] = "ok" =>
              IF forced[v] THEN applied[v] = 0 /\ undone[v] ELSE applied[v] = 1
<1> DEFINE Same(u) ==
       /\ err'[u] = err[u] /\ pc'[u] = pc[u] /\ forced'[u] = forced[u] /\ kind'[u] = kind[u]
       /\ applied'[u] = applied[u] /\ step'[u] = step[u] /\ outcome'[u] = outcome[u]
       /\ undone'[u] = undone[u]
<1>2. \A u \in VUs : Good(u)
  BY <1>1 DEF Control, AppliedOnce, SuccessIsReal
<1>3. SUFFICES \A u \in VUs : Good(u)'
  BY DEF Control, AppliedOnce, SuccessIsReal
<1>4. ASSUME NEW u \in VUs, Same(u)
      PROVE  Good(u)'
  BY <1>2, <1>4 DEF Retryable
<1> USE DEF Goto, SetErr, EndIteration, vuVars, txVars
<1>5. ASSUME NEW v \in VUs, StartIteration(v)
      PROVE  \A u \in VUs : Good(u)'
  <2>1. \A u \in VUs \ {v} : Same(u)
    BY <1>1, <1>5 DEF StartIteration, TypeOK
  <2>2. Good(v)'
    BY <1>1, <1>2, <1>5 DEF StartIteration, TypeOK
  <2> QED
    BY <1>4, <2>1, <2>2
<1>6. ASSUME NEW v \in VUs, BeginAttempt(v)
      PROVE  \A u \in VUs : Good(u)'
  <2>1. \A u \in VUs \ {v} : Same(u)
    BY <1>1, <1>6 DEF BeginAttempt, TypeOK
  <2>2. Good(v)'
    BY <1>1, <1>2, <1>6 DEF BeginAttempt, TypeOK, Progress
  <2> QED
    BY <1>4, <2>1, <2>2
<1>7. ASSUME NEW v \in VUs, ExecStatement(v)
      PROVE  \A u \in VUs : Good(u)'
  <2>1. \A u \in VUs \ {v} : Same(u)
    BY <1>1, <1>7 DEF ExecStatement, BodyFails, StatementDone, TypeOK
  <2>2. CASE BodyFails(v, "serialization") \/ BodyFails(v, "duplicate")
    <3>1. Good(v)'
      BY <1>1, <1>2, <1>7, <2>2 DEF ExecStatement, BodyFails, TypeOK
    <3> QED
      BY <1>4, <2>1, <3>1
  <2>3. CASE Executes(v)
    <3>1. /\ IsPlace(kind[v], step[v], Statement(v))
          /\ Len(Body(v)) = Length(kind[v])
          /\ step[v] \in 1..8
      BY <1>1, <2>3, NextPlace DEF Executes, Progress, TypeOK
    <3>2. CASE forced[v] /\ Statement(v) = "get_stocks"
      <4>1. kind[v] = "new_order" /\ step[v] = 6 /\ step'[v] = 6
        BY <1>1, <2>3, <3>1, <3>2 DEF Executes, StatementDone, IsPlace, TypeOK
      <4>2. pc'[v] = "rollback" /\ err'[v] = "sentinel"
        BY <1>1, <2>3, <3>1, <3>2, <4>1 DEF Executes, StatementDone, Length, TypeOK
      <4>3. /\ forced' = forced /\ kind' = kind /\ applied' = applied
            /\ outcome' = outcome /\ undone' = undone /\ pc[v] = "body"
        BY <2>3 DEF Executes
      <4> QED
        BY <1>2, <1>4, <2>1, <3>2, <4>1, <4>2, <4>3
    <3>3. CASE ~(forced[v] /\ Statement(v) = "get_stocks")
      <4>1. /\ forced' = forced /\ kind' = kind /\ applied' = applied
            /\ outcome' = outcome /\ undone' = undone /\ pc[v] = "body"
            /\ err' = err /\ pc'[v] \in {"body", "commit"}
        BY <1>1, <2>3, <3>3 DEF Executes, StatementDone, TypeOK
      <4>2. forced[v] => step[v] <= 5 /\ kind[v] = "new_order"
        BY <1>2, <3>1, <3>3, <4>1 DEF IsPlace
      <4>3. forced[v] => pc'[v] = "body" /\ step'[v] <= 6
        <5>1. step'[v] \in {step[v], step[v] + 1}
          BY <2>3, StatementEffect
        <5>2. forced[v] => Statement(v) # "get_min_new_order" /\ step[v] # Len(Body(v))
          BY <3>1, <4>2 DEF IsPlace, Length
        <5>3. forced[v] => pc'[v] = "body"
          BY <1>1, <2>3, <3>3, <4>1, <5>2 DEF Executes, StatementDone, TypeOK
        <5> QED
          BY <3>1, <4>2, <5>1, <5>3
      <4> QED
        BY <1>2, <1>4, <2>1, <4>1, <4>3
    <3> QED
      BY <3>2, <3>3
  <2> QED
    BY <1>7, <2>2, <2>3 DEF ExecStatement, Executes
<1>8. ASSUME NEW v \in VUs, StatementFails(v)
      PROVE  \A u \in VUs : Good(u)'
  <2>1. \A u \in VUs \ {v} : Same(u)
    BY <1>1, <1>8 DEF StatementFails, BodyFails, TypeOK
  <2>2. Good(v)'
    BY <1>1, <1>2, <1>8 DEF StatementFails, BodyFails, StatementErrors, LostAnswers, TypeOK
  <2> QED
    BY <1>4, <2>1, <2>2
<1>9. ASSUME NEW v \in VUs, CommitTx(v)
      PROVE  \A u \in VUs : Good(u)'
  <2>1. \A u \in VUs \ {v} : Same(u)
    BY <1>1, <1>9 DEF CommitTx, TakeEffect, EndTx, TypeOK
  <2>2. /\ forced' = forced /\ kind' = kind /\ undone' = undone /\ pc[v] = "commit"
        /\ ~forced[v] /\ applied[v] = 0 /\ outcome[v] = "none" /\ err[v] # "sentinel"
    BY <1>2, <1>9 DEF CommitTx
  <2>3. CASE TakeEffect(v) /\ EndIteration(v, "none")
    BY <1>1, <1>4, <2>1, <2>2, <2>3 DEF TakeEffect, TypeOK
  <2>4. CASE /\ \E e \in LostAnswers : SetErr(v, e)
             /\ TakeEffect(v) /\ Goto(v, "decide") /\ UNCHANGED outcome
    BY <1>1, <1>4, <2>1, <2>2, <2>4 DEF TakeEffect, LostAnswers, Retryable, TypeOK
  <2>5. CASE /\ \E e \in StatementErrors : SetErr(v, e)
             /\ Goto(v, "decide") /\ UNCHANGED <<db, applied, outcome>>
    BY <1>1, <1>4, <2>1, <2>2, <2>5 DEF StatementErrors, LostAnswers, TypeOK
  <2> QED
    BY <1>9, <2>3, <2>4, <2>5 DEF CommitTx
<1>10. ASSUME NEW v \in VUs, RollbackTx(v)
       PROVE  \A u \in VUs : Good(u)'
  <2>1. \A u \in VUs \ {v} : Same(u)
    BY <1>1, <1>10 DEF RollbackTx, EndsTx, EndTx, TypeOK
  <2>2. /\ forced' = forced /\ kind' = kind /\ applied' = applied /\ pc[v] = "rollback"
        /\ applied[v] = 0 /\ outcome[v] = "none" /\ err[v] # "none"
        /\ err[v] = "sentinel" => forced[v]
    BY <1>2, <1>10 DEF RollbackTx
  <2>3. PICK rb \in {"none"} \cup LostAnswers :
            /\ undone' = [undone EXCEPT ![v] = rb = "none"]
            /\ IF FinishTx(v, rb) = "none"
               THEN EndIteration(v, "none")
               ELSE Goto(v, "decide") /\ SetErr(v, FinishTx(v, rb)) /\ UNCHANGED outcome
    BY <1>10 DEF RollbackTx
  <2>4. CASE FinishTx(v, rb) = "none"
    <3>1. rb = "none" /\ err[v] = "sentinel"
      BY <2>2, <2>4 DEF FinishTx
    <3>2. pc'[v] = "idle" /\ outcome'[v] = "ok" /\ err'[v] = "none"
      BY <1>1, <2>3, <2>4 DEF TypeOK
    <3>3. undone'[v]
      <4>1. undone' = [undone EXCEPT ![v] = TRUE] /\ undone \in [VUs -> BOOLEAN]
        BY <1>1, <2>3, <3>1 DEF TypeOK
      <4> QED
        BY <4>1
    <3>4. Good(v)'
      <4>1. forced'[v] /\ applied'[v] = 0
        BY <2>2, <3>1
      <4>2. pc'[v] # "rollback" /\ pc'[v] # "decide" /\ pc'[v] # "commit" /\ pc'[v] # "body"
        BY <3>2
      <4>3. forced'[v] => kind'[v] = "new_order"
        BY <1>2, <2>2
      <4> QED
        BY <3>2, <3>3, <4>1, <4>2, <4>3
    <3> QED
      BY <1>4, <2>1, <3>4
  <2>5. CASE FinishTx(v, rb) # "none"
    <3>1. FinishTx(v, rb) # "sentinel"
      BY <2>3 DEF FinishTx, LostAnswers
    <3> QED
      BY <1>1, <1>2, <1>4, <2>1, <2>2, <2>3, <2>5, <3>1 DEF TypeOK
  <2> QED
    BY <2>4, <2>5
<1>11. ASSUME NEW v \in VUs, Decide(v)
       PROVE  \A u \in VUs : Good(u)'
  <2>1. \A u \in VUs \ {v} : Same(u)
    BY <1>1, <1>11 DEF Decide, TypeOK
  <2>2. Good(v)'
    BY <1>1, <1>2, <1>11 DEF Decide, Retryable, TypeOK
  <2> QED
    BY <1>4, <2>1, <2>2
<1>12. CASE CancelRun
  BY <1>4, <1>12 DEF CancelRun
<1>13. CASE UNCHANGED vars
  BY <1>4, <1>13 DEF vars
<1> QED
  BY <1>5, <1>6, <1>7, <1>8, <1>9, <1>10, <1>11, <1>12, <1>13 DEF Next, VU, Finished

-----------------------------------------------------------------------------
(* The theorems.                                                           *)

LEMMA InitInvariant ==
    ASSUME Init
    PROVE  IInv
<1>1. TypeOK
  <2>1. Loaded \in Contents
    <3>1. [o \in OrderIds |-> 0] \in [OrderIds -> Nat]
      OBVIOUS
    <3> QED
      BY <3>1 DEF Loaded, Contents
  <2>2. MaxAttempts \in Int /\ MaxIterations \in Nat
    BY TpccTxAssumption
  <2>3. 1 \in 1..Attempts /\ MaxIterations \in 0..MaxIterations
    BY <2>2 DEF Attempts
  <2>4. db \in Contents /\ snapshot \in [VUs -> Contents]
    BY <2>1 DEF Init
  <2>5. attempt \in [VUs -> 1..Attempts] /\ left \in 0..MaxIterations
    BY <2>3 DEF Init
  <2>6. done \in [VUs -> SUBSET Writing] /\ stale \in [VUs -> SUBSET Rows]
    BY DEF Init
  <2>7. /\ pc \in [VUs -> {"idle", "attempt", "body", "commit", "rollback", "decide"}]
        /\ kind \in [VUs -> {"new_order"} \cup Kinds]
        /\ err \in [VUs -> Errors]
        /\ outcome \in [VUs -> {"none", "ok", "error"}]
    BY DEF Init, Errors
  <2>8. /\ ctxDone \in BOOLEAN /\ forced \in [VUs -> BOOLEAN] /\ undone \in [VUs -> BOOLEAN]
    BY DEF Init
  <2>9. /\ step \in [VUs -> 1..8] /\ oID \in [VUs -> Nat] /\ quantity \in [VUs -> Int]
        /\ applied \in [VUs -> Nat]
    BY DEF Init
  <2> QED
    BY <2>4, <2>5, <2>6, <2>7, <2>8, <2>9 DEF TypeOK
<1>2. Progress /\ Control /\ OwnsNumber /\ FreshRows /\ FreshReads
  BY DEF Init, Progress, Control, OwnsNumber, FreshRows, FreshReads, FreshRead
<1>3. LocksExclude /\ NotStale
  BY DEF Init, LocksExclude, NotStale, Locked
<1>4. Numbering
  <2>1. Numbered(Loaded)
    BY DEF Numbered, Loaded
  <2> QED
    BY <2>1 DEF Init, Numbering
<1>5. Books
  <2>1. Consistent
    BY DEF Init, Consistent, Loaded
  <2>2. DeliveredOnce
    BY DEF Init, DeliveredOnce, Loaded
  <2> QED
    BY <2>1, <2>2 DEF Books
<1>6. AppliedOnce /\ SuccessIsReal /\ NoDuplicateOrder
  BY DEF Init, AppliedOnce, SuccessIsReal, NoDuplicateOrder
<1> QED
  BY <1>1, <1>2, <1>3, <1>4, <1>5, <1>6 DEF IInv

\* The invariant holds in every state, for any number of VUs and both isolation levels.
THEOREM Invariance == Spec => []IInv
<1>1. Init => IInv
  BY InitInvariant
<1>2. IInv /\ [Next]_vars => IInv'
  <2> SUFFICES ASSUME IInv, [Next]_vars
               PROVE  IInv'
    OBVIOUS
  <2> QED
    BY TypeStep, ProgressStep, ControlStep, LocksStep, NumberStep, FreshRowsStep,
       FreshReadsStep, NotStaleStep, NumberingStep, BooksStep, NoDuplicateStep DEF IInv
<1> QED
  BY <1>1, <1>2, PTL DEF Spec

\* Every variable of the VUs, their transactions and the database keeps its range.
THEOREM TypeCorrect == Spec => []TypeOK
<1>1. IInv => TypeOK
  BY DEF IInv
<1> QED
  BY <1>1, Invariance, PTL

\* Between iterations and while Retry0 decides, no transaction of the VU is left open,
\* whatever failed: every way out of a body commits or rolls back.
THEOREM NoOrphan == Spec => []NoOrphanTx
<1>1. IInv => NoOrphanTx
  BY DEF IInv, Progress, NoOrphanTx
<1> QED
  BY <1>1, Invariance, PTL

\* However often Retry0 replays an iteration, its effects reach the database once.
THEOREM AppliedAtMostOnce == Spec => []AppliedOnce
<1>1. IInv => AppliedOnce
  BY DEF IInv
<1> QED
  BY <1>1, Invariance, PTL

\* A reported success is a commit the database acknowledged, or a spec rollback it
\* acknowledged.
THEOREM SuccessSound == Spec => []SuccessIsReal
<1>1. IInv => SuccessIsReal
  BY DEF IInv
<1> QED
  BY <1>1, Invariance, PTL

\* The district lock of get_district alone keeps order numbers unique: this holds
\* under READ COMMITTED too.
THEOREM OrderNumbersUnique == Spec => []NoDuplicateOrder
<1>1. IInv => NoDuplicateOrder
  BY DEF IInv
<1> QED
  BY <1>1, Invariance, PTL

\* Under REPEATABLE READ the consistency conditions that validatePopulation checks
\* after the load hold at every moment of the run.
THEOREM ConsistentAlways ==
    ASSUME UsesSnapshot
    PROVE  Spec => []Consistent
<1>1. IInv => Consistent
  BY DEF IInv, Books
<1> QED
  BY <1>1, Invariance, PTL

\* Under REPEATABLE READ no order is delivered twice and none is lost.
THEOREM DeliveredAtMostOnce ==
    ASSUME UsesSnapshot
    PROVE  Spec => []DeliveredOnce
<1>1. IInv => DeliveredOnce
  BY DEF IInv, Books
<1> QED
  BY <1>1, Invariance, PTL

=============================================================================
