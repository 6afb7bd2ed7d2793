----------------------------- MODULE Population -----------------------------
(***************************************************************************)
(* The rows the workloads load and the checks made of them.  A table is a  *)
(* function from primary keys to the columns that the checks or the        *)
(* foreign keys read; the row of every table is a formula of its entity    *)
(* index, so that workers can generate disjoint ranges independently.      *)
(*                                                                         *)
(* The factors of TPC-C (ten districts, 3000 customers, ...) are constants *)
(* and scaled down.  Texts, prices and dates are left out.                 *)
(***************************************************************************)
EXTENDS Integers, Sequences, FiniteSets, FiniteSetsExt

CONSTANTS
    DistrictsPerWarehouse,
    CustomersPerDistrict,
    Items,                 \* items, and itemsPerWh
    OrdersDelivered,
    OlCntFixed,
    DistrictNextOID,       \* districtNextOID, a literal of its own
    TellersPerBranch,
    AccountsPerBranch,
    ReferenceRows,         \* rows of a table of the ported generators
    SplitMix64(_, _, _),   \* the hash of a round key, a round and a half
    BitXor(_, _)           \* ^, the bitwise exclusive or

ASSUME PopulationAssumption ==
    /\ {DistrictsPerWarehouse, CustomersPerDistrict, Items, OlCntFixed,
        TellersPerBranch, AccountsPerBranch, ReferenceRows} \subseteq Nat \ {0}
    /\ OrdersDelivered \in 0..(CustomersPerDistrict - 1)
    /\ DistrictNextOID \in Nat

CustomersPerWh == DistrictsPerWarehouse * CustomersPerDistrict

OrdersUndelivered == CustomersPerDistrict - OrdersDelivered

\* districtYTD and warehouseYTD: 30000.00 and 300000.00.
DistrictYtd == 1
WarehouseYtd == DistrictsPerWarehouse * DistrictYtd

-----------------------------------------------------------------------------
(* gen.Permute: a balanced Feistel network of four rounds, walked until it *)
(* lands below n.                                                          *)

HalfWidthBits(n) ==
    LET width == CHOOSE b \in 0..n : 2^b >= n /\ \A a \in 0..(b - 1) : 2^a < n
        half == (width + 1) \div 2
    IN  IF half = 0 THEN 1 ELSE half

FeistelEncrypt(x, key, base) ==
    LET halves[r \in 0..4] ==
            IF r = 0 THEN <<x \div base, x % base>>
            ELSE LET h == halves[r - 1]
                     mixed == SplitMix64(key, r - 1, h[2])
                 IN  <<h[2], (BitXor(h[1], mixed)) % base>>
    IN  halves[4][1] * base + halves[4][2]

\* Mutant: the result is folded into range instead of enciphered again.
PermuteFolded(seed, idx, n) == FeistelEncrypt(idx, seed, 2^HalfWidthBits(n)) % n

\* The walk leaves idx's cycle at its first element below n; the bound on the walk
\* (maxWalks) is never met, since the cycle returns to idx itself.
Permute(seed, idx, n) ==
    LET base == 2^HalfWidthBits(n)
        walk[k \in 0..(base * base)] ==
            IF k = 0 THEN FeistelEncrypt(idx, seed, base)
            ELSE LET last == walk[k - 1]
                 IN  IF last < n THEN last ELSE FeistelEncrypt(last, seed, base)
    IN  IF n = 1 THEN 0 ELSE walk[base * base]

-----------------------------------------------------------------------------
(* The row formulas: the key and the kept columns of entity e of a table.  *)
(* start is warehouse-start; scale the scale factor.                       *)

Entry(key, columns) == [key |-> key, columns |-> columns]

\* Entity e's warehouse and district, when a district has `factor` entities.
FanOut(e, factor, start) ==
    <<e \div (factor * DistrictsPerWarehouse) + start,
      1 + ((e \div factor) % DistrictsPerWarehouse)>>

\* w_ytd.
WarehouseRow(e, start) == Entry(<<e + start>>, WarehouseYtd)

DistrictRow(e, start) ==
    Entry(FanOut(e, 1, start), [ytd |-> DistrictYtd, next |-> DistrictNextOID])

CustomerRow(e, start) ==
    Entry(Append(FanOut(e, CustomersPerDistrict, start), 1 + (e % CustomersPerDistrict)), 0)

ItemRow(e) == Entry(<<e + 1>>, 0)

StockRow(e, start) == Entry(<<e \div Items + start, 1 + (e % Items)>>, 0)

\* o_c_id: a permutation of the district's customers, seeded by the district.
OrdersRow(e, start) ==
    LET district == FanOut(e, CustomersPerDistrict, start)
        o == 1 + (e % CustomersPerDistrict)
    IN  Entry(Append(district, o),
              Permute(district[1] * 100 + district[2], o - 1, CustomersPerDistrict) + 1)

OrderLineRow(e, start) ==
    Entry(FanOut(e, CustomersPerDistrict * OlCntFixed, start)
              \o <<1 + ((e \div OlCntFixed) % CustomersPerDistrict), 1 + (e % OlCntFixed)>>, 0)

NewOrderRow(e, start) ==
    Entry(Append(FanOut(e, OrdersUndelivered, start),
                 (e % OrdersUndelivered) + OrdersDelivered + 1), 0)

BranchesRow(e) == Entry(<<e + 1>>, 0)

\* bid.
TellersRow(e) == Entry(<<e + 1>>, e \div TellersPerBranch + 1)
AccountsRow(e) == Entry(<<e + 1>>, e \div AccountsPerBranch + 1)

DemoRow(e) == Entry(<<e + 1>>, 0)

\* A table of the ported dbgen and dsdgen: rows numbered in order.
ReferenceRow(e) == Entry(<<e + 1>>, 0)

TotalRows(table, scale) ==
    CASE table = "warehouse"  -> scale
      [] table = "district"   -> scale * DistrictsPerWarehouse
      [] table \in {"customer", "orders"} -> scale * CustomersPerWh
      [] table = "item"       -> Items
      [] table = "stock"      -> scale * Items
      [] table = "order_line" -> scale * CustomersPerWh * OlCntFixed
      [] table = "new_order"  -> scale * DistrictsPerWarehouse * OrdersUndelivered
      [] table = "pgbench_branches" -> scale
      [] table = "pgbench_tellers"  -> scale * TellersPerBranch
      [] table = "pgbench_accounts" -> scale * AccountsPerBranch
      [] OTHER -> ReferenceRows

Row(table, e, start) ==
    CASE table = "warehouse"  -> WarehouseRow(e, start)
      [] table = "district"   -> DistrictRow(e, start)
      [] table = "customer"   -> CustomerRow(e, start)
      [] table = "item"       -> ItemRow(e)
      [] table = "stock"      -> StockRow(e, start)
      [] table = "orders"     -> OrdersRow(e, start)
      [] table = "order_line" -> OrderLineRow(e, start)
      [] table = "new_order"  -> NewOrderRow(e, start)
      [] table = "pgbench_branches" -> BranchesRow(e)
      [] table = "pgbench_tellers"  -> TellersRow(e)
      [] table = "pgbench_accounts" -> AccountsRow(e)
      [] table = "stroppy_demo"     -> DemoRow(e)
      [] OTHER -> ReferenceRow(e)

\* The rows of the entities in E, and the whole table.
Rows(table, E, start) ==
    LET rows == {Row(table, e, start) : e \in E}
    IN  [k \in {r.key : r \in rows} |-> (CHOOSE r \in rows : r.key = k).columns]

Whole(table, start, scale) == Rows(table, 0..(TotalRows(table, scale) - 1), start)

-----------------------------------------------------------------------------
(* validatePopulation, over the warehouses start..start + scale - 1.       *)

Slice(rows, start, scale) ==
    [k \in {k \in DOMAIN rows : k[1] \in start..(start + scale - 1)} |-> rows[k]]

TpccSliced == {"warehouse", "district", "customer", "stock", "orders", "order_line",
               "new_order"}

SumOver(f) == MapThenSumSet(LAMBDA k : f[k], DOMAIN f)

\* The orders of a district in table t, by number; the maximum of none is zero.
Numbers(t, k) == {o[3] : o \in {o \in DOMAIN t : o[1] = k[1] /\ o[2] = k[2]}}
MaxOf(S) == IF S = {} THEN 0 ELSE Max(S)
MinOf(S) == IF S = {} THEN 0 ELSE Min(S)

\* checkCardinalities.
CardinalitiesHold(rows, in, scale) ==
    /\ Cardinality(DOMAIN rows["item"]) = Items
    /\ \A t \in TpccSliced : Cardinality(DOMAIN in[t]) = TotalRows(t, scale)

\* checkConsistency: CC1 and CC4, and CC2a, CC2b and CC3 of every district.
ConsistencyHolds(in) ==
    LET district == in["district"]
    IN  /\ SumOver(in["warehouse"]) = SumOver([k \in DOMAIN district |-> district[k].ytd])
        /\ \A k \in DOMAIN district :
              LET orders == Numbers(in["orders"], k)
                  new == Numbers(in["new_order"], k)
              IN  /\ MaxOf(orders) = district[k].next - 1
                  /\ MaxOf(orders) = MaxOf(new)
                  /\ MaxOf(new) - MinOf(new) + 1 = Cardinality(new)
        /\ Cardinality(DOMAIN in["orders"]) * OlCntFixed
               = Cardinality(DOMAIN in["order_line"])

\* checkDistribution, its constant columns; those of random columns are left out.
DistributionHolds(in) ==
    /\ \A k \in DOMAIN in["warehouse"] : in["warehouse"][k] = WarehouseYtd
    /\ \A k \in DOMAIN in["district"] : in["district"][k].next = DistrictNextOID

\* rows: the contents of every table.  An aggregate over a missing table is an error
\* and fails its check.
ValidatePopulation(rows, start, scale) ==
    LET in == [t \in TpccSliced |-> Slice(rows[t], start, scale)]
    IN  /\ CardinalitiesHold(rows, in, scale)
        /\ ConsistencyHolds(in)
        /\ DistributionHolds(in)

=============================================================================
