-------------------------- MODULE MCWorkloadSetup --------------------------
(***************************************************************************)
(* WorkloadSetup for TLC: one instance over two warehouses, the            *)
(* scaled-down factors of the population, and the step filters of the      *)
(* documentation.                                                          *)
(***************************************************************************)
EXTENDS WorkloadSetup, Bitwise

MCStart == [i \in Instances |-> 1]
MCScale == [i \in Instances |-> 2]

\* A hash of two bits in which the round and the half both matter.
MCSplitMix64(key, round, half) == (3 * key + 2 * round + (half + 1) * (half + key)) % 4

MCBitXor(a, b) == a ^^ b

Only(S) == [only |-> S, except |-> {}]
Except(S) == [only |-> {}, except |-> S]

\* The whole run, its load or its measured phase alone, and what skips a step the
\* others rely on.
Every == {Except({}), Except({"workload"}), Only({"workload"}), Except({"drop_schema"}),
          Only({"validate_population"}), Only({"load_data", "validate_population"})}

AllTargets ==
    ({"tpcc", "tpcb", "tpch", "tpcds"} \X {"postgres", "mysql", "ydb", "picodata"})
        \cup ({"simple"} \X {"postgres", "mysql"})

=============================================================================
