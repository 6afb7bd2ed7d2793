------------------------- MODULE MCComplianceReport -------------------------
(***************************************************************************)
(* Small instances of ComplianceReport.                                    *)
(***************************************************************************)
EXTENDS ComplianceReport, TLC

\* Buckets up to one, two and three milliseconds, and the overflow.
MCBounds == <<1, 2, 3>>

\* Nothing reads what is counted of rollbacks.
WithoutRollback ==
    <<run, perVU, total, hist, notes, slots, truncated, history>>

\* The stored procedures differ in the rollback only, pacing in what is reported: one
\* paced run of the DML steps and one unpaced run of the procedures show both.
Combined == pacing <=> variant = "tx"

VUSymmetry == Permutations(VUs)
=============================================================================
