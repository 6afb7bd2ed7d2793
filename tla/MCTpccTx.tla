------------------------------ MODULE MCTpccTx ------------------------------
(***************************************************************************)
(* TpccTx for TLC: the VUs are interchangeable, since no definition names  *)
(* or compares them.                                                       *)
(***************************************************************************)
EXTENDS TpccTx, TLC

\* Sound for the invariants; the liveness run does not use it.
VUSymmetry == Permutations(VUs)

=============================================================================
