---------------------------- MODULE MCStatements ----------------------------
(* Model values for the VUs and the templates of Statements. *)
EXTENDS Statements, TLC

CONSTANTS u1, u2, t1, t2, t3

\* Every driver with a timeout; MySQL with one that no hint can express; none at all.
MCSettings ==
    {<<"postgres", "usual">>, <<"mysql", "usual">>, <<"ydb", "usual">>, <<"picodata", "usual">>,
     <<"mysql", "tiny">>, <<"postgres", "none">>}

StatementSymmetry == Permutations(VUs) \cup Permutations(Templates)
=============================================================================
