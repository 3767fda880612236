---------------------------- MODULE MCQueryPlan ----------------------------
(***************************************************************************)
(* All plans of a few operators over two names.                            *)
(***************************************************************************)
EXTENDS QueryPlan, TLC

Symmetry == Permutations(StreamNames)

MCOperations == {<<>>, <<"combine">>, <<"combine", "select">>, <<"mean">>}
=============================================================================
