---------------------------- MODULE MCAttackGraph ----------------------------
(* Two libraries and two CVEs: the second library is correlated with v1 by   *)
(* an alias that the graph's own matcher does not know.                      *)
EXTENDS AttackGraph

MCCorrelated == {<<"l1", "v1">>, <<"l2", "v1">>, <<"l2", "v2">>}
MCMatched    == {<<"l1", "v1">>, <<"l2", "v2">>, <<"l1", "v2">>}
MCScore      == [v1 |-> 5, v2 |-> 5]
=============================================================================
