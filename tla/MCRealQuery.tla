---------------------------- MODULE MCRealQuery ----------------------------
(* An instance of RealQuery for TLC: two records of one device and one of  *)
(* another.                                                                *)
EXTENDS RealQuery

CONSTANTS k1, k2, r1, r2, r3, r4

(* Nothing is promised once a record missed the current map, and a query    *)
(* that is finished is only weakened by what is stored after it.            *)
MCScenario ==
  /\ raced' => query' = NoQuery
  /\ Finished => query' = NoQuery

MCSpec == QueryInit /\ [][(Beside \/ Query) /\ MCScenario]_<<maps, qvars>>

MCKeyOf == [r \in Records |-> IF r = r4 THEN k2 ELSE k1]
=============================================================================
