---------------------------- MODULE MCTideStore ----------------------------
(* Instances of TideStore for TLC: two devices with a record each, or the  *)
(* first with two.                                                         *)
EXTENDS TideStoreMaps, TLC

CONSTANTS k1, k2, r1, r2, r3

MCRecords2  == {r1, r2}
MCKeyOf2    == [r \in MCRecords2 |-> k1]
MCRecords3  == {r1, r2, r3}
MCKeyOf3    == [r \in MCRecords3 |-> IF r = r3 THEN k2 ELSE k1]
MCTwoKeys   == [r \in MCRecords2 |-> IF r = r1 THEN k1 ELSE k2]
MCSingles2  == {<<r1>>, <<r2>>}
MCBatches3  == {<<r1, r3>>, <<r2>>}

(* Two records of one device are alike: the one received first is called r1 *)
(* if the binary writer receives it, and r2 if the REST writer does.        *)
MCNamed(w, q) == wreq'[w] # wreq[w] /\ todo = MCSingles2 => todo' = MCSingles2 \ {q}
MCFairSpec    ==
  /\ Init
  /\ [][/\ Next
        /\ \A w \in BinaryWriters : MCNamed(w, <<r1>>)
        /\ \A w \in RestWriters : MCNamed(w, <<r2>>)]_vars
  /\ Fairness

(* the two devices of MCTwoKeys with their records are alike *)
MCAlike == {p \in Permutations(Keys \cup MCRecords2) :
              \A r \in MCRecords2 : p[r] \in MCRecords2 /\ p[MCTwoKeys[r]] = MCTwoKeys[p[r]]}
=============================================================================
