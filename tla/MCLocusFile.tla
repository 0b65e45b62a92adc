---------------------------- MODULE MCLocusFile ----------------------------
(* Instances of LocusFile for TLC.  An hour has two ticks and a day two    *)
(* hours; two devices share a bucket.  r4 of k1 is of the hour of r1 and   *)
(* r2 a day later; r2 is farther from r1 than the press distance and r4 is *)
(* not.                                                                    *)
EXTENDS LocusFile, TLC

CONSTANTS k1, k2, r1, r2, r3, r4, r5

MCBucketOf == [k \in Keys |-> 0]

MCKeyOf  == [r \in Records |-> IF r = r5 THEN k2 ELSE k1]
MCTimeOf == (r1 :> 0) @@ (r2 :> 1) @@ (r3 :> 3) @@ (r4 :> 4) @@ (r5 :> 1)
MCPosOf  == (r1 :> 0) @@ (r2 :> 3) @@ (r3 :> 5) @@ (r4 :> 1) @@ (r5 :> 4)

MCQueries ==
  {[key |-> k1, begin |-> 0, end |-> 3, cur_page |-> 1, page_size |-> 9],
   [key |-> k1, begin |-> 1, end |-> 5, cur_page |-> 1, page_size |-> 9],
   [key |-> k1, begin |-> 0, end |-> 5, cur_page |-> 2, page_size |-> 1]}

(* either four records of two devices and no fault, or three records over  *)
(* two days with a kill, a file that does not open and the longer queries  *)
Arrived == UNION {{arrived[k][i] : i \in DOMAIN arrived[k]} : k \in Keys}

MCScenario ==
  \/ Arrived \subseteq {r1, r2, r3, r5} /\ crashes + fails = 0
  \/ Arrived \subseteq {r1, r2, r4} /\ (query # None => query.end = 5)

(* An answer that is complete does not change, and what arrives after it    *)
(* only weakens what is claimed of it.                                      *)
MCSpec ==
  /\ Init
  /\ [][/\ Next /\ MCScenario'
        /\ qpc \notin {"done", "undefined"}
        /\ ppc = "wait" => ppc' = "wait" \/ mem[active] # Empty]_vars
=============================================================================
