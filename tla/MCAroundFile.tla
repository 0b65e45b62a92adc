---------------------------- MODULE MCAroundFile ----------------------------
(* An instance of AroundFile for TLC.  An hour has two ticks and a day two *)
(* hours; the numbers of two days leave one out.  r1 and r2 of k1 are of   *)
(* one hour, r3 of another cell and the next hour; r5 of k2 is of the cell *)
(* of r1 and r2, at the same hour of the next day.                         *)
EXTENDS AroundFile, TLC

CONSTANTS k1, k2, r1, r2, r3, r5, a, b

MCKeyOf  == [r \in Records |-> IF r = r5 THEN k2 ELSE k1]
MCTimes  == (r1 :> 0) @@ (r2 :> 1) @@ (r3 :> 3) @@ (r5 :> 4)
MCTimeOf == [r \in Records |-> MCTimes[r]]
MCCellOf == [r \in Records |-> IF r = r3 THEN b ELSE a]

MCRequests ==
  {[begin |-> 0, end |-> 5, cells |-> {a, b}, selects |-> Records],
   [begin |-> 1, end |-> 4, cells |-> {a, b}, selects |-> Records],
   [begin |-> 0, end |-> 3, cells |-> {a}, selects |-> Records \cap {r1, r2, r5}]}

(* the cells whose file of this hour nobody will write *)
NoFileIn == {c \in cells : <<iCurHour, c>> \notin Files}

(* Nothing is promised of a record that missed the current map, or of a     *)
(* device that sends out of order.  Steps that neither read nor write what  *)
(* the other side uses are taken at once: the steps of a pass around the    *)
(* child, and those of a query between two files that exist.  An empty pass *)
(* changes nothing, and a child that fails while a query runs is to the     *)
(* query one that stops.                                                    *)
MCScenario ==
  /\ ~raced' /\ ordered' = Keys
  /\ pass = "wait" => pass' = "wait" \/ Held(active) # {}
  /\ pass = "begun" => pass' = "moving"
  /\ pass = "moving" /\ must \ moved # {} => moved' # moved
  /\ pass = "moving" /\ must \subseteq moved /\ Unvisited = {} => pass' = "wait"
  /\ fails' # fails => query = None
  /\ qpc = "files" /\ (cells = {} \/ NoFileIn # {}) => <<qpc', cells'>> # <<qpc, cells>>
  /\ qpc' = "files" /\ NoFileIn # {} => NoFileIn \ cells' # {}
  /\ qpc = "done" => qpc' # "done"

MCSpec == AroundInit /\ [][AroundNext /\ MCScenario]_vars
=============================================================================
