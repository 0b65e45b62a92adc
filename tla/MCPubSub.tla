----------------------------- MODULE MCPubSub ------------------------------
(* Instances of PubSub for TLC. *)
EXTENDS PubSub, TLC

CONSTANTS r1, r2, r3

MCRequest(t, i, s) ==
  [type |-> t, id |-> i, selects |-> s, long |-> FALSE, right |-> TRUE]

(* Two customers: one leaves and subscribes again; the line of the other   *)
(* is too long to be read back, or it has a rectangle.                     *)
MCRequests ==
  {MCRequest("circle", 1, {r1}), MCRequest("unsub", 1, {}),
   MCRequest("rect", 2, {r2}),
   [MCRequest("keys", 2, {r1, r2}) EXCEPT !.long = TRUE]}

(* one customer who stays *)
MCOneRequest == {MCRequest("all", 1, {})}
=============================================================================
