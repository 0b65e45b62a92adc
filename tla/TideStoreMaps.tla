---------------------------- MODULE TideStoreMaps ----------------------------
(* TideStore implements LiveMaps, what the queries see of the store.       *)
EXTENDS TideStore

Progressing == CASE ppc = "wait" -> "wait" [] ppc = "join" -> "moving" [] OTHER -> "begun"

Maps == INSTANCE LiveMaps WITH pass <- Progressing, moved <- visited["last"],
                               raced <- exempt # {}

(* Between a start and a kill, if no child fails, readers of the maps see   *)
(* what LiveMaps says: a record enters the current map at once, clearing   *)
(* and swapping are steps of their own, and each device of the retired map *)
(* has its last position moved before that map is cleared.                 *)
MapsAsSeen == Maps!Spec
=============================================================================
