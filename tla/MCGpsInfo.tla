----------------------------- MODULE MCGpsInfo -----------------------------
(* Instances of GpsInfo for TLC.  Of "blank" only "short" is read back,    *)
(* which has no comma.                                                     *)
EXTENDS GpsInfo

MCReadAs   == [v \in {"plain", "blank"} |-> IF v = "blank" THEN "short" ELSE v]
MCSymmetry == Permutations(Ids)
=============================================================================
