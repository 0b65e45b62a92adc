----------------------------- MODULE LossyQueue -----------------------------
(***************************************************************************)
(* What publication promises: records are delivered in the order they were *)
(* accepted, each at most once; any may be discarded, all are when the     *)
(* process dies, and no more than Limit wait at a time.                    *)
(***************************************************************************)
EXTENDS Naturals, Sequences

CONSTANTS Records, Limit

VARIABLES waiting, delivered

Init ==
  /\ waiting = <<>>
  /\ delivered = <<>>

Accept(r) ==
  /\ Len(waiting) < Limit
  /\ waiting' = Append(waiting, r)
  /\ UNCHANGED delivered

Deliver ==
  /\ waiting # <<>>
  /\ delivered' = Append(delivered, Head(waiting))
  /\ waiting' = Tail(waiting)

Discard ==
  /\ waiting # <<>>
  /\ waiting' = Tail(waiting)
  /\ UNCHANGED delivered

Die ==
  /\ waiting' = <<>>
  /\ UNCHANGED delivered

Next == Deliver \/ Discard \/ Die \/ \E r \in Records : Accept(r)

Spec == Init /\ [][Next]_<<waiting, delivered>>
=============================================================================
