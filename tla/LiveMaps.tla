------------------------------ MODULE LiveMaps ------------------------------
(***************************************************************************)
(* What a reader of the newest positions sees of the store while the       *)
(* process lives: two maps of which one is current, and m_lastdata.  A     *)
(* record goes to the current map at once; a pass clears the idle map,     *)
(* makes it current and moves the last position of each device of the      *)
(* retired one to m_lastdata.  TideStore, where a write is several steps   *)
(* and a pass has three children, is shown to implement it (MapsAsSeen).   *)
(***************************************************************************)
EXTENDS Naturals, Sequences

CONSTANTS
  Keys,     (* device ids *)
  Records,  (* GPS records, each sent once *)
  KeyOf,    (* the device a record belongs to *)
  None      (* no last position *)

VARIABLES
  mem,       \* m_umGpsInfo1, m_umGpsInfo2
  active,    \* m_pumGpsInfo
  lastdata,  \* m_lastdata
  pass,      \* progress of the pass
  must,      \* devices the retired map held when it was retired
  moved,     \* devices of it whose last position was moved
  stored,    \* records whose write returned
  raced      \* a record missed the current map: its write met a swap or another's

maps == <<mem, active, lastdata, pass, must, moved, stored, raced>>

Other(b)  == 3 - b
Back(v)   == v[Len(v)]
Nowhere   == [k \in Keys |-> None]
Held(b)   == {k \in Keys : mem[b][k] # <<>>}
With(b, r) == [mem EXCEPT ![b][KeyOf[r]] = Append(@, r)]

Init ==
  /\ mem = [b \in {1, 2} |-> [k \in Keys |-> <<>>]] /\ active = 1
  /\ lastdata = Nowhere
  /\ pass = "wait" /\ must = {} /\ moved = {}
  /\ stored = {} /\ raced = FALSE

Store(r) ==
  /\ r \notin stored
  /\ stored' = stored \cup {r}
  /\ \/ mem' = With(active, r) /\ UNCHANGED raced
     \/ mem' \in {mem, With(Other(active), r), With(active, r)} /\ raced' = TRUE
  /\ UNCHANGED <<active, lastdata, pass, must, moved>>

BeginPass ==
  /\ pass = "wait"
  /\ pass' = "begun"
  /\ mem' = [mem EXCEPT ![Other(active)] = [k \in Keys |-> <<>>]]
  /\ UNCHANGED <<active, lastdata, must, moved, stored, raced>>

SwapMem ==
  /\ pass = "begun"
  /\ pass' = "moving"
  /\ active' = Other(active)
  /\ must' = Held(active)
  /\ moved' = {}
  /\ UNCHANGED <<mem, lastdata, stored, raced>>

MemToLast(k) ==
  /\ pass = "moving"
  /\ k \in Held(Other(active)) \ moved
  /\ lastdata' = [lastdata EXCEPT ![k] = Back(mem[Other(active)][k])]
  /\ moved' = moved \cup {k}
  /\ UNCHANGED <<mem, active, pass, must, stored, raced>>

EndPass ==
  /\ pass = "moving" /\ must \subseteq moved
  /\ pass' = "wait"
  /\ UNCHANGED <<mem, active, lastdata, must, moved, stored, raced>>

MapsStep ==
  \/ \E r \in Records : Store(r)
  \/ BeginPass \/ SwapMem \/ EndPass
  \/ \E k \in Keys : MemToLast(k)

Spec == Init /\ [][MapsStep]_maps
=============================================================================
