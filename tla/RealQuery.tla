----------------------------- MODULE RealQuery -----------------------------
(***************************************************************************)
(* The queries of the newest positions (last positions, positions of       *)
(* recent records, devices online, devices around a place or another       *)
(* device, distance of two devices) beside the maps as LiveMaps shows them. *)
(* Most iterate over the current map, the other map and, two of them,      *)
(* m_lastdata; the first position met of a device counts.  Some look up    *)
(* devices first.  They take no lock, and differ in when they look which   *)
(* map is current: the first two after they scanned it, to know the other, *)
(* the others before, so that a swap in between sends them to the same map *)
(* twice.                                                                  *)
(*                                                                         *)
(* A position is read as a whole.  The patterns of a request, what it      *)
(* makes of the positions, and the limit on the number of results are left *)
(* out: every device is asked for.                                         *)
(***************************************************************************)
EXTENDS LiveMaps

CONSTANT
  NoQuery  (* no query runs *)

VARIABLES
  query,    \* the running query
  steps,    \* what it has still to do
  source,   \* what it iterates over now: a map, LastData or Nothing
  left,     \* the devices it must still meet there
  slave,    \* slave_mem
  answer,   \* the first position it met of each device
  sought,   \* devices it has still to look up
  missed,   \* the first of them is not in the current map
  place,    \* the positions it looked up
  \* history
  asked,    \* the devices it looks up
  start,    \* the positions to be expected when it began
  before,   \* records stored by then
  split     \* the maps were swapped between its two looks at the pointer

lookups == <<sought, missed, place, asked>>
history == <<start, before, split>>
qvars   == <<query, steps, source, left, slave, answer, lookups, history>>

LastData == 3
Nothing  == 0

(* the order of their steps *)
Plan ==
  [query_last_pos    |-> <<"main", "slave", "second", "lastdata">>,
   query_real_pos    |-> <<"main", "slave", "second">>,
   query_online      |-> <<"slave", "main", "second", "lastdata">>,
   query_real_around |-> <<"slave", "main", "second">>,
   bykey             |-> <<"slave", "main", "second">>,
   distance          |-> <<"slave">>]

(* the devices a query may name, which it looks up after the first step *)
Named(q) == CASE q = "bykey" -> {<<k>> : k \in Keys}
              [] q = "distance" -> Keys \X Keys
              [] OTHER -> {<<>>}

ASSUME QueryAssumption ==
  /\ KeyOf \in [Records -> Keys]
  /\ None \notin Records
  /\ NoQuery \notin DOMAIN Plan

QueryInit ==
  /\ Init
  /\ query = NoQuery /\ steps = <<>> /\ source = Nothing /\ left = {} /\ slave = 1
  /\ answer = Nowhere /\ start = Nowhere /\ before = {} /\ split = FALSE
  /\ sought = <<>> /\ missed = FALSE /\ place = Nowhere /\ asked = {}

-----------------------------------------------------------------------------
BugCurrentMap == active
SlaveMap      == Other(active)

Found(s, k) ==
  IF s = LastData THEN lastdata[k]
  ELSE IF k \in Held(s) THEN Back(mem[s][k]) ELSE None

Devices(s)  == {k \in Keys : Found(s, k) # None}
Answered    == {k \in Keys : answer[k] # None}
NextStep(p) == source = Nothing /\ sought = <<>> /\ steps # <<>> /\ Head(steps) = p

(* What a query that begins now should find: the last position of each     *)
(* device, or of those in the current map if it does not look at           *)
(* m_lastdata.                                                             *)
Newest(k) == IF k \in Held(active) THEN Found(active, k)
             ELSE IF k \in Held(Other(active)) THEN Found(Other(active), k)
             ELSE lastdata[k]

Expected(q) ==
  [k \in Keys |-> IF \E i \in DOMAIN Plan[q] : Plan[q][i] = "lastdata"
                  THEN Newest(k) ELSE Found(active, k)]

(* a request, and the first look at the pointer to the current map *)
Ask(q, ks) ==
  /\ query = NoQuery
  /\ query' = q
  /\ sought' = ks /\ asked' = {ks[i] : i \in DOMAIN ks}
  /\ steps' = Tail(Plan[q])
  /\ \/ /\ Head(Plan[q]) = "main"
        /\ source' = active /\ left' = Devices(active)
        /\ UNCHANGED slave
     \/ /\ Head(Plan[q]) = "slave"
        /\ slave' = SlaveMap
        /\ UNCHANGED <<source, left>>
  /\ start' = Expected(q) /\ before' = stored
  /\ UNCHANGED <<answer, missed, place, split, maps>>

ReadSlave ==
  /\ NextStep("slave")
  /\ slave' = SlaveMap
  /\ steps' = Tail(steps)
  /\ UNCHANGED <<query, source, left, answer, lookups, history, maps>>

Scan(p, s) ==
  /\ NextStep(p)
  /\ source' = s
  /\ left' = Devices(s) \ Answered
  /\ steps' = Tail(steps)
  /\ UNCHANGED <<query, slave, answer, lookups, history, maps>>

(* one turn of the loop: a device of unique_keymap is skipped *)
Meet(k) ==
  /\ source # Nothing
  /\ k \in Devices(source) \ Answered
  /\ answer' = [answer EXCEPT ![k] = Found(source, k)]
  /\ left' = left \ {k}
  /\ UNCHANGED <<query, steps, source, slave, lookups, history, maps>>

EndScan ==
  /\ source # Nothing
  /\ left = {}
  /\ source' = Nothing
  /\ UNCHANGED <<query, steps, left, slave, answer, lookups, history, maps>>

(* A device is looked up in the current map, then in the other one.        *)
(* Without the device it names, the query around it ends.                  *)
Find ==
  /\ sought # <<>> /\ ~missed
  /\ LET k == Head(sought) IN
       IF k \in Held(active)
       THEN place' = [place EXCEPT ![k] = Found(active, k)] /\ sought' = Tail(sought)
                                                          /\ UNCHANGED missed
       ELSE missed' = TRUE /\ UNCHANGED <<place, sought>>
  /\ UNCHANGED <<query, steps, source, left, slave, answer, asked, history, maps>>

FindElsewhere ==
  /\ missed
  /\ missed' = FALSE
  /\ sought' = Tail(sought)
  /\ place' = [place EXCEPT ![Head(sought)] = Found(slave, Head(sought))]
  /\ steps' = IF Head(sought) \in Held(slave) THEN steps ELSE <<>>
  /\ UNCHANGED <<query, source, left, slave, answer, asked, history, maps>>

Finished == query # NoQuery /\ steps = <<>> /\ sought = <<>> /\ source = Nothing

(* the reply is sent, or the query or the process ends in a fault *)
Forget ==
  /\ query' = NoQuery /\ steps' = <<>> /\ source' = Nothing /\ left' = {} /\ slave' = 1
  /\ answer' = Nowhere /\ start' = Nowhere /\ before' = {} /\ split' = FALSE
  /\ sought' = <<>> /\ missed' = FALSE /\ place' = Nowhere /\ asked' = {}

Reply == Finished /\ Forget /\ UNCHANGED maps

(* The writers and the persist thread.  A container that is cleared under  *)
(* the query faults it; an insertion may, and may or may not be met.       *)
Iterated == {source} \ {Nothing}
Freed(s) == ~(left \subseteq Devices(s)')
Grown(s) == ~(Devices(s)' \subseteq Devices(s))

LooksAgain == sought # <<>> \/ (steps # <<>> /\ Head(steps) = "main")

Beside ==
  /\ MapsStep
  /\ \/ /\ \A s \in Iterated : ~Freed(s)
        /\ split' = (split \/ (LooksAgain /\ active' # active))
        /\ UNCHANGED <<query, steps, source, left, slave, answer, lookups, start, before>>
     \/ /\ \E s \in Iterated : Freed(s) \/ Grown(s)
        /\ Forget

Query ==
  \/ \E q \in DOMAIN Plan : \E ks \in Named(q) : Ask(q, ks)
  \/ Find \/ FindElsewhere
  \/ ReadSlave
  \/ Scan("main", active) \/ Scan("second", slave) \/ Scan("lastdata", LastData)
  \/ \E k \in Keys : Meet(k)
  \/ EndScan
  \/ Reply

QuerySpec == QueryInit /\ [][Beside \/ Query]_<<maps, qvars>>

-----------------------------------------------------------------------------
(* However passes, writers and the query interleave, the query reports of  *)
(* each device the position that was its last when the query began, or one *)
(* stored since, and so does each look-up, unless the maps were swapped    *)
(* between its two looks at the pointer: then devices online, around a     *)
(* place or named in the request are missed or reported with an older      *)
(* position.                                                               *)
Fresh(got, k) == start[k] = None \/ got[k] = start[k] \/ got[k] \in stored \ before

AnswersFresh ==
  Finished /\ ~raced /\ ~split =>
    /\ \A k \in asked : Fresh(place, k)
    /\ query = "distance" \/ (\E k \in asked : place[k] = None) \/ \A k \in Keys : Fresh(answer, k)
=============================================================================
