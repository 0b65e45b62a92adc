----------------------------- MODULE AroundFile -----------------------------
(***************************************************************************)
(* The around files, one of each hour and cell of the map, and the query   *)
(* of the devices that were in an area during a period.  The around child  *)
(* of a pass appends the records of the retired map, device by device, and *)
(* chooses another file when the hour of the day or the cell changes.  The *)
(* query scans the current map first and then the files of the area, from  *)
(* the last hour back to the first: of each device it reports one record,  *)
(* the first it meets in this order.                                       *)
(*                                                                         *)
(* The maps are those of LiveMaps.  Cells and areas are abstract: a        *)
(* request names the cells around its centre and selects records.  The     *)
(* pages of the answer are left out.  The limit of open files only closes  *)
(* files that are opened again to append.                                  *)
(***************************************************************************)
EXTENDS LiveMaps, Integers

CONSTANTS
  TimeOf,      (* when a record was taken, in ticks *)
  CellOf,      (* the cell it lies in (sGeoKey) *)
  HourTicks,   (* ticks of an hour *)
  DayHours,    (* hours of a day *)
  DayGap,      (* numbers between the last hour of a day and the next day's first *)
  IndexRange,  (* values of usNum *)
  Requests,    (* the requests: begin, end, cells and selects, a set of records *)
  NoKey,       (* no device *)
  MaxFails     (* bound: files that do not open *)

Cells == {CellOf[r] : r \in Records}

ASSUME AroundAssumption ==
  /\ KeyOf \in [Records -> Keys] /\ TimeOf \in [Records -> Nat]
  /\ HourTicks \in Nat \ {0} /\ DayHours \in Nat \ {0} /\ DayGap \in Nat
  /\ IndexRange \in Nat \ {0} /\ MaxFails \in Nat
  /\ NoKey \notin Keys /\ None \notin Records \cup Requests
  /\ \A q \in Requests : /\ q.begin \in Nat /\ q.end \in Nat /\ q.begin <= q.end
                         /\ \A r \in q.selects : CellOf[r] \in q.cells

(* The number of an hour, of which the code makes names: dates have gaps.  *)
Day(t)       == t \div (HourTicks * DayHours)
HourOfDay(t) == (t \div HourTicks) % DayHours
HourOf(t)    == Day(t) * (DayHours + DayGap) + HourOfDay(t)
FileOf(r)    == <<HourOf(TimeOf[r]), CellOf[r]>>
Files        == {FileOf(r) : r \in Records}
NoFile       == <<-1, NoKey>>

VARIABLES
  around,      \* the lines of each around file
  \* the around child
  visited,     \* devices it has finished
  key,         \* the device it is working on
  usNum,       \* the record of it, from 0
  iAChanged,   \* hour of the day of the line before
  sGeoKeyOld,  \* its cell
  fdAround,    \* its file
  fails,
  \* the query
  query,       \* the request, or None
  qpc,         \* what it does: "idle", "mem", "files", "done"
  source,      \* the map it iterates over
  left,        \* the devices it must still meet there
  umUnique,    \* the record reported of each device
  iCurHour,    \* the hour it reads
  cells,       \* the cells it has still to read of that hour
  fileResult,  \* what it found in this hour
  \* history
  before,      \* records stored when it began
  filed,       \* records in a file when it began
  quiet,       \* no record was on its way from map to file since
  ordered,     \* devices that have sent in the order of time
  latest       \* the time of the last record of each

child  == <<visited, key, usNum, iAChanged, sGeoKeyOld, fdAround>>
answer == <<umUnique, fileResult>>
asked  == <<query, before, filed>>
sent   == <<ordered, latest>>
search == <<qpc, source, left, iCurHour, cells>>
vars   == <<maps, around, child, fails, asked, search, answer, quiet, sent>>

InFiles == UNION {{around[f][i] : i \in DOMAIN around[f]} : f \in Files}
Retired == mem[Other(active)]

TypeOK ==
  /\ around \in [Files -> Seq(Records)]
  /\ visited \subseteq Keys /\ key \in Keys \cup {NoKey}
  /\ usNum \in 0 .. IndexRange - 1 /\ fails \in 0 .. MaxFails
  /\ fdAround \in Files \cup {NoFile}
  /\ query \in Requests \cup {None} /\ source \in {1, 2}
  /\ qpc \in {"idle", "mem", "files", "done"}
  /\ left \subseteq Keys /\ cells \subseteq Cells
  /\ umUnique \in [Keys -> Records \cup {None}]
  /\ fileResult \in [Keys -> Records \cup {None}]

AroundInit ==
  /\ Init
  /\ around = [f \in Files |-> <<>>]
  /\ visited = {} /\ key = NoKey /\ usNum = 0 /\ fails = 0
  /\ iAChanged = -1 /\ sGeoKeyOld = NoKey /\ fdAround = NoFile
  /\ ordered = Keys /\ latest = [k \in Keys |-> 0]
  /\ query = None /\ qpc = "idle" /\ before = {} /\ filed = {} /\ quiet = TRUE
  /\ source = 1 /\ left = {} /\ iCurHour = 0 /\ cells = {}
  /\ umUnique = Nowhere /\ fileResult = Nowhere

-----------------------------------------------------------------------------
(* MemToAroundFile *)

SameAsBefore(r) == iAChanged = HourOfDay(TimeOf[r]) /\ sGeoKeyOld = CellOf[r]

Target(r) == IF SameAsBefore(r) THEN fdAround ELSE FileOf(r)

Line(r) == around' = [around EXCEPT ![Target(r)] = Append(@, r)]
NextNum == (usNum + 1) % IndexRange

Unvisited == Held(Other(active)) \ visited
Working(k) == pass = "moving" /\ (key = k \/ (key = NoKey /\ k \in Unvisited))

WriteRecord(k) ==
  /\ Working(k)
  /\ LET r == Retired[k][usNum + 1] IN
       /\ Line(r)
       /\ fdAround' = Target(r)
       /\ iAChanged' = HourOfDay(TimeOf[r]) /\ sGeoKeyOld' = CellOf[r]
  /\ \/ /\ NextNum < Len(Retired[k])
        /\ key' = k /\ usNum' = NextNum /\ UNCHANGED visited
     \/ /\ NextNum >= Len(Retired[k])
        /\ key' = NoKey /\ usNum' = 0 /\ visited' = visited \cup {k}
  /\ UNCHANGED <<maps, fails, asked, search, answer, quiet, sent>>

(* A file that does not open ends the child; the rest of the map is lost.  *)
OpenFails(k) ==
  /\ Working(k) /\ fails < MaxFails
  /\ ~SameAsBefore(Retired[k][usNum + 1])
  /\ fails' = fails + 1
  /\ visited' = Keys /\ key' = NoKey /\ usNum' = 0
  /\ UNCHANGED <<maps, around, iAChanged, sGeoKeyOld, fdAround, asked, search, answer, quiet, sent>>

(* The child starts when the maps are swapped, and the pass waits for it.  *)
StartChild ==
  /\ visited' = {} /\ key' = NoKey /\ usNum' = 0
  /\ iAChanged' = -1 /\ sGeoKeyOld' = NoKey /\ fdAround' = NoFile

Send(r) ==
  /\ Store(r)
  /\ ordered' = IF TimeOf[r] < latest[KeyOf[r]] THEN ordered \ {KeyOf[r]} ELSE ordered
  /\ latest' = [latest EXCEPT ![KeyOf[r]] = TimeOf[r]]

StoreStep ==
  \/ \E r \in Records : Send(r) /\ UNCHANGED <<child, quiet>>
  \/ /\ BeginPass \/ (\E k \in Keys : MemToLast(k)) \/ (EndPass /\ Unvisited = {})
     /\ UNCHANGED <<child, quiet, sent>>
  \/ SwapMem /\ StartChild /\ quiet' = FALSE /\ UNCHANGED sent

-----------------------------------------------------------------------------
(* query_his_around and its variants *)

InPeriod(r) == query.begin <= TimeOf[r] /\ TimeOf[r] <= query.end
Wanted(r)   == InPeriod(r) /\ r \in query.selects

Ask(q) ==
  /\ query = None
  /\ query' = q /\ qpc' = "mem"
  /\ source' = active /\ left' = Held(active)
  /\ before' = stored /\ filed' = InFiles
  /\ quiet' = (pass # "moving")
  /\ UNCHANGED <<maps, around, child, fails, iCurHour, cells, answer, sent>>

(* from the last record of a device back, up to one before the period *)
Candidates(v) == {i \in DOMAIN v : /\ Wanted(v[i])
                                   /\ \A j \in i .. Len(v) : TimeOf[v[j]] >= query.begin}

BugFirstWanted(v) == IF Candidates(v) = {} THEN None
                     ELSE v[CHOOSE i \in Candidates(v) : \A j \in Candidates(v) : i <= j]
LastWanted(v)     == IF Candidates(v) = {} THEN None
                     ELSE v[CHOOSE i \in Candidates(v) : \A j \in Candidates(v) : j <= i]

query_mem(k) ==
  /\ qpc = "mem"
  /\ k \in Held(source) /\ (k \in left \/ umUnique[k] = None)
  /\ umUnique' = [umUnique EXCEPT ![k] = LastWanted(mem[source][k])]
  /\ left' = left \ {k}
  /\ UNCHANGED <<maps, around, child, fails, asked, qpc, source, iCurHour, cells, fileResult,
                 quiet, sent>>

EndMem ==
  /\ qpc = "mem" /\ left = {}
  /\ qpc' = "files"
  /\ iCurHour' = HourOf(query.end) /\ cells' = query.cells
  /\ UNCHANGED <<maps, around, child, fails, asked, source, left, answer, quiet, sent>>

Newer(r, got) == got = None \/ TimeOf[r] >= TimeOf[got]

(* A line counts if its device was met neither in the map nor in a later   *)
(* hour, and it is not older than what this hour gave so far.              *)
Taken(f) ==
  LET After[n \in 0 .. Len(around[f])] ==
        IF n = 0 THEN fileResult
        ELSE LET r == around[f][n]
                 k == KeyOf[r]
             IN  IF Wanted(r) /\ umUnique[k] = None /\ Newer(r, After[n - 1][k])
                 THEN [After[n - 1] EXCEPT ![k] = r] ELSE After[n - 1]
  IN  After[Len(around[f])]

ReadFile(c) ==
  /\ qpc = "files" /\ c \in cells
  /\ cells' = cells \ {c}
  /\ fileResult' = IF <<iCurHour, c>> \in Files THEN Taken(<<iCurHour, c>>) ELSE fileResult
  /\ UNCHANGED <<maps, around, child, fails, asked, qpc, source, left, iCurHour, umUnique,
                 quiet, sent>>

(* The hours are counted down from the last: GetDateByHour subtracts, also *)
(* across the numbers that are no hour, and past the first hour.           *)
BugStopsAtGap == /\ iCurHour >= HourOf(query.begin)
                 /\ iCurHour % (DayHours + DayGap) < DayHours
MoreHours     == iCurHour >= HourOf(query.begin)

EndHour ==
  /\ qpc = "files" /\ cells = {}
  /\ umUnique' = [k \in Keys |-> IF umUnique[k] = None THEN fileResult[k] ELSE umUnique[k]]
  /\ fileResult' = Nowhere
  /\ \/ /\ MoreHours
        /\ iCurHour' = iCurHour - 1 /\ cells' = query.cells /\ UNCHANGED qpc
     \/ /\ ~MoreHours
        /\ qpc' = "done" /\ UNCHANGED <<iCurHour, cells>>
  /\ UNCHANGED <<maps, around, child, fails, asked, source, left, quiet, sent>>

(* the reply is sent, or the query ends in a fault of the process *)
Forget ==
  /\ query' = None /\ qpc' = "idle" /\ before' = {} /\ filed' = {}
  /\ source' = 1 /\ left' = {} /\ iCurHour' = 0 /\ cells' = {}
  /\ umUnique' = Nowhere /\ fileResult' = Nowhere

Reply ==
  /\ qpc = "done" /\ Forget
  /\ UNCHANGED <<maps, around, child, fails, quiet, sent>>

(* iOffsets has one element fewer than there are files: the lines of the   *)
(* last one are counted where the name of another may be, which then       *)
(* faults.                                                                 *)
Fault ==
  /\ qpc = "files" /\ Forget
  /\ UNCHANGED <<maps, around, child, fails, quiet, sent>>

(* The writers and the pass beside the query.  A container that is cleared *)
(* under it faults it; one that is extended may.                           *)
Beside ==
  /\ StoreStep /\ UNCHANGED <<around, fails>>
  /\ \/ /\ qpc = "mem" => \A k \in left : mem'[source][k] # <<>>
        /\ UNCHANGED <<asked, search, answer>>
     \/ /\ qpc = "mem" /\ mem'[source] # mem[source]
        /\ Forget

AroundNext ==
  \/ Beside
  \/ \E k \in Keys : WriteRecord(k) \/ OpenFails(k)
  \/ \E q \in Requests : Ask(q)
  \/ \E k \in Keys : query_mem(k)
  \/ EndMem
  \/ \E c \in Cells : ReadFile(c)
  \/ EndHour \/ Reply \/ Fault

AroundSpec == AroundInit /\ [][AroundNext]_vars

-----------------------------------------------------------------------------
(* A record of the hour of the day and the cell of the line before goes to *)
(* the file of that line, also if it is of another day, or device.         *)
Misfiled(r) ==
  \E f \in Files : /\ \E i \in DOMAIN around[f] : around[f][i] = r
                   /\ f[2] = CellOf[r] /\ f # FileOf(r)
                   /\ f[1] % (DayHours + DayGap) = HourOfDay(TimeOf[r])

(* the answer has a record of the device that is not older than r *)
NotOlder(r) ==
  LET got == umUnique[KeyOf[r]] IN got # None /\ TimeOf[got] >= TimeOf[r]

(* A device is found where it should be if it sends in the order of time   *)
(* and none of its records is misfiled: one in a file of a later day is    *)
(* met before newer ones.                                                  *)
Expected(r) ==
  /\ Wanted(r) /\ ~raced
  /\ KeyOf[r] \in ordered
  /\ \A s \in Records : KeyOf[s] = KeyOf[r] => ~Misfiled(s)

(* Whatever is stored and filed while the query runs, it reports of each   *)
(* device of the area a record that is not older than any that was in a    *)
(* file when it began.                                                     *)
FiledIsSeen ==
  qpc = "done" => \A r \in filed : Expected(r) => NotOlder(r)

(* A query that meets no record on its way from the map to a file reports  *)
(* of each device of the area the last position in the period: one in the  *)
(* current map counts before those in files, later files before earlier.   *)
AroundNewest ==
  qpc = "done" /\ quiet /\ fails = 0 => \A r \in before : Expected(r) => NotOlder(r)
=============================================================================
