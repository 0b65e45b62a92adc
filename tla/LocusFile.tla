------------------------------ MODULE LocusFile ------------------------------
(***************************************************************************)
(* The locus files and the query of a device's history.  The locus child   *)
(* of a persist pass writes the records of each device of the retired map  *)
(* as segments, one per hour: a first line with absolute time and          *)
(* position, then lines relative to the first, and one index entry when    *)
(* the segment is over.  Devices of the same hash bucket share the files   *)
(* of an hour.  The query reads the files of its hours and then the map    *)
(* that is current by then, while records arrive and passes run.           *)
(*                                                                         *)
(* A map with its log is one of two buffers.  The races of the writers     *)
(* between them are the subject of TideStore: here a record is logged and  *)
(* stored in one step.  Offsets count lines, time counts ticks, positions  *)
(* are one-dimensional; a device is identified with its 64-bit hash.       *)
(***************************************************************************)
EXTENDS Integers, Sequences, SequencesExt, FiniteSets

CONSTANTS
  Keys,         (* device ids *)
  Records,      (* GPS records *)
  KeyOf,        (* the device a record belongs to *)
  TimeOf,       (* its time, in ticks *)
  PosOf,        (* its position *)
  BucketOf,     (* Fnv64a(key) % MOD *)
  HourTicks,    (* ticks of an hour *)
  DayHours,     (* hours of a day *)
  Press,        (* IS_PRESS: records near the last written one are dropped *)
  PressDist,    (* PRESS_MILE, as a distance between positions *)
  IndexRange,   (* 2^16, the range of unsigned short usNum *)
  Queries,      (* the queries clients send *)
  None,
  MaxQueries,   (* bound: how many queries are run *)
  MaxCrashes,   (* bound: how often the process is killed *)
  MaxFails      (* bound: how often the child cannot open a file *)

ASSUME LocusAssumption ==
  /\ KeyOf \in [Records -> Keys]
  /\ TimeOf \in [Records -> Nat]
  /\ PosOf \in [Records -> Int]
  /\ HourTicks \in Nat \ {0} /\ DayHours \in Nat \ {0}
  /\ IndexRange \in Nat \ {0}
  /\ None \notin Keys /\ None \notin Records
  /\ Queries \subseteq [key : Keys, begin : Nat, end : Nat,
                        cur_page : Nat \ {0}, page_size : Nat \ {0}]

VARIABLES
  \* the double buffer
  mem,           \* m_umGpsInfo1 and 2: the records of each device, in order
  log,           \* TEMP_LOG1 and 2, which survive the process
  active,        \* which of them is current
  \* the files
  locus,         \* lines of each locus file
  index,         \* entries of each index file
  \* the locus child
  ppc,           \* "wait" between passes, "filing" during one
  todo,          \* devices the child has not finished
  opened,        \* files it has open (mLocusFile)
  key,           \* device it is working on
  usNum,         \* record of the device it is working on, from 0
  iLChanged,     \* hour of the day of the open segment
  fdLocus,       \* file of the open segment
  stLocusIndex,  \* its index entry so far
  lPre,          \* the position the press filter compares with
  \* the query
  qpc,           \* next step of the query
  query,         \* m_pquery_con
  hour,          \* iBeginHours
  result,        \* what it has collected
  found,         \* the buffer its map iterator points into
  \* history, read by no guard but the bounds
  arrived,       \* the records of each device in the order they were stored
  quiet,         \* no pass has overlapped the query
  owed,          \* records that were indexed when the query began
  lost,          \* records the child could not file
  pressed,       \* records the press filter dropped, with the one kept last
  disturbed,     \* devices caught by a kill in the middle of a pass
  queries, crashes, fails

buffers == <<mem, log, active>>
files   == <<locus, index>>
child   == <<ppc, todo, opened, key, usNum, iLChanged, fdLocus, stLocusIndex, lPre>>
reader  == <<qpc, query, hour, result, found, queries, owed, quiet>>
history == <<arrived, lost, pressed, disturbed, crashes, fails>>
vars    == <<buffers, files, child, reader, history>>

Buffers  == {1, 2}
Other(b) == 3 - b
Empty    == [k \in Keys |-> <<>>]
Held(v)  == {v[i] : i \in DOMAIN v}

HourOf(t)    == t \div HourTicks
HourOfDay(r) == HourOf(TimeOf[r]) % DayHours
Hours        == {HourOf(TimeOf[r]) : r \in Records}
Files        == Hours \X {BucketOf[k] : k \in Keys}
FileOf(r)    == <<HourOf(TimeOf[r]), BucketOf[KeyOf[r]]>>

ASSUME NoFileAssumption == None \notin Files

Lines   == [time : Int, pos : Int, rec : Records]
Entries == [key : Keys, offset : Nat, length : Nat]

NoEntry  == [key |-> None, offset |-> 0, length |-> 0]
NoHour   == -1
NoResult == [check |-> TRUE, count |-> 0, rows |-> <<>>, ended |-> FALSE]

(* the map the child files: it is not current and no writer is in it *)
Retired == mem[Other(active)]
Vector  == Retired[key]
Rec     == Vector[usNum + 1]

Init ==
  /\ mem = [b \in Buffers |-> Empty] /\ log = [b \in Buffers |-> Empty]
  /\ active = 1
  /\ locus = [f \in Files |-> <<>>] /\ index = [f \in Files |-> <<>>]
  /\ ppc = "wait" /\ todo = {} /\ opened = {}
  /\ key = None /\ usNum = 0 /\ iLChanged = NoHour
  /\ fdLocus = None /\ stLocusIndex = NoEntry /\ lPre = 0
  /\ qpc = "idle" /\ query = None /\ hour = 0
  /\ result = NoResult /\ found = 1
  /\ arrived = Empty /\ quiet = FALSE /\ owed = {}
  /\ lost = {} /\ pressed = {} /\ disturbed = {}
  /\ queries = 0 /\ crashes = 0 /\ fails = 0

-----------------------------------------------------------------------------
(* The records arrive in any order of their times.  A push_back into the   *)
(* vector that a query is iterating over may move it: what the query then  *)
(* reads is undefined, and the query no longer counts.                     *)

Reading(b, k) == qpc = "scan" /\ found = b /\ query.key = k

Store(r) ==
  LET k == KeyOf[r] IN
  /\ r \notin Held(arrived[k])
  /\ mem' = [mem EXCEPT ![active][k] = Append(@, r)]
  /\ log' = [log EXCEPT ![active][k] = Append(@, r)]
  /\ arrived' = [arrived EXCEPT ![k] = Append(@, r)]
  /\ qpc' = IF Reading(active, k) THEN "undefined" ELSE qpc
  /\ UNCHANGED <<active, files, child, query, hour, result, found, queries, owed,
                 quiet, lost, pressed, disturbed, crashes, fails>>

-----------------------------------------------------------------------------
(* The passes of CPersisitence::Core and the locus child.                  *)

BugIdleMapKept   == mem
IdleMapCleared   == [mem EXCEPT ![Other(active)] = Empty]

(* clear the idle map, make it current and start the child on the other *)
BeginPass ==
  /\ ppc = "wait"
  /\ mem' = IdleMapCleared
  /\ active' = Other(active)
  /\ ppc' = "filing"
  /\ todo' = {k \in Keys : mem[active][k] # <<>>}
  /\ opened' = {}
  /\ qpc' = IF qpc = "scan" /\ found = Other(active) THEN "undefined" ELSE qpc
  /\ quiet' = FALSE
  /\ UNCHANGED <<log, files, key, usNum, iLChanged, fdLocus, stLocusIndex, lPre,
                 query, hour, result, found, queries, owed, history>>

NextKey(k) ==
  /\ ppc = "filing"
  /\ key = None
  /\ k \in todo
  /\ key' = k
  /\ usNum' = 0
  /\ iLChanged' = NoHour
  /\ fdLocus' = None
  /\ stLocusIndex' = NoEntry
  /\ UNCHANGED <<buffers, files, ppc, todo, opened, lPre, reader, history>>

(* the index entry of the segment that is open, if one is *)
EntryWritten ==
  IF fdLocus = None THEN index
  ELSE [index EXCEPT ![fdLocus] = Append(@, stLocusIndex)]

AtRecord    == key # None /\ usNum < Len(Vector)
HourChanges == AtRecord /\ iLChanged # HourOfDay(Rec)

(* memset(&stLocusIndex), then m_ulKey and m_uiOffset *)
BugAfterLastEntry(f) ==
  LET n == Len(index[f]) IN
  [key |-> key, length |-> 0,
   offset |-> IF n = 0 THEN 0 ELSE index[f][n].offset + index[f][n].length]
NewEntry(f)      == [key |-> key, offset |-> Len(locus[f]), length |-> 0]

(* The hour of the day of the record is not that of the open segment:      *)
(* write the index entry of the segment and open the files of the record.  *)
OpenSegment ==
  /\ HourChanges
  /\ index' = EntryWritten
  /\ fdLocus' = FileOf(Rec)
  /\ opened' = opened \cup {FileOf(Rec)}
  /\ stLocusIndex' = NewEntry(FileOf(Rec))
  /\ iLChanged' = HourOfDay(Rec)
  /\ UNCHANGED <<buffers, locus, ppc, todo, key, usNum, lPre, reader, history>>

(* A file that is not open yet cannot be opened: the child returns and the *)
(* rest of the map is never filed.                                         *)
OpenFails ==
  /\ HourChanges
  /\ FileOf(Rec) \notin opened
  /\ fails < MaxFails
  /\ fails' = fails + 1
  /\ index' = EntryWritten
  /\ lost' = lost \cup {Vector[i] : i \in usNum + 1 .. Len(Vector)}
                  \cup UNION {Held(Retired[k]) : k \in todo \ {key}}
  /\ todo' = {} /\ key' = None /\ fdLocus' = None /\ stLocusIndex' = NoEntry
  /\ UNCHANGED <<buffers, locus, ppc, opened, usNum, iLChanged, lPre, reader,
                 arrived, pressed, disturbed, crashes>>

InSegment   == AtRecord /\ iLChanged = HourOfDay(Rec)
bFirstWirte == stLocusIndex.length = 0

(* one write(2) of a line to the locus file; it counts in m_uiLength *)
WriteLine(l) ==
  /\ locus' = [locus EXCEPT ![fdLocus] = Append(@, l)]
  /\ stLocusIndex' = [stLocusIndex EXCEPT !.length = @ + 1]

(* ++usNum, on 16 bits *)
NextRecord == usNum' = (usNum + 1) % IndexRange

Absolute(r) == [time |-> TimeOf[r], pos |-> PosOf[r], rec |-> r]
Relative(r, base) ==
  [time |-> TimeOf[r] - TimeOf[base], pos |-> PosOf[r] - PosOf[base], rec |-> r]

WriteBase ==
  /\ InSegment /\ bFirstWirte
  /\ WriteLine(Absolute(Rec))
  /\ lPre' = PosOf[Rec]
  /\ NextRecord
  /\ UNCHANGED <<buffers, index, ppc, todo, opened, key, iLChanged, fdLocus, reader,
                 history>>

(* the first record of the open segment *)
Base == locus[fdLocus][stLocusIndex.offset + 1].rec

(* the latest record written to the open segment *)
Kept == locus[fdLocus][Len(locus[fdLocus])].rec

Near == Press /\ PosOf[Rec] - lPre \in -PressDist .. PressDist

BugRelativeToKept == Relative(Rec, Kept)
RelativeLine      == Relative(Rec, Base)

BugFilterNotMoved == lPre
FilterMoved       == PosOf[Rec]

WriteDelta ==
  /\ InSegment /\ ~bFirstWirte /\ ~Near
  /\ WriteLine(RelativeLine)
  /\ lPre' = FilterMoved
  /\ NextRecord
  /\ UNCHANGED <<buffers, index, ppc, todo, opened, key, iLChanged, fdLocus, reader,
                 history>>

PressRecord ==
  /\ InSegment /\ ~bFirstWirte /\ Near
  /\ pressed' = pressed \cup {<<Rec, Kept>>}
  /\ NextRecord
  /\ UNCHANGED <<buffers, files, ppc, todo, opened, key, iLChanged, fdLocus,
                 stLocusIndex, lPre, reader, arrived, lost, disturbed, crashes, fails>>

(* after the last record: write the index entry of the open segment *)
FinishKey ==
  /\ key # None
  /\ usNum >= Len(Vector)
  /\ index' = EntryWritten
  /\ todo' = todo \ {key}
  /\ key' = None /\ fdLocus' = None /\ stLocusIndex' = NoEntry
  /\ UNCHANGED <<buffers, locus, ppc, opened, usNum, iLChanged, lPre, reader, history>>

(* the child is joined and the retired log truncated *)
EndPass ==
  /\ ppc = "filing"
  /\ todo = {} /\ key = None
  /\ log' = [log EXCEPT ![Other(active)] = Empty]
  /\ ppc' = "wait"
  /\ UNCHANGED <<mem, active, files, todo, opened, key, usNum, iLChanged, fdLocus,
                 stLocusIndex, lPre, reader, history>>

-----------------------------------------------------------------------------
(* The history query: CRestQryHisLocus.                                    *)

page_min_size(q) == q.cur_page * q.page_size - q.page_size
page_max_size(q) == q.cur_page * q.page_size

(* count a row that is in range and keep it if it is on the page *)
BugPageStart(q, n) == n >= page_min_size(q)
OnPage(q, n)       == n > page_min_size(q)

TakeRow(q, s, row) ==
  LET n == s.count + 1 IN
  [s EXCEPT !.count = n,
            !.rows  = IF OnPage(q, n) THEN Append(@, row) ELSE @,
            !.ended = n = page_max_size(q)]

(* the rows of a segment, decoded; the first line is the base of the rest *)
Decoded(lines) ==
  [i \in DOMAIN lines |->
     [rec   |-> lines[i].rec,
      time  |-> IF i = 1 THEN lines[1].time ELSE lines[1].time + lines[i].time,
      pos   |-> IF i = 1 THEN lines[1].pos ELSE lines[1].pos + lines[i].pos,
      first |-> i = 1]]

(* one turn of parse_file_gpsdata: only a line after the first ends the    *)
(* query when it is late                                                   *)
ReadRow(q, s, row) ==
  IF s.ended \/ row.time < q.begin THEN s
  ELSE IF row.time > q.end THEN [s EXCEPT !.ended = ~row.first]
  ELSE TakeRow(q, s, row)

parse_file_gpsdata(q, s, rows) ==
  FoldLeft(LAMBDA acc, row : ReadRow(q, acc, row), s, rows)

(* GetStartLine: the segment ends before the query begins *)
BugBeforeQuery(q, rows) == rows[1].time < q.begin
BeforeQuery(q, rows)    == rows[Len(rows)].time < q.begin

(* one turn of the loop over the index entries of the device *)
ReadSegment(q, s, f, e) ==
  LET rows == Decoded(SubSeq(locus[f], e.offset + 1, e.offset + e.length)) IN
  IF s.ended \/ (s.check /\ BeforeQuery(q, rows)) THEN s
  ELSE parse_file_gpsdata(q, [s EXCEPT !.check = FALSE], rows)

Owns(q, e) == e.key = q.key

(* all of one hour: a file that does not exist has no entries *)
ReadFile(q, s, f) ==
  IF f \notin Files THEN s
  ELSE FoldLeft(LAMBDA acc, e : IF Owns(q, e) THEN ReadSegment(q, acc, f, e) ELSE acc, s,
                index[f])

Indexed(f) == UNION {{locus[f][i].rec : i \in e.offset + 1 .. e.offset + e.length} :
                     e \in Held(index[f])}

StartQuery(q) ==
  /\ qpc \in {"idle", "done", "undefined"}
  /\ queries < MaxQueries
  /\ queries' = queries + 1
  /\ qpc' = "files"
  /\ query' = q
  /\ hour' = HourOf(q.begin)
  /\ result' = NoResult
  /\ quiet' = (ppc = "wait")
  /\ owed' = UNION {Indexed(f) : f \in {g \in Files : HourOf(q.begin) <= g[1]}}
  /\ UNCHANGED <<buffers, files, child, found, history>>

(* One turn of the loop over the hours.  The entries are read to the end   *)
(* of the index file; the lines they stand for were written before them    *)
(* and never change, so one step reads both.                               *)
ReadHour ==
  /\ qpc = "files"
  /\ hour <= HourOf(query.end)
  /\ result' = ReadFile(query, result, <<hour, BucketOf[query.key]>>)
  /\ hour' = hour + 1
  /\ qpc' = IF result'.ended THEN "done" ELSE "files"
  /\ UNCHANGED <<buffers, files, child, query, found, queries, owed, quiet, history>>

(* find the device in the map that is current now *)
FindVector ==
  /\ qpc = "files"
  /\ hour > HourOf(query.end)
  /\ found' = active
  /\ qpc' = IF mem[active][query.key] = <<>> THEN "done" ELSE "scan"
  /\ UNCHANGED <<buffers, files, child, query, hour, result, queries, owed, quiet,
                 history>>

ScanRow(q, s, r) ==
  IF s.ended THEN s
  ELSE IF TimeOf[r] > q.end THEN [s EXCEPT !.ended = TRUE]
  ELSE IF TimeOf[r] < q.begin THEN s
  ELSE TakeRow(q, s, [rec |-> r, time |-> TimeOf[r], pos |-> PosOf[r], first |-> FALSE])

ScanVector ==
  /\ qpc = "scan"
  /\ result' = FoldLeft(LAMBDA acc, r : ScanRow(query, acc, r), result,
                        mem[found][query.key])
  /\ qpc' = "done"
  /\ UNCHANGED <<buffers, files, child, query, hour, found, queries, owed, quiet,
                 history>>

-----------------------------------------------------------------------------
(* A kill and the restart: the logs are loaded into the maps.  A kill in   *)
(* the middle of a pass leaves the devices of the retired map partly filed *)
(* and still logged; TideStore says what becomes of them.                  *)
RecoveredBuffer == IF log[2] # Empty THEN 2 ELSE 1

Kill ==
  /\ crashes < MaxCrashes
  /\ crashes' = crashes + 1
  /\ mem' = log
  /\ active' = RecoveredBuffer
  /\ disturbed' = IF ppc = "filing"
                  THEN disturbed \cup {k \in Keys : \E b \in Buffers : log[b][k] # <<>>}
                  ELSE disturbed
  /\ ppc' = "wait" /\ todo' = {} /\ opened' = {} /\ key' = None /\ usNum' = 0
  /\ iLChanged' = NoHour /\ fdLocus' = None /\ stLocusIndex' = NoEntry /\ lPre' = 0
  /\ qpc' = "idle" /\ query' = None /\ hour' = 0 /\ result' = NoResult /\ found' = 1
  /\ UNCHANGED <<log, files, queries, owed, quiet, arrived, lost, pressed, fails>>

ChildStep ==
  \/ \E k \in Keys : NextKey(k)
  \/ OpenSegment
  \/ OpenFails
  \/ WriteBase
  \/ WriteDelta
  \/ PressRecord
  \/ FinishKey

QueryStep == ReadHour \/ FindVector \/ ScanVector

Next ==
  \/ \E r \in Records : Store(r)
  \/ BeginPass
  \/ ChildStep
  \/ EndPass
  \/ \E q \in Queries : StartQuery(q)
  \/ QueryStep
  \/ Kill

Spec == Init /\ [][Next]_vars

-----------------------------------------------------------------------------
(* The inductive invariant.                                                *)

TypeOK ==
  /\ mem \in [Buffers -> [Keys -> Seq(Records)]]
  /\ log \in [Buffers -> [Keys -> Seq(Records)]]
  /\ active \in Buffers
  /\ locus \in [Files -> Seq(Lines)]
  /\ index \in [Files -> Seq(Entries)]
  /\ ppc \in {"wait", "filing"}
  /\ todo \subseteq Keys
  /\ key \in Keys \cup {None}
  /\ usNum \in Nat
  /\ fdLocus \in Files \cup {None}
  /\ fdLocus # None => key # None /\ stLocusIndex \in Entries
  /\ fdLocus = None /\ key # None => iLChanged = NoHour
  /\ key # None => ppc = "filing"

(* a record is only ever kept under its own device *)
OwnVectors ==
  \A b \in Buffers, k \in Keys :
    /\ \A i \in DOMAIN mem[b][k] : KeyOf[mem[b][k][i]] = k
    /\ \A i \in DOMAIN log[b][k] : KeyOf[log[b][k][i]] = k

(* the line stands for a record of the device of entry e, of the hour of   *)
(* the file, and is relative to the first line of the entry                *)
GoodLine(f, e, i) ==
  LET l == locus[f][i] IN
  /\ KeyOf[l.rec] = e.key
  /\ HourOfDay(l.rec) = f[1] % DayHours
  /\ l = IF i = e.offset + 1 THEN Absolute(l.rec)
         ELSE Relative(l.rec, locus[f][e.offset + 1].rec)

GoodSegment(f, e) ==
  /\ e.offset + e.length <= Len(locus[f])
  /\ \A i \in e.offset + 1 .. e.offset + e.length : GoodLine(f, e, i)

(* Every index entry stands for a whole segment of its device that its     *)
(* first line decodes, and no line belongs to two entries; at every moment *)
(* of a pass, after a kill and after a failed open (MemToLocusFile).       *)
SegmentsWhole ==
  \A f \in Files : \A j \in DOMAIN index[f] :
    /\ index[f][j].length > 0
    /\ GoodSegment(f, index[f][j])
    /\ \A i \in 1 .. j - 1 : index[f][i].offset + index[f][i].length <= index[f][j].offset

(* the same of the segment that is open, whose lines end its file *)
OpenSegmentWhole ==
  fdLocus # None =>
    /\ stLocusIndex.key = key
    /\ iLChanged = fdLocus[1] % DayHours
    /\ stLocusIndex.offset + stLocusIndex.length = Len(locus[fdLocus])
    /\ GoodSegment(fdLocus, stLocusIndex)
    /\ \A j \in DOMAIN index[fdLocus] :
         index[fdLocus][j].offset + index[fdLocus][j].length <= stLocusIndex.offset
    /\ stLocusIndex.length = 0 => InSegment
    /\ stLocusIndex.length > 0 => lPre = PosOf[Kept]

LocusInv == TypeOK /\ OwnVectors /\ SegmentsWhole /\ OpenSegmentWhole

-----------------------------------------------------------------------------
(* Safety.                                                                 *)

(* A dropped record is within PRESS_MILE of the record of its segment that *)
(* was kept last before it: a slow device cannot creep away unrecorded     *)
(* (the press filter of MemToLocusFile).                                   *)
PressedNear ==
  \A p \in pressed : Press /\ PosOf[p[1]] - PosOf[p[2]] \in -PressDist .. PressDist

InRange(q, r) == q.begin <= TimeOf[r] /\ TimeOf[r] <= q.end

(* the device has sent its records in the order of their times *)
InOrder(k) == \A i, j \in DOMAIN arrived[k] :
                i < j => TimeOf[arrived[k][i]] <= TimeOf[arrived[k][j]]

Orderly(k) == InOrder(k) /\ k \notin disturbed

Answering == qpc \in {"files", "scan", "done"}
Recs      == [i \in DOMAIN result.rows |-> result.rows[i].rec]

(* Whatever passes, kills and failures happen, a row of an answer decodes  *)
(* to time and position of a record of the device asked for, in range      *)
(* (MemToLocusFile against parse_file_gpsdata).                            *)
AnswerSound ==
  Answering => \A row \in Held(result.rows) :
    /\ KeyOf[row.rec] = query.key
    /\ row.time = TimeOf[row.rec]
    /\ row.pos = PosOf[row.rec]
    /\ InRange(query, row.rec)

(* An answer lists records in the order in which they arrived, none twice, *)
(* although passes move records from the map to the files while the query  *)
(* reads first the ones and then the other (query_his_locus).              *)
AnswerFollowsArrival ==
  Answering /\ Orderly(query.key) =>
    LET v == arrived[query.key] IN
    \A i, j \in DOMAIN Recs :
      i < j => \E m, n \in DOMAIN v : m < n /\ v[m] = Recs[i] /\ v[n] = Recs[j]

(* What was indexed before the query began, in a file of its hours, is in  *)
(* the answer or on a later page: no pass can hide it (query_his_locus_infile). *)
FiledIsReturned ==
  qpc = "done" /\ Orderly(query.key) /\ query.cur_page = 1
    /\ result.count < query.page_size
  => \A r \in owed : KeyOf[r] = query.key /\ InRange(query, r) => r \in Held(Recs)

(* the records in range that are not in a file, or in one of an hour that  *)
(* the query does not read: a record of the same hour of a later day       *)
Unreadable(q) ==
  lost \cup {p[1] : p \in pressed}
       \cup UNION {Indexed(f) : f \in {g \in Files : g[1] < HourOf(q.begin)}}

(* the rows of all pages: what has arrived, in range and readable           *)
Expected(q) ==
  FoldLeft(LAMBDA v, r : IF InRange(q, r) /\ r \notin Unreadable(q) THEN Append(v, r) ELSE v,
           <<>>, arrived[q.key])

(* the rows of the page of q out of the sequence v of all rows *)
Page(q, v) ==
  SubSeq(v, page_min_size(q) + 1,
         IF page_max_size(q) <= Len(v) THEN page_max_size(q) ELSE Len(v))

(* A query that no pass overlaps answers its page of exactly the records   *)
(* stored by then, across segments, hours, files and memory                *)
(* (query_his_locus with its end flag and page counts).                    *)
QuietAnswer ==
  [][ qpc # "done" /\ qpc' = "done" /\ quiet' /\ Orderly(query.key)'
      => Recs' = Page(query, Expected(query))'
    ]_vars
=============================================================================
