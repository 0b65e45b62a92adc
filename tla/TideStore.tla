------------------------------ MODULE TideStore ------------------------------
(***************************************************************************)
(* The storage core of the server: two temporary log files and two memory  *)
(* maps used as a double buffer.  Writer threads (the binary server, the   *)
(* REST server) append a record to the current log and then to the current *)
(* map.  The persist thread swaps the two buffers, lets three child        *)
(* threads move the retired map to the locus files, the around files and   *)
(* the last-position and statistics files, and truncates the retired log.  *)
(* No lock protects any of it.  A killed process restarts from its files.  *)
(*                                                                         *)
(* A map is the vector of records of each key; a log file is its           *)
(* projection on each key, because the order of lines of different keys is *)
(* never observable.  A record is appended, filed or counted as a whole.   *)
(***************************************************************************)
EXTENDS Naturals, Sequences, FiniteSets

CONSTANTS
  Keys,           (* device ids *)
  Records,        (* GPS records, each sent once; a resend is a new record *)
  KeyOf,          (* the device a record belongs to *)
  BinaryWriters,  (* threads that run CWriteData (one per binary server) *)
  RestWriters,    (* threads that run rest_data_writer (one mongoose loop) *)
  Requests,       (* the write requests clients send: sequences of records *)
  None,           (* no last position *)
  MaxCrashes,     (* bound: how often the process is killed *)
  MaxFails        (* bound: how often a child thread fails to open a file *)

Writers == BinaryWriters \cup RestWriters

ASSUME StoreAssumption ==
  /\ KeyOf \in [Records -> Keys]
  /\ BinaryWriters \cap RestWriters = {}
  /\ Requests \subseteq Seq(Records) \ {<<>>}
  /\ None \notin Records
  /\ MaxCrashes \in Nat
  /\ MaxFails \in Nat

Held(v)     == {v[i] : i \in DOMAIN v}
NoRepeat(v) == \A i, j \in DOMAIN v : v[i] = v[j] => i = j

(* no record is in two places of the requests: what a client sends twice   *)
(* is two records                                                          *)
ASSUME SentOnce ==
  /\ \A q \in Requests : NoRepeat(q)
  /\ \A p, q \in Requests : Held(p) \cap Held(q) # {} => p = q

ASSUME FewThreads == IsFiniteSet(Writers)

VARIABLES
  \* files, which survive the process
  tempLog,        \* contents of TEMP_LOG1 and TEMP_LOG2
  locus,          \* how many times a record was filed in the locus files
  around,         \* how many times a record was filed in the around files
  lastFile,       \* the last-data file
  eachFile,       \* the each-statistics file
  \* memory shared by the threads
  logfd,          \* m_pLogfd: which log is current
  active,         \* m_pumGpsInfo: which map is current
  mem,            \* m_umGpsInfo1, m_umGpsInfo2
  lastdata,       \* m_lastdata
  statisticdata,  \* m_statisticdata
  bakData,        \* m_bakData
  eachTotal,      \* CStatistic::m_EachTotalData
  \* threads
  boot,           \* progress of GpsInit
  todo,           \* requests not sent yet
  wpc,            \* next step of each writer
  wreq,           \* records a writer has still to write, the current one first
  wfind,          \* what its find() returned
  ppc,            \* next step of the persist thread
  pfile,          \* pPersisitFile
  pmem,           \* m_pumPersisitGpsInfo
  cpc,            \* next step of each child thread
  visited,        \* keys each child has iterated over
  must,           \* keys the retired map held when the children started
  \* history, read by no action's guard but the two bounds
  crossing,       \* writers between log and map when the map was swapped
  stored,         \* records whose WriteToMem has returned
  exempt,         \* records that met one of the races described below
  crashes,
  fails

files   == <<tempLog, locus, around, lastFile, eachFile>>
shared  == <<logfd, active, mem, lastdata, statisticdata, bakData, eachTotal>>
writer  == <<todo, wpc, wreq, wfind, crossing>>
persist == <<ppc, pfile, pmem>>
child   == <<cpc, visited, must>>
history == <<stored, exempt, crashes, fails>>
vars    == <<files, shared, boot, writer, persist, child, history>>

Buffers  == {1, 2}
Other(b) == 3 - b
Children == {"locus", "around", "last"}
NotFound == 0
Dangling == 3

Empty   == [k \in Keys |-> <<>>]
Zero    == [k \in Keys |-> 0]
Nowhere == [k \in Keys |-> None]

(* the record, and its device, that writer w is working on *)
Current(w)    == Head(wreq[w])
CurrentKey(w) == KeyOf[Current(w)]

(* the first step on a record: the binary server logs it first, REST last *)
FirstStep(w) == IF w \in BinaryWriters THEN "log" ELSE "register"

(* w has logged its current record and not yet put it in a map *)
Logged(w) == \/ wpc[w] \in {"find", "store"}
             \/ w \in BinaryWriters /\ wpc[w] = "register"

(* r has reached both of the history files *)
Filed(r) == locus[r] > 0 /\ around[r] > 0

InMap(m, r)  == r \in Held(mem[m][KeyOf[r]])
InLog(f, r)  == r \in Held(tempLog[f][KeyOf[r]])
Unvisited(c) == {r \in Records : InMap(pmem, r) /\ KeyOf[r] \notin visited[c]}

TypeOK ==
  /\ tempLog \in [Buffers -> [Keys -> Seq(Records)]]
  /\ locus \in [Records -> Nat] /\ around \in [Records -> Nat]
  /\ lastFile \in [Keys -> Records \cup {None}]
  /\ eachFile \in [Keys -> Nat]
  /\ logfd \in Buffers /\ active \in Buffers
  /\ mem \in [Buffers -> [Keys -> Seq(Records)]]
  /\ lastdata \in [Keys -> Records \cup {None}]
  /\ statisticdata \in [Keys -> Nat] /\ bakData \in [Keys -> Nat]
  /\ eachTotal \in [Keys -> Nat]
  /\ boot \in {"down", "loaded", "up"}
  /\ todo \subseteq Requests
  /\ wpc \in [Writers -> {"idle", "log", "register", "find", "store"}]
  /\ wreq \in [Writers -> Seq(Records)]
  /\ \A w \in Writers : wpc[w] # "idle" => wreq[w] # <<>>
  /\ wfind \in [Writers -> {NotFound, Dangling} \cup Buffers]
  /\ ppc \in {"wait", "swapLog", "swapMem", "join"}
  /\ pfile \in Buffers /\ pmem \in Buffers
  /\ cpc \in [Children -> {"idle", "scan", "writeEach", "writeLast"}]
  /\ visited \in [Children -> SUBSET Keys]
  /\ must \subseteq Keys
  /\ crossing \in [Writers -> BOOLEAN]
  /\ stored \subseteq Records /\ exempt \subseteq Records
  /\ crashes \in 0 .. MaxCrashes /\ fails \in 0 .. MaxFails

(* Freshly installed: every file is empty and the process is not running. *)
Init ==
  /\ tempLog = [b \in Buffers |-> Empty]
  /\ locus = [r \in Records |-> 0] /\ around = [r \in Records |-> 0]
  /\ lastFile = Nowhere /\ eachFile = Zero
  /\ logfd = 1 /\ active = 1
  /\ mem = [b \in Buffers |-> Empty]
  /\ lastdata = Nowhere /\ statisticdata = Zero
  /\ bakData = Zero /\ eachTotal = Zero
  /\ boot = "down"
  /\ todo = Requests
  /\ wpc = [w \in Writers |-> "idle"]
  /\ wreq = [w \in Writers |-> <<>>]
  /\ wfind = [w \in Writers |-> NotFound]
  /\ crossing = [w \in Writers |-> FALSE]
  /\ ppc = "wait" /\ pfile = 1 /\ pmem = 1
  /\ cpc = [c \in Children |-> "idle"]
  /\ visited = [c \in Children |-> {}]
  /\ must = {}
  /\ stored = {} /\ exempt = {} /\ crashes = 0 /\ fails = 0

-----------------------------------------------------------------------------
(* Startup.  LogToMem reads log 1 into map 1 and log 2 into map 2; the     *)
(* second buffer is current as soon as log 2 has a line.  m_bakData counts *)
(* the lines of both.  The records of log 1 then sit in the map that the   *)
(* next pass clears: those not filed before the crash are exempt.          *)
RecoveredBuffer == IF tempLog[2] # Empty THEN 2 ELSE 1

Orphans == {r \in Records : InLog(Other(RecoveredBuffer), r) /\ ~Filed(r)}

BugLoadFirstLogOnly == [tempLog EXCEPT ![2] = Empty]
RecoveredMaps == tempLog

BugLogfdNotMoved == 1
RecoveredLogfd == RecoveredBuffer

BugNoLastData == Nowhere
LastDataToMem == lastFile
StatisticDataToMem == eachFile

LoadFiles ==
  /\ boot = "down"
  /\ boot' = "loaded"
  /\ mem' = RecoveredMaps
  /\ logfd' = RecoveredLogfd
  /\ active' = RecoveredBuffer
  /\ bakData' = [k \in Keys |-> Len(tempLog[1][k]) + Len(tempLog[2][k])]
  /\ lastdata' = LastDataToMem
  /\ statisticdata' = StatisticDataToMem
  /\ exempt' = exempt \cup Orphans
  /\ UNCHANGED <<files, eachTotal, writer, persist, child, stored, crashes, fails>>

(* init_server adds what the last pass counted to what the logs hold; the  *)
(* persist thread already runs.  The servers start afterwards.             *)
InitStatistic ==
  /\ boot = "loaded"
  /\ boot' = "up"
  /\ eachTotal' = [k \in Keys |-> statisticdata[k] + bakData[k]]
  /\ UNCHANGED <<files, logfd, active, mem, lastdata, statisticdata, bakData,
                 writer, persist, child, history>>

(* The process is killed (from outside, or by itself when the persist or   *)
(* the binary thread gives up) and loses its memory.                       *)
Crash ==
  /\ boot # "down"
  /\ crashes < MaxCrashes
  /\ crashes' = crashes + 1
  /\ boot' = "down"
  /\ mem' = [b \in Buffers |-> Empty]
  /\ logfd' = 1 /\ active' = 1
  /\ lastdata' = Nowhere /\ statisticdata' = Zero
  /\ bakData' = Zero /\ eachTotal' = Zero
  /\ wpc' = [w \in Writers |-> "idle"]
  /\ wreq' = [w \in Writers |-> <<>>]
  /\ wfind' = [w \in Writers |-> NotFound]
  /\ crossing' = [w \in Writers |-> FALSE]
  /\ ppc' = "wait" /\ pfile' = 1 /\ pmem' = 1
  /\ cpc' = [c \in Children |-> "idle"]
  /\ visited' = [c \in Children |-> {}]
  /\ must' = {}
  /\ UNCHANGED <<files, todo, stored, exempt, fails>>

-----------------------------------------------------------------------------
(* The writers.  CWriteData::WriteToMem: write log, register, find, store; *)
(* rest_data_writer::write_gpsdata: register, write log, find, store.      *)

Receive(w) ==
  /\ boot = "up"
  /\ wpc[w] = "idle"
  /\ \E q \in todo : /\ todo' = todo \ {q}
                     /\ wreq' = [wreq EXCEPT ![w] = q]
  /\ wpc' = [wpc EXCEPT ![w] = FirstStep(w)]
  /\ UNCHANGED <<files, shared, boot, wfind, crossing, persist, child, history>>

(* one write(2) to the file descriptor that is current now *)
WriteLog(w) ==
  /\ wpc[w] = "log"
  /\ tempLog' = [tempLog EXCEPT ![logfd][CurrentKey(w)] = Append(@, Current(w))]
  /\ crossing' = [crossing EXCEPT ![w] = FALSE]
  /\ wpc' = [wpc EXCEPT ![w] = IF w \in BinaryWriters THEN "register" ELSE "find"]
  /\ UNCHANGED <<locus, around, lastFile, eachFile, shared, boot, todo, wreq,
                 wfind, persist, child, history>>

(* CStatistic::write_data.  The writer also registers the device id        *)
(* (module GpsidWriter) and offers the record to the publish queue (module *)
(* PubSub) here; those components share no state with this one.            *)
BugCountReset(n) == 1
CountOneMore(n)  == n + 1

Register(w) ==
  /\ wpc[w] = "register"
  /\ eachTotal' = [eachTotal EXCEPT ![CurrentKey(w)] = CountOneMore(@)]
  /\ wpc' = [wpc EXCEPT ![w] = IF w \in BinaryWriters THEN "find" ELSE "log"]
  /\ UNCHANGED <<files, logfd, active, mem, lastdata, statisticdata, bakData, boot,
                 todo, wreq, wfind, crossing, persist, child, history>>

(* m_ppumGpsData->find: an iterator into the map that is current now *)
FindVector(w) ==
  /\ wpc[w] = "find"
  /\ wfind' = [wfind EXCEPT ![w] = IF mem[active][CurrentKey(w)] # <<>>
                                   THEN active ELSE NotFound]
  /\ wpc' = [wpc EXCEPT ![w] = "store"]
  /\ UNCHANGED <<files, shared, boot, todo, wreq, crossing, persist, child, history>>

(* push_back through the iterator, wherever the current map is by now; the *)
(* vector may have been freed by clear(), and the record goes with it.     *)
PushBack(w) ==
  \/ /\ wfind[w] \in Buffers
     /\ mem' = [mem EXCEPT ![wfind[w]][CurrentKey(w)] = Append(@, Current(w))]
     /\ exempt' = IF crossing[w] THEN exempt \cup {Current(w)} ELSE exempt
  \/ /\ wfind[w] = Dangling
     /\ mem' = mem
     /\ exempt' = exempt \cup {Current(w)}

(* insert of a new vector into the map that is current now: it changes     *)
(* nothing when another writer inserted the key since the find.            *)
InsertVector(w) ==
  /\ wfind[w] = NotFound
  /\ \/ /\ mem[active][CurrentKey(w)] = <<>>
        /\ mem' = [mem EXCEPT ![active][CurrentKey(w)] = <<Current(w)>>]
        /\ exempt' = IF crossing[w] THEN exempt \cup {Current(w)} ELSE exempt
     \/ /\ mem[active][CurrentKey(w)] # <<>>
        /\ mem' = mem
        /\ exempt' = exempt \cup {Current(w)}

MoreRecords(w) == Len(wreq[w]) > 1

StoreRecord(w) ==
  /\ wpc[w] = "store"
  /\ PushBack(w) \/ InsertVector(w)
  /\ stored' = stored \cup {Current(w)}
  /\ wreq' = [wreq EXCEPT ![w] = Tail(@)]
  /\ wpc' = [wpc EXCEPT ![w] = IF MoreRecords(w) THEN FirstStep(w) ELSE "idle"]
  /\ UNCHANGED <<files, logfd, active, lastdata, statisticdata, bakData, eachTotal,
                 boot, todo, wfind, crossing, persist, child, crashes, fails>>

WriterStep(w) ==
  Receive(w) \/ WriteLog(w) \/ Register(w) \/ FindVector(w) \/ StoreRecord(w)

-----------------------------------------------------------------------------
(* The persist thread: CPersisitence::Core.                                *)

BugKeepIdleMap == mem
IdleMapCleared == [mem EXCEPT ![Other(active)] = Empty]

(* clear the idle map, which frees its vectors, and choose the buffers of  *)
(* this pass                                                               *)
BeginPass ==
  /\ boot # "down"
  /\ ppc = "wait"
  /\ mem' = IdleMapCleared
  /\ wfind' = [w \in Writers |-> IF wfind[w] = Other(active) THEN Dangling ELSE wfind[w]]
  /\ pfile' = logfd
  /\ pmem' = active
  /\ ppc' = "swapLog"
  /\ UNCHANGED <<files, logfd, active, lastdata, statisticdata, bakData, eachTotal, boot,
                 todo, wpc, wreq, crossing, child, history>>

(* A pass begins when the log is large enough or the period is over, that  *)
(* is, at any time and always after a bounded time.                        *)
BugStartWhenLarge == (\E k \in Keys : Len(tempLog[logfd][k]) > 1) /\ BeginPass
StartPass         == BeginPass

SwapLog ==
  /\ ppc = "swapLog"
  /\ logfd' = Other(pfile)
  /\ ppc' = "swapMem"
  /\ UNCHANGED <<files, active, mem, lastdata, statisticdata, bakData, eachTotal, boot,
                 writer, pfile, pmem, child, history>>

(* swap the map and create the three children, which iterate over the      *)
(* retired one                                                             *)
NextMap == Other(pmem)

SwapMem ==
  /\ ppc = "swapMem"
  /\ active' = NextMap
  /\ ppc' = "join"
  /\ cpc' = [c \in Children |-> "scan"]
  /\ visited' = [c \in Children |-> {}]
  /\ must' = {k \in Keys : mem[pmem][k] # <<>>}
  /\ crossing' = [w \in Writers |-> crossing[w] \/ Logged(w)]
  /\ UNCHANGED <<files, logfd, mem, lastdata, statisticdata, bakData, eachTotal, boot,
                 todo, wpc, wreq, wfind, pfile, pmem, history>>

BugJoinTwoChildren == cpc["locus"] = "idle" /\ cpc["last"] = "idle"
ChildrenJoined     == \A c \in Children : cpc[c] = "idle"

(* the three joins, then cat /dev/null > the retired log *)
JoinAndTruncate ==
  /\ ppc = "join"
  /\ ChildrenJoined
  /\ tempLog' = [tempLog EXCEPT ![pfile] = Empty]
  /\ ppc' = "wait"
  /\ UNCHANGED <<locus, around, lastFile, eachFile, shared, boot, writer, pfile, pmem,
                 child, history>>

-----------------------------------------------------------------------------
(* The children.  Each visits every key the retired map held at its start; *)
(* a key inserted meanwhile may or may not be met.  A vector is read when  *)
(* its key is visited.                                                     *)

Visit(c, k) ==
  /\ cpc[c] = "scan"
  /\ k \notin visited[c]
  /\ mem[pmem][k] # <<>>
  /\ visited' = [visited EXCEPT ![c] = @ \cup {k}]
  /\ UNCHANGED <<tempLog, lastFile, eachFile, logfd, active, mem, bakData, eachTotal,
                 boot, writer, persist, cpc, must, history>>

Add(count, v) == [r \in Records |-> IF r \in Held(v) THEN count[r] + 1 ELSE count[r]]

MemToLocusFile(k) ==
  /\ Visit("locus", k)
  /\ locus' = Add(locus, mem[pmem][k])
  /\ UNCHANGED <<around, lastdata, statisticdata>>

MemToAroundFile(k) ==
  /\ Visit("around", k)
  /\ around' = Add(around, mem[pmem][k])
  /\ UNCHANGED <<locus, lastdata, statisticdata>>

BugFront(v) == v[1]
Back(v)     == v[Len(v)]

BugCountReplaced(n, v) == Len(v)
CountMore(n, v)        == n + Len(v)

(* the scan of MemToLastFile: vector.back() and vector.size() *)
MemToLast(k) ==
  /\ Visit("last", k)
  /\ lastdata' = [lastdata EXCEPT ![k] = Back(mem[pmem][k])]
  /\ statisticdata' = [statisticdata EXCEPT ![k] = CountMore(@, mem[pmem][k])]
  /\ UNCHANGED <<locus, around>>

Scanned(c) == cpc[c] = "scan" /\ must \subseteq visited[c]

FinishScan(c) ==
  /\ c \in {"locus", "around"}
  /\ Scanned(c)
  /\ cpc' = [cpc EXCEPT ![c] = "idle"]
  /\ UNCHANGED <<files, shared, boot, writer, persist, visited, must, history>>

(* MemToLastFile: open both files with O_TRUNC, write the statistics, then *)
(* the last positions                                                      *)
OpenLastFiles ==
  /\ Scanned("last")
  /\ lastFile' = Nowhere
  /\ eachFile' = Zero
  /\ cpc' = [cpc EXCEPT !["last"] = "writeEach"]
  /\ UNCHANGED <<tempLog, locus, around, shared, boot, writer, persist, visited, must,
                 history>>

WriteEachFile ==
  /\ cpc["last"] = "writeEach"
  /\ eachFile' = statisticdata
  /\ cpc' = [cpc EXCEPT !["last"] = "writeLast"]
  /\ UNCHANGED <<tempLog, locus, around, lastFile, shared, boot, writer, persist,
                 visited, must, history>>

WriteLastFile ==
  /\ cpc["last"] = "writeLast"
  /\ lastFile' = lastdata
  /\ cpc' = [cpc EXCEPT !["last"] = "idle"]
  /\ UNCHANGED <<tempLog, locus, around, eachFile, shared, boot, writer, persist,
                 visited, must, history>>

(* A file does not open: the child returns NULL, which the join ignores.   *)
(* The locus and the around child leave the other keys unfiled; the last   *)
(* child has finished its scan, and its earlier opens have truncated.      *)
ChildFails(c) ==
  /\ fails < MaxFails
  /\ fails' = fails + 1
  /\ cpc[c] = "scan"
  /\ \/ /\ c \in {"locus", "around"}
        /\ exempt' = exempt \cup Unvisited(c)
        /\ UNCHANGED <<lastFile, eachFile>>
     \/ /\ c = "last"
        /\ must \subseteq visited[c]
        /\ \/ UNCHANGED <<lastFile, eachFile>>
           \/ lastFile' = Nowhere /\ eachFile' \in {eachFile, Zero}
        /\ UNCHANGED exempt
  /\ cpc' = [cpc EXCEPT ![c] = "idle"]
  /\ UNCHANGED <<tempLog, locus, around, shared, boot, writer, persist, visited, must,
                 stored, crashes>>

LocusStep  == FinishScan("locus") \/ \E k \in Keys : MemToLocusFile(k)
AroundStep == FinishScan("around") \/ \E k \in Keys : MemToAroundFile(k)
LastStep   == \/ \E k \in Keys : MemToLast(k)
              \/ OpenLastFiles \/ WriteEachFile \/ WriteLastFile

Core == StartPass \/ SwapLog \/ SwapMem \/ JoinAndTruncate

Next ==
  \/ LoadFiles \/ InitStatistic \/ Crash
  \/ \E w \in Writers : WriterStep(w)
  \/ Core
  \/ LocusStep \/ AroundStep \/ LastStep
  \/ \E c \in Children : ChildFails(c)

Spec == Init /\ [][Next]_vars

(* The persist thread and its children are ordinary threads that never     *)
(* wait for a lock: each keeps running.  So does GpsInit.  Clients need    *)
(* not send, and a writer may be slow for ever.                            *)
Fairness ==
  /\ WF_vars(LoadFiles) /\ WF_vars(InitStatistic)
  /\ WF_vars(Core)
  /\ WF_vars(LocusStep) /\ WF_vars(AroundStep) /\ WF_vars(LastStep)

FairSpec == Spec /\ Fairness

-----------------------------------------------------------------------------
(* The query of the last position (query_last_pos): the current map, then  *)
(* the other one, then m_lastdata.                                         *)
BugMapsOnly(k) ==
  IF mem[active][k] # <<>> THEN Back(mem[active][k])
  ELSE IF mem[Other(active)][k] # <<>> THEN Back(mem[Other(active)][k]) ELSE None

LastPos(k) ==
  IF mem[active][k] # <<>> THEN Back(mem[active][k])
  ELSE IF mem[Other(active)][k] # <<>> THEN Back(mem[Other(active)][k])
  ELSE lastdata[k]

Running == boot # "down"

(* The current log and the current map always have the same number, except *)
(* between the two assignments that swap them: Core compares each of them  *)
(* only with its own pair and would retire the wrong log otherwise.        *)
PointersAgree ==
  IF ppc = "swapMem" THEN logfd = Other(pfile) /\ active = pmem /\ pfile = pmem
                     ELSE logfd = active

(* A record whose write has returned is in the history files or still in a *)
(* log, whatever is interleaved, killed or fails, unless it met one of the *)
(* races: it was between log and map during a swap, lost a first insertion *)
(* to another writer, was in the older of two logs found at a restart, or  *)
(* its child thread could not open a file.                                 *)
Durable ==
  \A r \in stored \ exempt : Filed(r) \/ InLog(1, r) \/ InLog(2, r)

(* While the process runs, a record that is not filed yet is also in a map *)
(* that a pass has still to file: the truncation of its log waits for it.  *)
Reachable ==
  Running => \A r \in stored \ exempt : Filed(r) \/ InMap(1, r) \/ InMap(2, r)

(* The inductive invariant behind PointersAgree, Durable and Reachable.    *)
(* What the program counters say about the buffers of the pass, and which  *)
(* threads run at all:                                                     *)
Phases ==
  /\ PointersAgree
  /\ ppc = "swapLog" => pfile = logfd /\ pmem = active
  /\ ppc = "join" => pfile = pmem /\ active = Other(pmem)
  /\ boot = "down" => ppc = "wait"
  /\ boot # "up" => \A w \in Writers : wpc[w] = "idle"
  /\ \A c \in Children : cpc[c] # "idle" => ppc = "join"

(* the current log, or the one just left while the map is not swapped yet  *)
InCurrentLog(r) ==
  InLog(logfd, r) \/ (ppc = "swapMem" /\ InLog(Other(logfd), r))

(* a map that will be filed before the log of r is truncated *)
Pending(r) ==
  \/ InMap(active, r) /\ InCurrentLog(r)
  \/ ppc = "join" /\ InMap(pmem, r) /\ (InLog(1, r) \/ InLog(2, r))

Secured ==
  \A r \in stored \ exempt :
    Filed(r) \/ IF Running THEN Pending(r) ELSE InLog(1, r) \/ InLog(2, r)

(* a writer that saw no swap since its log write still has the record in   *)
(* the current log, and its iterator in the current map                    *)
InFlight ==
  \A w \in Writers : ~crossing[w] =>
    /\ Logged(w) => InCurrentLog(Current(w))
    /\ wpc[w] = "store" => wfind[w] \in {NotFound, Dangling, active}

(* the part of the retired map that is not exempt was there when the       *)
(* children started, and each has filed what it has visited                *)
Progress ==
  ppc = "join" =>
    \A r \in Records \ exempt : InMap(pmem, r) =>
      /\ KeyOf[r] \in must
      /\ (KeyOf[r] \in visited["locus"] \/ cpc["locus"] = "idle") => locus[r] > 0
      /\ (KeyOf[r] \in visited["around"] \/ cpc["around"] = "idle") => around[r] > 0

StoreInv == Phases /\ Secured /\ InFlight /\ Progress

(* No record is filed twice in the locus or the around files, except once  *)
(* more for each time the process was killed and replayed its log.         *)
DuplicatesBounded ==
  \A r \in Records : locus[r] <= 1 + crashes /\ around[r] <= 1 + crashes

(* Between passes the statistics agree with the locus files, key by key,   *)
(* although two different threads produced them from a map that writers    *)
(* may still have been changing.                                           *)
LocusCount(k) == Cardinality({r \in Records : KeyOf[r] = k /\ locus[r] > 0})

StatisticsMatchLocus ==
  (exempt = {} /\ crashes = 0 /\ fails = 0 /\ ppc = "wait") =>
    \A k \in Keys : statisticdata[k] = LocusCount(k) /\ eachFile[k] = LocusCount(k)

(* The running total of a key is what the passes counted plus what the     *)
(* current map holds, whenever no writer and no child is at work.          *)
TotalsAgree ==
  (/\ boot = "up" /\ exempt = {} /\ crashes = 0
   /\ \A w \in Writers : wpc[w] = "idle"
   /\ \A c \in Children : cpc[c] = "idle") =>
     \A k \in Keys : eachTotal[k] = statisticdata[k] + Len(mem[active][k])

(* The files of last positions and counts are what the persist thread has  *)
(* in memory, except while its child is at work and after one that failed: *)
(* a kill that leaves them short falls between their truncation and the    *)
(* last write, and the next start loads what is left.                      *)
LastFilesCurrent ==
  (boot # "down" /\ cpc["last"] = "idle" /\ fails = 0) =>
    lastFile = lastdata /\ eachFile = statisticdata

(* A query right after a store returns the record just stored, and no other *)
(* step changes the last position of a device: swapping, clearing and      *)
(* persisting the maps never takes it back to an older one or to nothing.  *)
(* (Where a restart found two logs, the first pass does: it clears the map *)
(* of the older one unread, and the positions that only it holds are gone, *)
(* even of records that are filed.)                                        *)
OlderLog == ppc = "wait" /\ tempLog[Other(logfd)] # Empty
Stores(w, k) == wpc[w] = "store" /\ wreq'[w] # wreq[w] /\ CurrentKey(w) = k

LastPosNeverRegresses ==
  [][(boot = "up" /\ boot' = "up" /\ exempt' = {} /\ ~OlderLog) =>
       \A k \in Keys :
         /\ \A w \in Writers : Stores(w, k) => LastPos(k)' = Current(w)
         /\ (\A w \in Writers : ~Stores(w, k)) => LastPos(k)' = LastPos(k)]_vars

(* Every record whose write has returned reaches both history files, if it *)
(* is exposed to none of the races.                                        *)
EventuallyFiled ==
  \A r \in Records : (r \in stored) ~> (r \in exempt \/ Filed(r))
=============================================================================
