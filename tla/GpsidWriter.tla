---------------------------- MODULE GpsidWriter ----------------------------
(***************************************************************************)
(* The register of device ids: a map and an append-only file of ids, read  *)
(* back at startup.  The two writer threads call InsertGpsIDMsg for each   *)
(* record, the binary server after it logged the record, the REST server   *)
(* before.  No lock protects the map: an insertion that overlaps another   *)
(* may leave elements unreachable, and a look-up that overlaps an          *)
(* insertion may miss (a fault it may cause is a Crash).                   *)
(*                                                                         *)
(* The order of the ids in the file is never observable, so the file is    *)
(* how often each id is in it: never, once or more than once.  Ids are     *)
(* short enough for the 32-byte buffers of the code.                       *)
(***************************************************************************)
EXTENDS Naturals

CONSTANTS
  Ids,            (* device ids *)
  BinaryWriters,  (* threads that run CWriteData *)
  RestWriters,    (* threads that run rest_data_writer *)
  MaxCrashes,     (* bound: how often the process is killed *)
  MaxFails        (* bound: how often the file does not open or a write fails *)

Writers == BinaryWriters \cup RestWriters

ASSUME GpsidAssumption ==
  /\ BinaryWriters \cap RestWriters = {}
  /\ MaxCrashes \in Nat
  /\ MaxFails \in Nat

VARIABLES
  gpsid_file,  \* how often each id is in the file, 2 for more than once
  gpsid_map,   \* m_gpsid_map
  is_init,     \* m_is_init: the file is open and was read
  up,          \* the servers run
  wpc,         \* next step of each writer
  wid,         \* the id a writer registers
  \* history
  logged,      \* ids of which a record is in a temporary log
  exempt,      \* ids that met a kill, a closed file or a failed write
  raced,       \* a look-up that missed overlapped an insertion
  crashes,
  fails

writer  == <<wpc, wid>>
history == <<logged, exempt, raced, crashes, fails>>
vars    == <<gpsid_file, gpsid_map, is_init, up, writer, history>>

InFile == {k \in Ids : gpsid_file[k] > 0}

TypeOK ==
  /\ gpsid_file \in [Ids -> 0 .. 2]
  /\ gpsid_map \subseteq Ids
  /\ is_init \in BOOLEAN /\ up \in BOOLEAN
  /\ wpc \in [Writers -> {"idle", "log", "find", "insert", "append"}]
  /\ wid \in [Writers -> Ids]
  /\ logged \subseteq Ids /\ exempt \subseteq Ids /\ raced \in BOOLEAN
  /\ crashes \in 0 .. MaxCrashes /\ fails \in 0 .. MaxFails

Init ==
  /\ gpsid_file = [k \in Ids |-> 0]
  /\ gpsid_map = {}
  /\ is_init = FALSE /\ up = FALSE
  /\ wpc = [w \in Writers |-> "idle"]
  /\ wid \in [Writers -> Ids]
  /\ logged = {} /\ exempt = {} /\ raced = FALSE
  /\ crashes = 0 /\ fails = 0

-----------------------------------------------------------------------------
(* GpsidWriter::Init at startup.  A file that does not open is only logged *)
(* and the server goes on without it.                                      *)
BugReadNothing    == {}
ReadGpsidFromFile == InFile

Start ==
  /\ ~up
  /\ up' = TRUE
  /\ \/ /\ is_init' = TRUE
        /\ gpsid_map' = ReadGpsidFromFile
        /\ UNCHANGED fails
     \/ /\ fails < MaxFails
        /\ fails' = fails + 1
        /\ is_init' = FALSE
        /\ gpsid_map' = {}
  /\ UNCHANGED <<gpsid_file, writer, logged, exempt, raced, crashes>>

(* The process is killed.  An id that is in the map alone is lost, and so  *)
(* is one the binary server has logged and not yet registered.             *)
Lost == {wid[w] : w \in {v \in Writers : wpc[v] = "append"}}
        \cup {wid[w] : w \in {v \in BinaryWriters : wpc[v] \in {"find", "insert"}}}

Crash ==
  /\ up
  /\ crashes < MaxCrashes
  /\ crashes' = crashes + 1
  /\ up' = FALSE /\ is_init' = FALSE
  /\ gpsid_map' = {}
  /\ wpc' = [w \in Writers |-> "idle"]
  /\ exempt' = exempt \cup (Lost \ InFile)
  /\ UNCHANGED <<gpsid_file, wid, logged, raced, fails>>

-----------------------------------------------------------------------------
(* One record.  CWriteData::WriteToMem logs, then registers;               *)
(* rest_data_writer::write_gpsdata registers, then logs.                   *)
BugNoRegister(w) == "log"
FirstStep(w)     == IF w \in BinaryWriters THEN "log" ELSE "find"
AfterLog(w)      == IF w \in BinaryWriters THEN "find" ELSE "idle"
AfterRegister(w) == IF w \in BinaryWriters THEN "idle" ELSE "log"

Receive(w) ==
  /\ up
  /\ wpc[w] = "idle"
  /\ \E k \in Ids : wid' = [wid EXCEPT ![w] = k]
  /\ wpc' = [wpc EXCEPT ![w] = FirstStep(w)]
  /\ UNCHANGED <<gpsid_file, gpsid_map, is_init, up, history>>

WriteLog(w) ==
  /\ wpc[w] = "log"
  /\ logged' = logged \cup {wid[w]}
  /\ wpc' = [wpc EXCEPT ![w] = AfterLog(w)]
  /\ UNCHANGED <<gpsid_file, gpsid_map, is_init, up, wid, exempt,
                 raced, crashes, fails>>

(* InsertGpsIDMsg: find, insert, WriteGpsId *)
Overlapped(w) == \E v \in Writers \ {w} : wpc[v] = "insert"

Find(w) ==
  /\ wpc[w] = "find"
  /\ \/ /\ wid[w] \in gpsid_map
        /\ wpc' = [wpc EXCEPT ![w] = AfterRegister(w)]
        /\ UNCHANGED raced
     \/ /\ wid[w] \notin gpsid_map \/ Overlapped(w)
        /\ wpc' = [wpc EXCEPT ![w] = "insert"]
        /\ raced' = (raced \/ Overlapped(w))
  /\ UNCHANGED <<gpsid_file, gpsid_map, is_init, up, wid, logged, exempt, crashes, fails>>

WithInserted(w) == gpsid_map \cup {wid[w]}
BugNoAppend(w)      == AfterRegister(w)
AfterInsert(w)      == "append"

Insert(w) ==
  /\ wpc[w] = "insert"
  /\ \/ gpsid_map' = WithInserted(w)
     \/ Overlapped(w) /\ gpsid_map' \in SUBSET WithInserted(w)
  /\ wpc' = [wpc EXCEPT ![w] = AfterInsert(w)]
  /\ UNCHANGED <<gpsid_file, is_init, up, wid, history>>

(* Without the file the id stays in memory only, and a write that fails    *)
(* is not noticed.                                                         *)
OneMore(n) == IF n = 0 THEN 1 ELSE 2

WriteGpsId(w) ==
  /\ wpc[w] = "append"
  /\ \/ /\ is_init
        /\ gpsid_file' = [gpsid_file EXCEPT ![wid[w]] = OneMore(@)]
        /\ UNCHANGED <<exempt, fails>>
     \/ /\ ~is_init
        /\ exempt' = exempt \cup ({wid[w]} \ InFile)
        /\ UNCHANGED <<gpsid_file, fails>>
     \/ /\ is_init
        /\ fails < MaxFails
        /\ fails' = fails + 1
        /\ exempt' = exempt \cup ({wid[w]} \ InFile)
        /\ UNCHANGED gpsid_file
  /\ wpc' = [wpc EXCEPT ![w] = AfterRegister(w)]
  /\ UNCHANGED <<gpsid_map, is_init, up, wid, logged, raced, crashes>>

InsertGpsIDMsg(w) == Find(w) \/ Insert(w) \/ WriteGpsId(w)

Next ==
  \/ Start \/ Crash
  \/ \E w \in Writers : Receive(w) \/ WriteLog(w) \/ InsertGpsIDMsg(w)

Spec == Init /\ [][Next]_vars

-----------------------------------------------------------------------------
(* gpsid_writer.h:4, "the gpsid only to keep one": no id is twice in the   *)
(* file, however often the server restarts.                                *)
KeptOnce == \A k \in Ids : gpsid_file[k] <= 1

(* The ids queries list (QryQgpsid) include every id of the file.          *)
RegisteredIsListed == up /\ is_init => InFile \subseteq gpsid_map

(* Both hold, across kills, failed writes and restarts, until a look-up    *)
(* overlaps the insertion of the other thread: that is the only way an id  *)
(* gets into the file twice, or is in the file and not listed.             *)
OnceUnlessRaced == ~raced => KeptOnce /\ RegisteredIsListed

(* The inductive invariant behind it: one insertion at a time, of an id    *)
(* that is new, and no two threads about to append the same id.            *)
Inserting(w) ==
  /\ wid[w] \notin gpsid_map
  /\ ~Overlapped(w)

AboutToAppend(w) ==
  /\ wid[w] \in gpsid_map
  /\ is_init => wid[w] \notin InFile
  /\ \A v \in Writers \ {w} : wpc[v] = "append" => wid[v] # wid[w]

OnceInv ==
  ~raced =>
    /\ KeptOnce /\ RegisteredIsListed
    /\ \A w \in Writers : wpc[w] = "insert" => Inserting(w)
    /\ \A w \in Writers : wpc[w] = "append" => AboutToAppend(w)

(* a writer that put k in the map and will append it *)
Appending(k) == \E w \in Writers : wid[w] = k /\ wpc[w] = "append"

(* A listed id is in the file or about to be, unless the file would not    *)
(* open or the write of that id failed, however the insertions overlap.    *)
ListedIsKept ==
  \A k \in gpsid_map \ exempt : k \in InFile \/ Appending(k)

(* the thread whose step would register k *)
Registering(k) ==
  \/ Appending(k)
  \/ \E w \in BinaryWriters : wid[w] = k /\ wpc[w] \in {"find", "insert"}

(* A device whose record is in a log is in the id file or a thread is just *)
(* registering it; a kill breaks this only for the ids that were in memory *)
(* alone, or that the binary server had logged and not yet registered.     *)
LoggedIsRegistered ==
  \A k \in logged \ exempt : k \in InFile \/ Registering(k)

(* The inductive invariant behind both.  A REST writer logs only what it   *)
(* registered.                                                             *)
LogsRegistered ==
  \A w \in RestWriters :
    wpc[w] = "log" => wid[w] \in exempt \/ wid[w] \in InFile \/ Appending(wid[w])

Idle == ~up => gpsid_map = {} /\ \A w \in Writers : wpc[w] = "idle"

RegisterInv ==
  /\ TypeOK /\ ListedIsKept /\ LoggedIsRegistered /\ LogsRegistered /\ Idle
  /\ OnceInv
=============================================================================
