------------------------- MODULE GpsidWriterProofs -------------------------
(***************************************************************************)
(* What holds of the id register for any number of writer threads and ids, *)
(* whatever insertions overlap: RegisterInv is inductive, and with it a    *)
(* logged device stays registered and a listed one stays on disk.  The     *)
(* process that also keeps device information (GpsInfo) keeps the same     *)
(* invariant, and InfoInv shows that the information survives the          *)
(* compaction of its file.                                                 *)
(***************************************************************************)
EXTENDS GpsInfo, WellFoundedInduction, TLAPS

(* The initial states satisfy the invariant. *)
LEMMA RegisterInit == Init => RegisterInv
<1> SUFFICES ASSUME Init PROVE RegisterInv
  OBVIOUS
<1>1. TypeOK
  <2>1. crashes \in 0 .. MaxCrashes /\ fails \in 0 .. MaxFails
    BY GpsidAssumption DEF Init
  <2>2. gpsid_file \in [Ids -> 0 .. 2]
    BY DEF Init
  <2>3. QED
    BY <2>1, <2>2 DEF Init, TypeOK
<1>2. gpsid_map = {} /\ logged = {} /\ \A w \in Writers : wpc[w] = "idle"
  BY DEF Init
<1>3. ListedIsKept /\ LoggedIsRegistered /\ Idle
  BY <1>2 DEF ListedIsKept, LoggedIsRegistered, Idle
<1>4. LogsRegistered
  BY <1>2 DEF LogsRegistered, Writers
<1>5. OnceInv
  <2>1. KeptOnce
    <3> SUFFICES ASSUME NEW k \in Ids PROVE gpsid_file[k] <= 1
      BY DEF KeptOnce
    <3>1. gpsid_file[k] = 0
      BY DEF Init
    <3>2. QED
      BY <3>1
  <2>2. RegisteredIsListed
    BY DEF Init, RegisteredIsListed
  <2>3. QED
    BY <1>2, <2>1, <2>2 DEF OnceInv
<1>6. QED
  BY <1>1, <1>3, <1>4, <1>5 DEF RegisterInv

(* What the step of a writer w leaves of the facts about the others: no    *)
(* other writer moves.                                                     *)
LEMMA StepTypes ==
  ASSUME TypeOK, [Next]_vars
  PROVE  TypeOK'
<1> USE GpsidAssumption DEF TypeOK
<1>1. CASE Start
  <2>1. gpsid_map' \subseteq Ids /\ is_init' \in BOOLEAN /\ up' \in BOOLEAN
    BY <1>1 DEF Start, ReadGpsidFromFile, InFile
  <2>2. fails' \in 0 .. MaxFails
    BY <1>1 DEF Start
  <2>3. UNCHANGED <<gpsid_file, wpc, wid, logged, exempt, raced, crashes>>
    BY <1>1 DEF Start, writer
  <2>4. QED
    BY <2>1, <2>2, <2>3
<1>2. CASE Crash
  <2>1. exempt' \subseteq Ids
    <3>1. Lost \subseteq Ids
      BY DEF Lost, Writers
    <3>2. QED
      BY <1>2, <3>1 DEF Crash
  <2>2. crashes' \in 0 .. MaxCrashes
    BY <1>2 DEF Crash
  <2>3. wpc' \in [Writers -> {"idle", "log", "find", "insert", "append"}]
    BY <1>2 DEF Crash
  <2>4. /\ gpsid_map' = {} /\ is_init' = FALSE /\ up' = FALSE
        /\ UNCHANGED <<gpsid_file, wid, logged, raced, fails>>
    BY <1>2 DEF Crash
  <2>5. QED
    BY <2>1, <2>2, <2>3, <2>4
<1>3. ASSUME NEW w \in Writers, Receive(w) PROVE TypeOK'
  BY <1>3 DEF Receive, FirstStep, history
<1>4. ASSUME NEW w \in Writers, WriteLog(w) PROVE TypeOK'
  BY <1>4 DEF WriteLog, AfterLog
<1>5. ASSUME NEW w \in Writers, Find(w) PROVE TypeOK'
  BY <1>5 DEF Find, AfterRegister
<1>6. ASSUME NEW w \in Writers, Insert(w) PROVE TypeOK'
  BY <1>6 DEF Insert, WithInserted, AfterInsert, history
<1>7. ASSUME NEW w \in Writers, WriteGpsId(w) PROVE TypeOK'
  BY <1>7 DEF WriteGpsId, AfterRegister, OneMore
<1>8. CASE UNCHANGED vars
  BY <1>8 DEF vars, writer, history
<1>9. QED
  BY <1>1, <1>2, <1>3, <1>4, <1>5, <1>6, <1>7, <1>8 DEF Next, InsertGpsIDMsg

LEMMA StepKeepsListed ==
  ASSUME RegisterInv, [Next]_vars
  PROVE  ListedIsKept'
<1> USE GpsidAssumption DEF RegisterInv, TypeOK, ListedIsKept, Appending, InFile
<1>1. CASE Start
  BY <1>1 DEF Start, ReadGpsidFromFile, writer
<1>2. CASE Crash
  BY <1>2 DEF Crash
<1>3. ASSUME NEW w \in Writers, Receive(w) PROVE ListedIsKept'
  BY <1>3 DEF Receive, FirstStep, history
<1>4. ASSUME NEW w \in Writers, WriteLog(w) PROVE ListedIsKept'
  BY <1>4 DEF WriteLog, AfterLog
<1>5. ASSUME NEW w \in Writers, Find(w) PROVE ListedIsKept'
  BY <1>5 DEF Find, AfterRegister
<1>6. ASSUME NEW w \in Writers, Insert(w) PROVE ListedIsKept'
  BY <1>6 DEF Insert, WithInserted, AfterInsert, history
<1>7. ASSUME NEW w \in Writers, WriteGpsId(w) PROVE ListedIsKept'
  BY <1>7 DEF WriteGpsId, AfterRegister, OneMore
<1>8. CASE UNCHANGED vars
  BY <1>8 DEF vars, writer, history
<1>9. QED
  BY <1>1, <1>2, <1>3, <1>4, <1>5, <1>6, <1>7, <1>8 DEF Next, InsertGpsIDMsg

LEMMA StepKeepsRegistered ==
  ASSUME RegisterInv, [Next]_vars
  PROVE  LoggedIsRegistered'
<1> USE GpsidAssumption
    DEF RegisterInv, TypeOK, ListedIsKept, LoggedIsRegistered, LogsRegistered,
        Registering, Appending, InFile, Writers
<1>1. CASE Start
  BY <1>1 DEF Start, writer
<1>2. CASE Crash
  <2> SUFFICES ASSUME NEW k \in logged', k \notin exempt'
               PROVE  gpsid_file'[k] > 0
    BY <1>2 DEF Crash
  <2>1. k \in logged /\ k \notin exempt /\ gpsid_file' = gpsid_file
    BY <1>2 DEF Crash
  <2>2. k \in Ids /\ (k \in InFile \/ k \in Lost)
    BY <2>1 DEF Lost
  <2>3. k \notin Lost \ InFile
    BY <1>2 DEF Crash
  <2>4. QED
    BY <2>1, <2>2, <2>3
<1>3. ASSUME NEW w \in Writers, Receive(w) PROVE LoggedIsRegistered'
  BY <1>3 DEF Receive, FirstStep, history
<1>4. ASSUME NEW w \in Writers, WriteLog(w) PROVE LoggedIsRegistered'
  BY <1>4 DEF WriteLog, AfterLog
<1>5. ASSUME NEW w \in Writers, Find(w) PROVE LoggedIsRegistered'
  BY <1>5 DEF Find, AfterRegister
<1>6. ASSUME NEW w \in Writers, Insert(w) PROVE LoggedIsRegistered'
  BY <1>6 DEF Insert, WithInserted, AfterInsert, history
<1>7. ASSUME NEW w \in Writers, WriteGpsId(w) PROVE LoggedIsRegistered'
  BY <1>7 DEF WriteGpsId, AfterRegister, OneMore
<1>8. CASE UNCHANGED vars
  BY <1>8 DEF vars, writer, history
<1>9. QED
  BY <1>1, <1>2, <1>3, <1>4, <1>5, <1>6, <1>7, <1>8 DEF Next, InsertGpsIDMsg

LEMMA StepKeepsLogOrder ==
  ASSUME RegisterInv, [Next]_vars
  PROVE  LogsRegistered'
<1> USE GpsidAssumption
    DEF RegisterInv, TypeOK, ListedIsKept, LogsRegistered, Appending, InFile, Writers
<1>1. CASE Start
  BY <1>1 DEF Start, writer
<1>2. CASE Crash
  BY <1>2 DEF Crash
<1>3. ASSUME NEW w \in Writers, Receive(w) PROVE LogsRegistered'
  BY <1>3 DEF Receive, FirstStep, history
<1>4. ASSUME NEW w \in Writers, WriteLog(w) PROVE LogsRegistered'
  BY <1>4 DEF WriteLog, AfterLog
<1>5. ASSUME NEW w \in Writers, Find(w) PROVE LogsRegistered'
  BY <1>5 DEF Find, AfterRegister
<1>6. ASSUME NEW w \in Writers, Insert(w) PROVE LogsRegistered'
  BY <1>6 DEF Insert, AfterInsert, history
<1>7. ASSUME NEW w \in Writers, WriteGpsId(w) PROVE LogsRegistered'
  BY <1>7 DEF WriteGpsId, AfterRegister, OneMore
<1>8. CASE UNCHANGED vars
  BY <1>8 DEF vars, writer, history
<1>9. QED
  BY <1>1, <1>2, <1>3, <1>4, <1>5, <1>6, <1>7, <1>8 DEF Next, InsertGpsIDMsg

LEMMA StepKeepsIdle ==
  ASSUME TypeOK, Idle, [Next]_vars
  PROVE  Idle'
BY DEF Idle, TypeOK, Next, vars, writer, history, Start, Crash, Receive, WriteLog,
       InsertGpsIDMsg, Find, Insert, WriteGpsId

(* While no look-up missed beside an insertion, insertions come one after  *)
(* the other.                                                              *)
LEMMA StepKeepsOnce ==
  ASSUME RegisterInv, [Next]_vars
  PROVE  OnceInv'
<1> SUFFICES ASSUME ~raced'
             PROVE  /\ KeptOnce' /\ RegisteredIsListed'
                    /\ \A w \in Writers : wpc'[w] = "insert" => Inserting(w)'
                    /\ \A w \in Writers : wpc'[w] = "append" => AboutToAppend(w)'
  BY DEF OnceInv
<1> USE GpsidAssumption
    DEF RegisterInv, TypeOK, Idle, KeptOnce, RegisteredIsListed, Inserting,
        AboutToAppend, Overlapped, InFile
<1>0. ~raced
  BY DEF Next, Start, Crash, Receive, WriteLog, InsertGpsIDMsg, Find, Insert, WriteGpsId,
         vars, history
<1>1. /\ KeptOnce /\ RegisteredIsListed
      /\ \A w \in Writers : wpc[w] = "insert" => Inserting(w)
      /\ \A w \in Writers : wpc[w] = "append" => AboutToAppend(w)
  BY <1>0 DEF OnceInv
<1>2. CASE Start
  BY <1>1, <1>2 DEF Start, ReadGpsidFromFile, writer
<1>3. CASE Crash
  BY <1>1, <1>3 DEF Crash
<1>4. ASSUME NEW w \in Writers, Receive(w)
      PROVE  /\ KeptOnce' /\ RegisteredIsListed'
             /\ \A v \in Writers : wpc'[v] = "insert" => Inserting(v)'
             /\ \A v \in Writers : wpc'[v] = "append" => AboutToAppend(v)'
  BY <1>1, <1>4 DEF Receive, FirstStep, history
<1>5. ASSUME NEW w \in Writers, WriteLog(w)
      PROVE  /\ KeptOnce' /\ RegisteredIsListed'
             /\ \A v \in Writers : wpc'[v] = "insert" => Inserting(v)'
             /\ \A v \in Writers : wpc'[v] = "append" => AboutToAppend(v)'
  BY <1>1, <1>5 DEF WriteLog, AfterLog
<1>6. ASSUME NEW w \in Writers, Find(w)
      PROVE  /\ KeptOnce' /\ RegisteredIsListed'
             /\ \A v \in Writers : wpc'[v] = "insert" => Inserting(v)'
             /\ \A v \in Writers : wpc'[v] = "append" => AboutToAppend(v)'
  BY <1>1, <1>6 DEF Find, AfterRegister
<1>7. ASSUME NEW w \in Writers, Insert(w)
      PROVE  /\ KeptOnce' /\ RegisteredIsListed'
             /\ \A v \in Writers : wpc'[v] = "insert" => Inserting(v)'
             /\ \A v \in Writers : wpc'[v] = "append" => AboutToAppend(v)'
  <2>1. /\ wid[w] \notin gpsid_map /\ ~Overlapped(w)
        /\ gpsid_map' = gpsid_map \cup {wid[w]}
        /\ wpc' = [wpc EXCEPT ![w] = "append"]
        /\ UNCHANGED <<gpsid_file, is_init, up, wid>>
    BY <1>1, <1>7 DEF Insert, WithInserted, AfterInsert
  <2>2. \A v \in Writers : wpc'[v] # "insert"
    BY <2>1
  <2>3. up /\ (is_init => wid[w] \notin InFile)
    BY <1>1, <1>7, <2>1 DEF Insert
  <2>4. \A v \in Writers : wpc'[v] = "append" => AboutToAppend(v)'
    BY <1>1, <2>1, <2>3
  <2>5. KeptOnce' /\ RegisteredIsListed'
    BY <1>1, <2>1
  <2>6. QED
    BY <2>2, <2>4, <2>5
<1>8. ASSUME NEW w \in Writers, WriteGpsId(w)
      PROVE  /\ KeptOnce' /\ RegisteredIsListed'
             /\ \A v \in Writers : wpc'[v] = "insert" => Inserting(v)'
             /\ \A v \in Writers : wpc'[v] = "append" => AboutToAppend(v)'
  BY <1>1, <1>8 DEF WriteGpsId, AfterRegister, OneMore
<1>9. CASE UNCHANGED vars
  BY <1>1, <1>9 DEF vars, writer, history
<1>10. QED
  BY <1>2, <1>3, <1>4, <1>5, <1>6, <1>7, <1>8, <1>9 DEF Next, InsertGpsIDMsg

(* The invariant is inductive, so it holds of every behaviour.             *)
THEOREM RegisterCorrect == Spec => []RegisterInv
<1>1. RegisterInv /\ [Next]_vars => RegisterInv'
  <2> SUFFICES ASSUME RegisterInv, [Next]_vars PROVE RegisterInv'
    OBVIOUS
  <2>1. TypeOK'             BY StepTypes DEF RegisterInv
  <2>2. ListedIsKept'       BY StepKeepsListed
  <2>3. LoggedIsRegistered' BY StepKeepsRegistered
  <2>4. LogsRegistered'     BY StepKeepsLogOrder
  <2>5. Idle'               BY StepKeepsIdle DEF RegisterInv
  <2>6. OnceInv'            BY StepKeepsOnce
  <2>7. QED                 BY <2>1, <2>2, <2>3, <2>4, <2>5, <2>6 DEF RegisterInv
<1>2. QED
  BY RegisterInit, <1>1, PTL DEF Spec

(* A device whose record reached a temporary log is, at every moment, in   *)
(* the id file or being registered, but for the ids a kill or a failed     *)
(* write caught (data_writer.cpp WriteToMem and write_gpsdata).            *)
THEOREM LoggedRegistered == Spec => []LoggedIsRegistered
<1>1. RegisterInv => LoggedIsRegistered
  BY DEF RegisterInv
<1>2. QED
  BY RegisterCorrect, <1>1, PTL

(* A device that QryQgpsid lists is in the id file or about to be, but for *)
(* the ids a closed file or a failed write caught.                         *)
THEOREM ListedKept == Spec => []ListedIsKept
<1>1. RegisterInv => ListedIsKept
  BY DEF RegisterInv
<1>2. QED
  BY RegisterCorrect, <1>1, PTL

(* Until a look-up overlaps an insertion of the other thread, no id is     *)
(* twice in the file and every id of the file is listed, whatever is       *)
(* killed or fails (InsertGpsIDMsg and Init of gpsid_writer.cpp).          *)
THEOREM OnceUnlessOverlapped == Spec => []OnceUnlessRaced
<1>1. RegisterInv => OnceUnlessRaced
  BY DEF RegisterInv, OnceInv, OnceUnlessRaced
<1>2. QED
  BY RegisterCorrect, <1>1, PTL

-----------------------------------------------------------------------------
(* Device information. *)

(* A failed write of the information is the one step of the process that is *)
(* not a step of the register; it only counts.                             *)
LEMMA FailCounted ==
  ASSUME RegisterInv, fails' \in 0 .. MaxFails,
         UNCHANGED <<gpsid_file, gpsid_map, is_init, up, writer, logged, exempt, raced, crashes>>
  PROVE  RegisterInv'
BY DEF RegisterInv, TypeOK, ListedIsKept, LoggedIsRegistered, LogsRegistered, Idle, OnceInv,
       KeptOnce, RegisteredIsListed, Inserting, AboutToAppend, Overlapped, Appending, Registering,
       InFile, writer

(* The register keeps its invariant, and so what is proved of it above, in  *)
(* the process that also keeps device information, whose REST thread does   *)
(* one or the other and which is killed and restarted with both.           *)
THEOREM RegisterInProcess ==
  InfoSpec => [](LoggedIsRegistered /\ ListedIsKept /\ OnceUnlessRaced)
<1>1. InfoInit => RegisterInv
  BY RegisterInit DEF InfoInit
<1>2. RegisterInv /\ [InfoNext]_<<register, info>> => RegisterInv'
  <2> SUFFICES ASSUME RegisterInv, [InfoNext]_<<register, info>> PROVE RegisterInv'
    OBVIOUS
  <2>0. UNCHANGED register => UNCHANGED vars
    BY DEF register, vars
  <2>1. CASE [Next]_vars
    <3>1. TypeOK'             BY <2>1, StepTypes DEF RegisterInv
    <3>2. ListedIsKept'       BY <2>1, StepKeepsListed
    <3>3. LoggedIsRegistered' BY <2>1, StepKeepsRegistered
    <3>4. LogsRegistered'     BY <2>1, StepKeepsLogOrder
    <3>5. Idle'               BY <2>1, StepKeepsIdle DEF RegisterInv
    <3>6. OnceInv'            BY <2>1, StepKeepsOnce
    <3> QED BY <3>1, <3>2, <3>3, <3>4, <3>5, <3>6 DEF RegisterInv
  <2>2. ASSUME NEW k \in Ids, AppendInfo(k) PROVE RegisterInv'
    <3>1. fails' \in 0 .. MaxFails
      BY <2>2, GpsidAssumption DEF AppendInfo, RegisterInv, TypeOK
    <3>2. UNCHANGED <<gpsid_file, gpsid_map, is_init, up, writer, logged, exempt, raced, crashes>>
      BY <2>2 DEF AppendInfo
    <3> QED BY <3>1, <3>2, FailCounted
  <2>3. CASE Load BY <2>1, <2>3 DEF Load, Next
  <2>4. CASE Rename BY <2>0, <2>1, <2>4 DEF Rename
  <2>5. CASE Kill BY <2>1, <2>5 DEF Kill, Next
  <2>6. CASE Beside BY <2>1, <2>6 DEF Beside, Next
  <2>7. ASSUME NEW k \in Ids, CompactLine(k) PROVE RegisterInv'
    BY <2>0, <2>1, <2>7 DEF CompactLine
  <2>8. ASSUME NEW k \in Ids, NEW v \in Infos, WriteInfo(k, v) PROVE RegisterInv'
    BY <2>0, <2>1, <2>8 DEF WriteInfo
  <2>9. CASE UNCHANGED <<register, info>> BY <2>0, <2>1, <2>9
  <2> QED BY <2>2, <2>3, <2>4, <2>5, <2>6, <2>7, <2>8, <2>9 DEF InfoNext
<1>3. RegisterInv => LoggedIsRegistered /\ ListedIsKept /\ OnceUnlessRaced
  BY DEF RegisterInv, OnceInv, OnceUnlessRaced
<1> QED BY <1>1, <1>2, <1>3, PTL DEF InfoSpec

(* Values a client wrote last and that read back as they were.             *)
Lasting(k) == accepted[k] # NoInfo /\ ReadsBack(accepted[k])

(* The last line of the file is what counts, and the .bak file has it too.  *)
InfoInv ==
  /\ info_file \in [Ids -> Seq(Infos)] /\ info_bak \in [Ids -> Seq(Infos)]
  /\ gpsinfodata \in [Ids -> Infos \cup {NoInfo}] /\ accepted \in [Ids -> Infos \cup {NoInfo}]
  /\ phase \in {"down", "compact", "up"} /\ writing \in Ids \cup {NoInfo}
  /\ phase # "up" => writing = NoInfo
  /\ writing # NoInfo => gpsinfodata[writing] \in Infos
  /\ phase = "compact" =>
       \A k \in Ids : info_bak[k] # <<>> => gpsinfodata[k] \in Infos /\ info_bak[k] = <<gpsinfodata[k]>>
  /\ \A k \in Ids : Lasting(k) =>
       /\ info_file[k] # <<>> /\ Last(info_file[k]) = accepted[k]
       /\ phase = "compact" \/ (phase = "up" /\ k # writing) => gpsinfodata[k] = accepted[k]

(* Max is the largest element of a set of positions of a line.             *)
LEMMA MaxOfPositions ==
  ASSUME NEW n \in Nat, NEW S \in SUBSET (1 .. n), S # {}
  PROVE  Max(S) \in S /\ \A i \in S : i <= Max(S)
<1> DEFINE less == OpToRel(<, Nat)
           back == {n - i : i \in S}
<1>1. back \in SUBSET Nat /\ back # {}
  <2>1. \A i \in S : n - i \in Nat OBVIOUS
  <2> QED BY <2>1
<1>2. IsWellFoundedOn(less, Nat)
  BY NatLessThanWellFounded
<1>3. PICK m \in back : \A j \in back : <<j, m>> \notin less
  <2> HIDE DEF less, back
  <2> QED BY <1>1, <1>2, WFMin
<1>4. \A j \in back : ~(j < m)
  BY <1>1, <1>3 DEF OpToRel
<1>5. PICK x \in S : m = n - x
  BY <1>3
<1>6. \A y \in S : x >= y
  <2> TAKE y \in S
  <2>1. n - y \in back OBVIOUS
  <2>2. ~(n - y < n - x) BY <1>4, <1>5, <2>1
  <2> QED BY <2>2
<1> QED BY <1>6 DEF Max

(* Reading the lines of a device gives a value, and that of the last line  *)
(* if it has a comma.                                                      *)
LEMMA LinesRead ==
  ASSUME NEW k \in Ids, info_file[k] \in Seq(Infos)
  PROVE  /\ ReadLines(k) \in Infos \cup {NoInfo}
         /\ info_file[k] # <<>> /\ Last(info_file[k]) \in Readable =>
              ReadLines(k) = ReadAs[Last(info_file[k])]
<1> DEFINE line == info_file[k]
           parsed == {i \in DOMAIN line : line[i] \in Readable}
<1>0. ReadAs \in [Readable -> Infos] BY InfoAssumption
<1>1. CASE parsed = {}
  <2>1. ReadLines(k) = NoInfo BY <1>1 DEF ReadLines
  <2>2. line # <<>> => Len(line) \in DOMAIN line OBVIOUS
  <2> QED BY <1>1, <2>1, <2>2 DEF Last
<1>2. CASE parsed # {}
  <2>1. ReadLines(k) = ReadAs[line[Max(parsed)]] BY <1>2 DEF ReadLines
  <2>2. Max(parsed) \in parsed /\ \A i \in parsed : i <= Max(parsed)
    <3>1. parsed \in SUBSET (1 .. Len(line)) /\ Len(line) \in Nat OBVIOUS
    <3> HIDE DEF parsed, line
    <3> QED BY <1>2, <3>1, MaxOfPositions
  <2>3. PICK m \in parsed : m = Max(parsed) BY <2>2
  <2>4. ReadLines(k) = ReadAs[line[m]] /\ line[m] \in Readable BY <2>1, <2>3
  <2>5. line # <<>> /\ Last(line) \in Readable => m = Len(line)
    <3> SUFFICES ASSUME line # <<>>, Last(line) \in Readable PROVE m = Len(line) OBVIOUS
    <3>1. Len(line) \in parsed BY DEF Last
    <3>2. m \in 1 .. Len(line) /\ Len(line) <= m BY <2>2, <2>3, <3>1
    <3> QED BY <3>2
  <2> QED BY <1>0, <2>4, <2>5 DEF Last
<1> QED BY <1>1, <1>2

LEMMA InfoInitInv == InfoInit => InfoInv
<1> SUFFICES ASSUME InfoInit PROVE InfoInv OBVIOUS
<1>1. <<>> \in Seq(Infos) OBVIOUS
<1>2. NoLines \in [Ids -> Seq(Infos)] BY <1>1 DEF NoLines
<1>3. Unknown \in [Ids -> Infos \cup {NoInfo}] BY DEF Unknown
<1>4. \A k \in Ids : ~Lasting(k) BY DEF InfoInit, Lasting, Unknown
<1> QED BY <1>2, <1>3, <1>4 DEF InfoInit, InfoInv

(* Each step keeps it: a compaction writes what was read, and an append     *)
(* adds what the map has.                                                  *)
LEMMA InfoNextInv ==
  ASSUME InfoInv, [InfoNext]_<<register, info>>
  PROVE  InfoInv'
<1> USE InfoAssumption
<1>0. <<>> \in Seq(Infos) /\ NoLines \in [Ids -> Seq(Infos)]
      /\ Unknown \in [Ids -> Infos \cup {NoInfo}]
  BY DEF NoLines, Unknown
<1>1. CASE Load
  <2>1. /\ gpsinfodata' = [k \in Ids |-> ReadLines(k)] /\ info_bak' = NoLines
        /\ phase' = "compact" /\ phase = "down"
        /\ UNCHANGED <<info_file, writing, accepted>>
    BY <1>1 DEF Load
  <2>2. \A k \in Ids : ReadLines(k) \in Infos \cup {NoInfo} BY LinesRead DEF InfoInv
  <2>3. gpsinfodata' \in [Ids -> Infos \cup {NoInfo}] BY <2>1, <2>2
  <2>4. ASSUME NEW k \in Ids, Lasting(k)'
        PROVE  info_file'[k] # <<>> /\ Last(info_file'[k]) = accepted'[k]
               /\ gpsinfodata'[k] = accepted'[k]
    <3>1. Lasting(k) BY <2>1, <2>4 DEF Lasting
    <3>2. info_file[k] # <<>> /\ Last(info_file[k]) = accepted[k] BY <3>1 DEF InfoInv
    <3>3. ReadLines(k) = accepted[k]
      BY <3>1, <3>2, LinesRead DEF Lasting, ReadsBack, InfoInv
    <3> QED BY <2>1, <3>2, <3>3
  <2>5. \A k \in Ids : info_bak'[k] = <<>> BY <2>1 DEF NoLines
  <2> QED BY <1>0, <2>1, <2>3, <2>4, <2>5 DEF InfoInv
<1>2. ASSUME NEW j \in Ids, CompactLine(j) PROVE InfoInv'
  <2>1. /\ info_bak' = [info_bak EXCEPT ![j] = <<gpsinfodata[j]>>] /\ phase = "compact"
        /\ gpsinfodata[j] \in Infos
        /\ UNCHANGED <<info_file, gpsinfodata, phase, writing, accepted>>
    BY <1>2 DEF CompactLine, Known, InfoInv
  <2>2. <<gpsinfodata[j]>> \in Seq(Infos) BY <2>1
  <2>3. info_bak' \in [Ids -> Seq(Infos)] BY <2>1, <2>2 DEF InfoInv
  <2>4. \A k \in Ids : info_bak'[k] # <<>> =>
          gpsinfodata[k] \in Infos /\ info_bak'[k] = <<gpsinfodata[k]>>
    BY <2>1 DEF InfoInv
  <2>5. \A k \in Ids : Lasting(k)' <=> Lasting(k) BY <2>1 DEF Lasting
  <2> QED BY <2>1, <2>3, <2>4, <2>5 DEF InfoInv
<1>3. CASE Rename
  <2>1. /\ info_file' = info_bak /\ info_bak' = NoLines /\ phase = "compact" /\ phase' = "up"
        /\ Compacted = Known
        /\ UNCHANGED <<gpsinfodata, writing, accepted>>
    BY <1>3 DEF Rename, AllCompacted
  <2>2. ASSUME NEW k \in Ids, Lasting(k)'
        PROVE  info_file'[k] # <<>> /\ Last(info_file'[k]) = accepted'[k]
               /\ gpsinfodata'[k] = accepted'[k]
    <3>1. Lasting(k) BY <2>1, <2>2 DEF Lasting
    <3>2. gpsinfodata[k] = accepted[k] /\ accepted[k] # NoInfo
      BY <2>1, <3>1 DEF InfoInv, Lasting
    <3>3. info_bak[k] = <<accepted[k]>> BY <2>1, <3>2 DEF Compacted, Known, InfoInv
    <3>4. Last(<<accepted[k]>>) = accepted[k] /\ <<accepted[k]>> # <<>> BY DEF Last
    <3> QED BY <2>1, <3>2, <3>3, <3>4
  <2> QED BY <1>0, <2>1, <2>2 DEF InfoInv
<1>4. CASE Kill
  <2>1. /\ info_bak' = NoLines /\ gpsinfodata' = Unknown /\ phase' = "down" /\ writing' = NoInfo
        /\ UNCHANGED <<info_file, accepted>>
    BY <1>4 DEF Kill
  <2>2. \A k \in Ids : Lasting(k)' <=> Lasting(k) BY <2>1 DEF Lasting
  <2> QED BY <1>0, <2>1, <2>2 DEF InfoInv
<1>5. ASSUME NEW j \in Ids, NEW v \in Infos, WriteInfo(j, v) PROVE InfoInv'
  <2>1. /\ gpsinfodata' = [gpsinfodata EXCEPT ![j] = v] /\ writing' = j /\ writing = NoInfo
        /\ phase = "up"
        /\ UNCHANGED <<info_file, info_bak, phase, accepted>>
    BY <1>5 DEF WriteInfo, RestIdle
  <2>2. \A k \in Ids : Lasting(k)' <=> Lasting(k) BY <2>1 DEF Lasting
  <2> QED BY <2>1, <2>2 DEF InfoInv
<1>6. ASSUME NEW j \in Ids, AppendInfo(j) PROVE InfoInv'
  <2>0. /\ writing = j /\ writing' = NoInfo /\ phase = "up" /\ gpsinfodata[j] \in Infos
        /\ UNCHANGED <<info_bak, gpsinfodata, phase>>
    BY <1>6 DEF AppendInfo, InfoInv
  <2>1. CASE /\ info_file' = [info_file EXCEPT ![j] = Append(@, gpsinfodata[j])]
             /\ accepted' = [accepted EXCEPT ![j] = gpsinfodata[j]]
    <3>0. info_file[j] \in Seq(Infos) BY DEF InfoInv
    <3>1. /\ Append(info_file[j], gpsinfodata[j]) \in Seq(Infos)
          /\ Append(info_file[j], gpsinfodata[j]) # <<>>
          /\ Last(Append(info_file[j], gpsinfodata[j])) = gpsinfodata[j]
      BY <2>0, <3>0 DEF Last
    <3>2. info_file' \in [Ids -> Seq(Infos)] /\ accepted' \in [Ids -> Infos \cup {NoInfo}]
      BY <2>0, <2>1, <3>1 DEF InfoInv
    <3>3. ASSUME NEW k \in Ids, Lasting(k)'
          PROVE  info_file'[k] # <<>> /\ Last(info_file'[k]) = accepted'[k]
                 /\ gpsinfodata[k] = accepted'[k]
      <4>1. CASE k = j BY <2>1, <3>1, <4>1 DEF InfoInv
      <4>2. CASE k # j
        <5>1. accepted'[k] = accepted[k] /\ info_file'[k] = info_file[k]
          BY <2>1, <4>2 DEF InfoInv
        <5>2. Lasting(k) BY <3>3, <5>1 DEF Lasting
        <5> QED BY <2>0, <4>2, <5>1, <5>2 DEF InfoInv
      <4> QED BY <4>1, <4>2
    <3> QED BY <2>0, <3>2, <3>3 DEF InfoInv
  <2>2. CASE /\ accepted' = [accepted EXCEPT ![j] = NoInfo]
             /\ UNCHANGED info_file
    <3>1. accepted' \in [Ids -> Infos \cup {NoInfo}] BY <2>2 DEF InfoInv
    <3>2. ASSUME NEW k \in Ids, Lasting(k)'
          PROVE  k # j /\ accepted'[k] = accepted[k] /\ Lasting(k)
      BY <2>2, <3>2 DEF Lasting, InfoInv
    <3> QED BY <2>0, <2>2, <3>1, <3>2 DEF InfoInv
  <2> QED BY <1>6, <2>1, <2>2 DEF AppendInfo
<1>7. CASE UNCHANGED info
  <2>1. \A k \in Ids : Lasting(k)' <=> Lasting(k) BY <1>7 DEF Lasting, info
  <2> QED BY <1>7, <2>1 DEF InfoInv, info
<1> QED BY <1>1, <1>2, <1>3, <1>4, <1>5, <1>6, <1>7 DEF InfoNext, Beside

(* What a client last wrote of a device is what queries find, if it reads  *)
(* back as it was, for any number of devices, values and kills, at any     *)
(* step of the compaction (GpsInfoToMem and write_gpsinfo).                *)
THEOREM InformationKept == InfoSpec => []InfoKept
<1>1. InfoInv => InfoKept
  BY DEF InfoInv, InfoKept, Lasting
<1> QED BY InfoInitInv, InfoNextInv, <1>1, PTL DEF InfoSpec
=============================================================================
