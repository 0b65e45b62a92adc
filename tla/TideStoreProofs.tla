-------------------------- MODULE TideStoreProofs --------------------------
(***************************************************************************)
(* For every set of devices, records, writers and requests and every       *)
(* number of crashes and failures.                                         *)
(*                                                                         *)
(* Of the store alone: its type invariant, the agreement of the two        *)
(* current pointers and the durability of every record that met none of    *)
(* the races.  Of the store with its history: no record is filed twice but *)
(* for a kill, the statistics and totals count each record once, last      *)
(* positions never go back, and what the queries see is LiveMaps; all of   *)
(* it rests on a record being in one place at a time on its way from a     *)
(* request to the files.                                                   *)
(***************************************************************************)
EXTENDS TideStoreMaps, SequenceTheorems, FiniteSetTheorems, TLAPS

-----------------------------------------------------------------------------
(* The store.                                                              *)

LEMMA BufferFacts ==
  /\ 1 \in Buffers /\ 2 \in Buffers
  /\ \A b \in Buffers : Other(b) \in Buffers /\ Other(b) # b /\ Other(Other(b)) = b
  /\ \A a, b \in Buffers : a # b => a = Other(b)
  /\ NotFound \notin Buffers /\ Dangling \notin Buffers
  BY DEF Buffers, Other, NotFound, Dangling

LEMMA EmptyTyped ==
  /\ Empty \in [Keys -> Seq(Records)]
  /\ Zero \in [Keys -> Nat]
  /\ Nowhere \in [Keys -> Records \cup {None}]
  BY DEF Empty, Zero, Nowhere

LEMMA TailNotEmpty ==
  ASSUME NEW S, NEW s \in Seq(S), Len(s) > 1
  PROVE  Tail(s) # <<>>
  <1> DEFINE n == Len(s)
             m == Len(Tail(s))
  <1>1. m = n - 1
    OBVIOUS
  <1>2. n \in Nat /\ n > 1
    OBVIOUS
  <1>3. m # 0
    <2> HIDE DEF n, m
    <2> QED
      BY <1>1, <1>2
  <1>4. Len(<<>>) = 0
    OBVIOUS
  <1> QED
    BY <1>3, <1>4

LEMMA HeldFacts ==
  ASSUME NEW S, NEW s \in Seq(S), NEW x
  PROVE  /\ Held(Append(s, x)) = Held(s) \cup {x}
         /\ Append(s, x) # <<>>
         /\ Held(<<x>>) = {x}
         /\ Held(<<>>) = {}
         /\ s # <<>> <=> Held(s) # {}
  <1>1. Held(Append(s, x)) = Held(s) \cup {x}
    <2>1. /\ DOMAIN Append(s, x) = 1 .. Len(s) + 1
          /\ \A i \in 1 .. Len(s) : Append(s, x)[i] = s[i]
          /\ Append(s, x)[Len(s) + 1] = x
          /\ DOMAIN s = 1 .. Len(s)
          /\ Len(s) \in Nat
      OBVIOUS
    <2>2. 1 .. Len(s) + 1 = 1 .. Len(s) \cup {Len(s) + 1}
      BY <2>1
    <2> QED
      BY <2>1, <2>2 DEF Held
  <1>2. Append(s, x) # <<>>
    BY <1>1 DEF Held
  <1>3. Held(<<x>>) = {x} /\ Held(<<>>) = {}
    BY DEF Held
  <1>4. s # <<>> <=> Held(s) # {}
    <2>1. CASE s = <<>>
      BY <1>3, <2>1
    <2>2. CASE s # <<>>
      <3>1. 1 \in DOMAIN s
        BY <2>2, EmptySeq
      <3> QED
        BY <2>2, <3>1 DEF Held
    <2> QED
      BY <2>1, <2>2
  <1> QED
    BY <1>1, <1>2, <1>3, <1>4

LEMMA CurrentTyped ==
  ASSUME TypeOK, NEW w \in Writers, wpc[w] # "idle"
  PROVE  /\ Current(w) \in Records
         /\ CurrentKey(w) \in Keys
         /\ wreq[w] \in Seq(Records)
         /\ wreq[w] # <<>>
  <1>1. wreq[w] \in Seq(Records) /\ wreq[w] # <<>>
    BY DEF TypeOK
  <1>2. Head(wreq[w]) \in Records
    BY <1>1
  <1> QED
    BY <1>1, <1>2, StoreAssumption DEF Current, CurrentKey

THEOREM TypeInit == Init => TypeOK
  BY EmptyTyped, StoreAssumption
  DEF Init, TypeOK, Buffers, Children, NotFound, Dangling

LEMMA TypeLoad ==
  ASSUME TypeOK, LoadFiles \/ InitStatistic
  PROVE  TypeOK'
  <1>1. RecoveredBuffer \in Buffers
    BY DEF RecoveredBuffer, Buffers
  <1>2. Orphans \subseteq Records
    BY DEF Orphans
  <1>3. CASE LoadFiles
    <2>1. \A k \in Keys : Len(tempLog[1][k]) \in Nat /\ Len(tempLog[2][k]) \in Nat
      BY DEF TypeOK, Buffers
    <2>2. bakData' \in [Keys -> Nat]
      <3>1. ASSUME NEW k \in Keys
            PROVE  Len(tempLog[1][k]) + Len(tempLog[2][k]) \in Nat
        <4> DEFINE a == Len(tempLog[1][k])
                   b == Len(tempLog[2][k])
        <4>1. a \in Nat /\ b \in Nat
          BY <2>1
        <4> HIDE DEF a, b
        <4>2. a + b \in Nat
          BY <4>1
        <4> QED
          BY <4>2 DEF a, b
      <3>2. bakData' = [k \in Keys |-> Len(tempLog[1][k]) + Len(tempLog[2][k])]
        BY <1>3 DEF LoadFiles, LastDataToMem, StatisticDataToMem
      <3> QED
        BY <3>1, <3>2
    <2>3. exempt' \subseteq Records
      BY <1>2, <1>3 DEF LoadFiles, LastDataToMem, StatisticDataToMem, TypeOK
    <2> QED
      BY <1>1, <1>3, <2>2, <2>3 DEF LoadFiles, LastDataToMem, StatisticDataToMem, TypeOK, files,
           writer, persist, child,
         RecoveredMaps, RecoveredLogfd
  <1>4. CASE InitStatistic
    BY <1>4 DEF InitStatistic, TypeOK, files, writer, persist, child, history
  <1> QED
    BY <1>3, <1>4

LEMMA TypeCrash ==
  ASSUME TypeOK, Crash
  PROVE  TypeOK'
  BY EmptyTyped, StoreAssumption
  DEF Crash, TypeOK, files, Buffers, Children, NotFound, Dangling

LEMMA TypeWriter ==
  ASSUME TypeOK, NEW w \in Writers, WriterStep(w)
  PROVE  TypeOK'
  <1>0. FirstStep(w) \in {"log", "register"}
    BY DEF FirstStep
  <1>1. CASE Receive(w)
    <2>1. PICK q \in todo : todo' = todo \ {q} /\ wreq' = [wreq EXCEPT ![w] = q]
      BY <1>1 DEF Receive
    <2>2. q \in Seq(Records) /\ q # <<>>
      BY <2>1, StoreAssumption DEF TypeOK
    <2> QED
      BY <1>0, <1>1, <2>1, <2>2
      DEF Receive, TypeOK, files, shared, persist, child, history
  <1>2. CASE WriteLog(w)
    <2>1. Current(w) \in Records /\ CurrentKey(w) \in Keys
      BY <1>2, CurrentTyped DEF WriteLog
    <2>2. Append(tempLog[logfd][CurrentKey(w)], Current(w)) \in Seq(Records)
      <3>1. tempLog[logfd][CurrentKey(w)] \in Seq(Records)
        BY <2>1 DEF TypeOK
      <3> QED
        BY <2>1, <3>1
    <2>3. tempLog' \in [Buffers -> [Keys -> Seq(Records)]]
      BY <1>2, <2>1, <2>2 DEF WriteLog, TypeOK
    <2>4. crossing' \in [Writers -> BOOLEAN]
      BY <1>2 DEF WriteLog, TypeOK
    <2>5. /\ wpc' \in [Writers -> {"idle", "log", "register", "find", "store"}]
          /\ \A v \in Writers : wpc'[v] # "idle" => wreq'[v] # <<>>
      BY <1>2 DEF WriteLog, TypeOK
    <2> QED
      BY <1>2, <2>3, <2>4, <2>5
      DEF WriteLog, TypeOK, shared, persist, child, history
  <1>3. CASE Register(w)
    <2>1. CurrentKey(w) \in Keys
      BY <1>3, CurrentTyped DEF Register
    <2>2. eachTotal' \in [Keys -> Nat]
      BY <1>3, <2>1 DEF Register, CountOneMore, TypeOK
    <2>3. /\ wpc' \in [Writers -> {"idle", "log", "register", "find", "store"}]
          /\ \A v \in Writers : wpc'[v] # "idle" => wreq'[v] # <<>>
      BY <1>3 DEF Register, TypeOK
    <2> QED
      BY <1>3, <2>2, <2>3 DEF Register, TypeOK, files, persist, child, history
  <1>4. CASE FindVector(w)
    BY <1>4 DEF FindVector, TypeOK, files, shared, persist, child, history
  <1>5. CASE StoreRecord(w)
    <2>1. /\ Current(w) \in Records /\ CurrentKey(w) \in Keys
          /\ wreq[w] \in Seq(Records) /\ wreq[w] # <<>>
      BY <1>5, CurrentTyped DEF StoreRecord
    <2>2. exempt' \in {exempt, exempt \cup {Current(w)}}
      BY <1>5 DEF StoreRecord, PushBack, InsertVector
    <2>3. mem' \in [Buffers -> [Keys -> Seq(Records)]]
      <3>0. mem \in [Buffers -> [Keys -> Seq(Records)]] /\ active \in Buffers
        BY DEF TypeOK
      <3>1. CASE PushBack(w) /\ wfind[w] \in Buffers
        <4>1. mem[wfind[w]][CurrentKey(w)] \in Seq(Records)
          BY <2>1, <3>0, <3>1
        <4>2. Append(mem[wfind[w]][CurrentKey(w)], Current(w)) \in Seq(Records)
          BY <2>1, <4>1
        <4>3. mem' = [mem EXCEPT ![wfind[w]][CurrentKey(w)] = Append(@, Current(w))]
          BY <3>1, BufferFacts DEF PushBack
        <4> QED
          BY <2>1, <3>0, <3>1, <4>2, <4>3
      <3>2. CASE PushBack(w) /\ wfind[w] = Dangling
        BY <3>0, <3>2, BufferFacts DEF PushBack
      <3>3. CASE InsertVector(w)
        <4>1. <<Current(w)>> \in Seq(Records)
          BY <2>1
        <4>2. \/ mem' = mem
              \/ mem' = [mem EXCEPT ![active][CurrentKey(w)] = <<Current(w)>>]
          BY <3>3 DEF InsertVector
        <4>3. [mem[active] EXCEPT ![CurrentKey(w)] = <<Current(w)>>]
                \in [Keys -> Seq(Records)]
          BY <2>1, <3>0, <4>1
        <4> QED
          BY <3>0, <4>2, <4>3
      <3> QED
        BY <1>5, <3>1, <3>2, <3>3 DEF StoreRecord, PushBack
    <2>4. Tail(wreq[w]) \in Seq(Records)
      BY <2>1
    <2>5. Len(wreq[w]) > 1 => Tail(wreq[w]) # <<>>
      BY <2>1, TailNotEmpty
    <2>6. /\ wreq' \in [Writers -> Seq(Records)]
          /\ wpc' \in [Writers -> {"idle", "log", "register", "find", "store"}]
          /\ \A v \in Writers : wpc'[v] # "idle" => wreq'[v] # <<>>
      BY <1>0, <1>5, <2>4, <2>5 DEF StoreRecord, MoreRecords, TypeOK
    <2> QED
      BY <1>5, <2>1, <2>2, <2>3, <2>6
      DEF StoreRecord, TypeOK, files, persist, child, history
  <1> QED
    BY <1>1, <1>2, <1>3, <1>4, <1>5 DEF WriterStep

LEMMA TypeCore ==
  ASSUME TypeOK, Core
  PROVE  TypeOK'
  <1>1. CASE StartPass
    <2>1. mem' \in [Buffers -> [Keys -> Seq(Records)]]
      BY <1>1, EmptyTyped DEF StartPass, BeginPass, IdleMapCleared, TypeOK
    <2>2. wfind' \in [Writers -> {NotFound, Dangling} \cup Buffers]
      BY <1>1 DEF StartPass, BeginPass, TypeOK
    <2> QED
      BY <1>1, <2>1, <2>2
      DEF StartPass, BeginPass, TypeOK, files, child, history
  <1>2. CASE SwapLog
    BY <1>2, BufferFacts DEF SwapLog, TypeOK, files, writer, child, history
  <1>3. CASE SwapMem
    BY <1>3, BufferFacts
    DEF SwapMem, NextMap, Logged, TypeOK, files, history
  <1>4. CASE JoinAndTruncate
    BY <1>4, EmptyTyped
    DEF JoinAndTruncate, TypeOK, shared, writer, child, history
  <1> QED
    BY <1>1, <1>2, <1>3, <1>4 DEF Core

LEMMA AddTyped ==
  ASSUME NEW count \in [Records -> Nat], NEW v
  PROVE  Add(count, v) \in [Records -> Nat]
  BY DEF Add

LEMMA TypeChild ==
  ASSUME TypeOK, LocusStep \/ AroundStep \/ LastStep
  PROVE  TypeOK'
  <1> USE DEF TypeOK, history, writer, persist, files, shared
  <1>0. "locus" \in Children /\ "around" \in Children /\ "last" \in Children
    BY DEF Children
  <1>1. ASSUME NEW k \in Keys, MemToLocusFile(k) PROVE TypeOK'
    <2>1. locus' \in [Records -> Nat]
      BY <1>1, AddTyped DEF MemToLocusFile
    <2> QED
      BY <1>0, <1>1, <2>1 DEF MemToLocusFile, Visit
  <1>2. ASSUME NEW k \in Keys, MemToAroundFile(k) PROVE TypeOK'
    <2>1. around' \in [Records -> Nat]
      BY <1>2, AddTyped DEF MemToAroundFile
    <2> QED
      BY <1>0, <1>2, <2>1 DEF MemToAroundFile, Visit
  <1>3. ASSUME NEW k \in Keys, MemToLast(k) PROVE TypeOK'
    <2>1. mem[pmem][k] \in Seq(Records) /\ mem[pmem][k] # <<>>
      BY <1>3 DEF MemToLast, Visit
    <2>2. Back(mem[pmem][k]) \in Records
      BY <2>1 DEF Back
    <2>3. statisticdata[k] \in Nat
      OBVIOUS
    <2>4. Len(mem[pmem][k]) \in Nat
      BY <2>1
    <2>5. CountMore(statisticdata[k], mem[pmem][k]) \in Nat
      BY <2>3, <2>4 DEF CountMore
    <2> QED
      BY <1>0, <1>3, <2>2, <2>5 DEF MemToLast, Visit
  <1>4. CASE FinishScan("locus") \/ FinishScan("around")
    BY <1>4 DEF FinishScan
  <1>5. CASE OpenLastFiles
    BY <1>5, EmptyTyped DEF OpenLastFiles
  <1>6. CASE WriteEachFile
    BY <1>6 DEF WriteEachFile
  <1>7. CASE WriteLastFile
    BY <1>7 DEF WriteLastFile
  <1> QED
    BY <1>1, <1>2, <1>3, <1>4, <1>5, <1>6, <1>7 DEF LocusStep, AroundStep, LastStep

LEMMA TypeFails ==
  ASSUME TypeOK, NEW c \in Children, ChildFails(c)
  PROVE  TypeOK'
  <1>1. Unvisited(c) \subseteq Records
    BY DEF Unvisited
  <1>2. /\ lastFile' \in [Keys -> Records \cup {None}]
        /\ eachFile' \in [Keys -> Nat]
        /\ exempt' \subseteq Records
    BY <1>1, EmptyTyped DEF ChildFails, TypeOK
  <1> QED
    BY <1>2, StoreAssumption DEF ChildFails, TypeOK, shared, writer, persist

THEOREM TypeNext == TypeOK /\ [Next]_vars => TypeOK'
  <1> SUFFICES ASSUME TypeOK, [Next]_vars PROVE TypeOK'
    OBVIOUS
  <1>1. CASE UNCHANGED vars
    BY <1>1 DEF TypeOK, vars, files, shared, writer, persist, child, history
  <1>2. CASE Next
    BY <1>2, TypeLoad, TypeCrash, TypeWriter, TypeCore, TypeChild, TypeFails DEF Next
  <1> QED
    BY <1>1, <1>2

(* Every variable keeps its type in every reachable state. *)
THEOREM TypeCorrect == Spec => []TypeOK
  BY TypeInit, TypeNext, PTL DEF Spec
-----------------------------------------------------------------------------
(* The inductive invariant.                                                *)

THEOREM InvInit == Init => StoreInv
  <1> SUFFICES ASSUME Init PROVE StoreInv
    OBVIOUS
  <1>1. Phases
    BY DEF Init, Phases, PointersAgree
  <1>2. Secured
    BY DEF Init, Secured
  <1>3. InFlight
    BY DEF Init, InFlight, Logged
  <1>4. Progress
    BY DEF Init, Progress
  <1> QED
    BY <1>1, <1>2, <1>3, <1>4 DEF StoreInv

(* Recovery puts the log that stays current into the map that stays        *)
(* current, and exempts what it leaves in the other one.                   *)
LEMMA InvLoad ==
  ASSUME TypeOK, StoreInv, LoadFiles
  PROVE  StoreInv'
  <1>1. RecoveredBuffer \in Buffers
    BY DEF RecoveredBuffer, Buffers
  <1>2. /\ ppc = "wait" /\ ppc' = "wait" /\ boot' = "loaded"
        /\ \A w \in Writers : wpc[w] = "idle"
        /\ \A c \in Children : cpc[c] = "idle"
        /\ wpc' = wpc /\ cpc' = cpc /\ pfile' = pfile /\ pmem' = pmem
        /\ tempLog' = tempLog /\ locus' = locus /\ around' = around
        /\ stored' = stored
    BY DEF LoadFiles, LastDataToMem, StatisticDataToMem, StoreInv, Phases, persist, writer,
           child, files
  <1>3. Phases'
    BY <1>2 DEF LoadFiles, RecoveredLogfd, Phases, PointersAgree
  <1>4. Secured'
    <2> SUFFICES ASSUME NEW r \in (stored \ exempt)', ~Filed(r)'
                 PROVE  Pending(r)'
      BY <1>2 DEF Secured, Running
    <2>1. r \in stored \ exempt /\ r \in Records /\ r \notin Orphans /\ ~Filed(r)
      BY <1>2 DEF LoadFiles, Filed, TypeOK
    <2>2. InLog(1, r) \/ InLog(2, r)
      BY <2>1 DEF StoreInv, Secured, LoadFiles, LastDataToMem, StatisticDataToMem, Running
    <2>3. InLog(RecoveredBuffer, r)
      BY <1>1, <2>1, <2>2 DEF Orphans, Buffers, Other
    <2>4. InLog(logfd, r)' /\ InMap(active, r)'
      BY <1>2, <2>3 DEF LoadFiles, RecoveredMaps, RecoveredLogfd, InLog, InMap
    <2> QED
      BY <2>4 DEF Pending, InCurrentLog
  <1>5. InFlight'
    BY <1>2 DEF InFlight, Logged
  <1>6. Progress'
    BY <1>2 DEF Progress
  <1> QED
    BY <1>3, <1>4, <1>5, <1>6 DEF StoreInv

LEMMA InvStatistic ==
  ASSUME TypeOK, StoreInv, InitStatistic
  PROVE  StoreInv'
  BY DEF InitStatistic, StoreInv, Phases, PointersAgree, Secured, InFlight, Progress,
     Pending, InCurrentLog, InLog, InMap, Filed, Running, Logged, Current,
     files, writer, persist, child, history

(* A crash keeps the files, and with them what Secured promises. *)
LEMMA InvCrash ==
  ASSUME TypeOK, StoreInv, Crash
  PROVE  StoreInv'
  <1>1. /\ boot' = "down" /\ ppc' = "wait" /\ logfd' = active'
        /\ tempLog' = tempLog /\ locus' = locus /\ around' = around
        /\ stored' = stored /\ exempt' = exempt
        /\ \A w \in Writers : wpc'[w] = "idle"
        /\ \A c \in Children : cpc'[c] = "idle"
    BY DEF Crash, files
  <1>2. Phases'
    BY <1>1 DEF Phases, PointersAgree
  <1>3. Secured'
    <2> SUFFICES ASSUME NEW r \in stored \ exempt, ~Filed(r)
                 PROVE  InLog(1, r) \/ InLog(2, r)
      BY <1>1 DEF Secured, Running, Filed, InLog
    <2>1. Pending(r) \/ InLog(1, r) \/ InLog(2, r)
      BY DEF StoreInv, Secured
    <2>2. logfd \in {1, 2} /\ Other(logfd) \in {1, 2}
      BY BufferFacts DEF TypeOK, Buffers
    <2> QED
      BY <2>1, <2>2 DEF Pending, InCurrentLog
  <1>4. InFlight'
    BY <1>1 DEF InFlight, Logged
  <1>5. Progress'
    BY <1>1 DEF Progress
  <1> QED
    BY <1>2, <1>3, <1>4, <1>5 DEF StoreInv
(* The writers.  A log write lands in the current log and clears crossing. *)
LEMMA InvWriteLog ==
  ASSUME TypeOK, StoreInv, NEW w \in Writers, WriteLog(w)
  PROVE  StoreInv'
  <1>1. /\ Current(w) \in Records /\ CurrentKey(w) \in Keys
        /\ CurrentKey(w) = KeyOf[Current(w)]
        /\ boot = "up"
    BY CurrentTyped DEF WriteLog, StoreInv, Phases, CurrentKey
  <1>2. /\ mem' = mem /\ active' = active /\ logfd' = logfd /\ ppc' = ppc
        /\ pfile' = pfile /\ pmem' = pmem /\ boot' = boot /\ cpc' = cpc
        /\ visited' = visited /\ must' = must /\ wreq' = wreq /\ wfind' = wfind
        /\ locus' = locus /\ around' = around /\ stored' = stored /\ exempt' = exempt
    BY DEF WriteLog, shared, persist, child, history
  <1>3. \A f \in Buffers, k \in Keys : Held(tempLog[f][k]) \subseteq Held(tempLog'[f][k])
    <2> SUFFICES ASSUME NEW f \in Buffers, NEW k \in Keys
                 PROVE  Held(tempLog[f][k]) \subseteq Held(tempLog'[f][k])
      OBVIOUS
    <2>1. CASE f = logfd /\ k = CurrentKey(w)
      <3>1. tempLog[f][k] \in Seq(Records)
        BY DEF TypeOK
      <3>2. tempLog'[f][k] = Append(tempLog[f][k], Current(w))
        BY <1>1, <2>1 DEF WriteLog, TypeOK
      <3>3. Held(Append(tempLog[f][k], Current(w))) = Held(tempLog[f][k]) \cup {Current(w)}
        BY <3>1, HeldFacts, Zenon
      <3> QED
        BY <3>2, <3>3, Zenon
    <2>2. CASE ~(f = logfd /\ k = CurrentKey(w))
      BY <1>1, <2>2 DEF WriteLog, TypeOK
    <2> QED
      BY <2>1, <2>2
  <1>4. Current(w) \in Held(tempLog'[logfd][CurrentKey(w)])
    <2>1. tempLog[logfd][CurrentKey(w)] \in Seq(Records)
      BY <1>1 DEF TypeOK
    <2>2. tempLog'[logfd][CurrentKey(w)] = Append(tempLog[logfd][CurrentKey(w)], Current(w))
      BY <1>1 DEF WriteLog, TypeOK
    <2>3. Held(Append(tempLog[logfd][CurrentKey(w)], Current(w)))
            = Held(tempLog[logfd][CurrentKey(w)]) \cup {Current(w)}
      BY <2>1, HeldFacts, Zenon
    <2> QED
      BY <2>2, <2>3, Zenon
  <1>5. \A r \in Records, f \in Buffers : InLog(f, r) => InLog(f, r)'
    BY <1>3, StoreAssumption DEF InLog
  <1>6. \A r \in Records : (InCurrentLog(r) => InCurrentLog(r)') /\ (InMap(active, r) => InMap(active, r)')
                           /\ (InMap(pmem, r) <=> InMap(pmem, r)')
    BY <1>2, <1>5, BufferFacts DEF InCurrentLog, InMap, TypeOK
  <1>7. Phases'
    <2>1. \A v \in Writers : boot' # "up" => wpc'[v] = "idle"
      BY <1>1, <1>2
    <2> QED
      BY <1>2, <2>1 DEF StoreInv, Phases, PointersAgree
  <1>8. Secured'
    <2> SUFFICES ASSUME NEW r \in stored \ exempt, ~Filed(r)
                 PROVE  Pending(r)'
      BY <1>1, <1>2 DEF Secured, Running, Filed
    <2>1. r \in Records /\ Pending(r)
      BY <1>1 DEF StoreInv, Secured, Running, TypeOK
    <2> QED
      BY <1>2, <1>5, <1>6, <2>1 DEF Pending, Buffers
  <1>9. InFlight'
    <2> SUFFICES ASSUME NEW v \in Writers, ~crossing'[v]
                 PROVE  /\ Logged(v)' => InCurrentLog(Current(v))'
                        /\ wpc'[v] = "store" => wfind'[v] \in {NotFound, Dangling, active'}
      BY DEF InFlight
    <2>1. CASE v = w
      <3>1. InCurrentLog(Current(w))'
        BY <1>2, <1>4, <1>1 DEF InCurrentLog, InLog, Current, CurrentKey
      <3>2. wpc'[w] # "store"
        BY DEF WriteLog, TypeOK
      <3> QED
        BY <2>1, <3>1, <3>2
    <2>2. CASE v # w
      <3>1. ~crossing[v] /\ wpc'[v] = wpc[v] /\ Current(v)' = Current(v)
        BY <1>2, <2>2 DEF WriteLog, TypeOK, Current
      <3>2. Logged(v)' => Logged(v) /\ Current(v) \in Records
        <4>1. Logged(v) => wpc[v] # "idle"
          BY DEF Logged
        <4> QED
          BY <3>1, <4>1, CurrentTyped DEF Logged
      <3> QED
        BY <1>2, <1>6, <3>1, <3>2 DEF StoreInv, InFlight
    <2> QED
      BY <2>1, <2>2
  <1>10. Progress'
    BY <1>2, <1>6 DEF StoreInv, Progress
  <1> QED
    BY <1>7, <1>8, <1>9, <1>10 DEF StoreInv

LEMMA InvReceive ==
  ASSUME TypeOK, StoreInv, NEW w \in Writers, Receive(w)
  PROVE  StoreInv'
  <1>1. /\ boot = "up" /\ boot' = "up"
        /\ tempLog' = tempLog /\ mem' = mem /\ locus' = locus /\ around' = around
        /\ active' = active /\ logfd' = logfd /\ ppc' = ppc /\ pfile' = pfile
        /\ pmem' = pmem /\ cpc' = cpc /\ visited' = visited /\ must' = must
        /\ wfind' = wfind /\ crossing' = crossing
        /\ stored' = stored /\ exempt' = exempt
    BY DEF Receive, files, shared, persist, child, history
  <1>2. Phases' /\ Secured' /\ Progress'
    BY <1>1 DEF StoreInv, Phases, PointersAgree, Secured, Progress, Pending,
       InCurrentLog, InLog, InMap, Filed, Running
  <1>3. InFlight'
    <2> SUFFICES ASSUME NEW v \in Writers, ~crossing'[v]
                 PROVE  /\ Logged(v)' => InCurrentLog(Current(v))'
                        /\ wpc'[v] = "store" => wfind'[v] \in {NotFound, Dangling, active'}
      BY DEF InFlight
    <2>1. CASE v = w
      BY <2>1 DEF Receive, Logged, FirstStep, TypeOK
    <2>2. CASE v # w
      <3>1. wpc'[v] = wpc[v] /\ wreq'[v] = wreq[v] /\ ~crossing[v]
        BY <1>1, <2>2 DEF Receive, TypeOK
      <3> QED
        BY <1>1, <3>1 DEF StoreInv, InFlight, Logged, Current, InCurrentLog, InLog
    <2> QED
      BY <2>1, <2>2
  <1> QED
    BY <1>2, <1>3 DEF StoreInv

LEMMA InvRegister ==
  ASSUME TypeOK, StoreInv, NEW w \in Writers, Register(w)
  PROVE  StoreInv'
  <1>1. /\ boot' = boot /\ boot = "up"
        /\ tempLog' = tempLog /\ mem' = mem /\ locus' = locus /\ around' = around
        /\ active' = active /\ logfd' = logfd /\ ppc' = ppc /\ pfile' = pfile
        /\ pmem' = pmem /\ cpc' = cpc /\ visited' = visited /\ must' = must
        /\ wreq' = wreq /\ wfind' = wfind /\ crossing' = crossing
        /\ stored' = stored /\ exempt' = exempt
    BY DEF Register, StoreInv, Phases, files, persist, child, history
  <1>2. Phases' /\ Secured' /\ Progress'
    BY <1>1 DEF StoreInv, Phases, PointersAgree, Secured, Progress, Pending,
       InCurrentLog, InLog, InMap, Filed, Running
  <1>3. InFlight'
    <2>1. \A v \in Writers : /\ Logged(v)' => Logged(v)
                             /\ wpc'[v] = "store" => wpc[v] = "store"
      BY DEF Register, Logged, TypeOK
    <2> QED
      BY <1>1, <2>1 DEF StoreInv, InFlight, Current, InCurrentLog, InLog
  <1> QED
    BY <1>2, <1>3 DEF StoreInv

LEMMA InvFindVector ==
  ASSUME TypeOK, StoreInv, NEW w \in Writers, FindVector(w)
  PROVE  StoreInv'
  <1>1. /\ boot' = boot /\ boot = "up"
        /\ tempLog' = tempLog /\ mem' = mem /\ locus' = locus /\ around' = around
        /\ active' = active /\ logfd' = logfd /\ ppc' = ppc /\ pfile' = pfile
        /\ pmem' = pmem /\ cpc' = cpc /\ visited' = visited /\ must' = must
        /\ wreq' = wreq /\ crossing' = crossing
        /\ stored' = stored /\ exempt' = exempt
    BY DEF FindVector, StoreInv, Phases, files, shared, persist, child, history
  <1>2. Phases' /\ Secured' /\ Progress'
    BY <1>1 DEF StoreInv, Phases, PointersAgree, Secured, Progress, Pending,
       InCurrentLog, InLog, InMap, Filed, Running
  <1>3. InFlight'
    <2>1. \A v \in Writers :
            /\ Logged(v)' => Logged(v)
            /\ wpc'[v] = "store" => wpc[v] = "store" \/ wfind'[v] \in {NotFound, active}
            /\ v # w => wfind'[v] = wfind[v] /\ wpc'[v] = wpc[v]
      BY DEF FindVector, Logged, TypeOK
    <2>2. wfind'[w] \in {NotFound, active}
      BY DEF FindVector, TypeOK
    <2> QED
      BY <1>1, <2>1, <2>2 DEF StoreInv, InFlight, Current, InCurrentLog, InLog
  <1> QED
    BY <1>2, <1>3 DEF StoreInv
(* Storing a record removes nothing from a map; what it adds outside the   *)
(* current map is exempt, and the record itself, unless it is exempt, is   *)
(* then in the current map.                                                *)
LEMMA StoreFacts ==
  ASSUME TypeOK, InFlight, NEW w \in Writers, StoreRecord(w)
  PROVE  /\ \A m \in Buffers, r \in Records : InMap(m, r) => InMap(m, r)'
         /\ \A m \in Buffers, r \in Records :
              InMap(m, r)' /\ r \notin exempt' => InMap(m, r) \/ m = active
         /\ exempt \subseteq exempt' /\ exempt' \subseteq exempt \cup {Current(w)}
         /\ \A r \in Records : r = Current(w) /\ r \notin exempt'
                                => InMap(active, r)' /\ ~crossing[w]
  <1> DEFINE x == Current(w)
             k == CurrentKey(w)
  <1>1. /\ x \in Records /\ k \in Keys /\ k = KeyOf[x] /\ wpc[w] = "store"
        /\ mem \in [Buffers -> [Keys -> Seq(Records)]] /\ active \in Buffers
    BY CurrentTyped DEF StoreRecord, CurrentKey, TypeOK
  <1>2. ~crossing[w] => wfind[w] \in {NotFound, Dangling, active}
    BY <1>1 DEF InFlight
  <1>7. active' = active
    BY DEF StoreRecord
  <1>3. CASE PushBack(w) /\ wfind[w] \in Buffers
    <2> DEFINE t == wfind[w]
    <2>1. /\ mem' = [mem EXCEPT ![t][k] = Append(@, x)]
          /\ exempt' = IF crossing[w] THEN exempt \cup {x} ELSE exempt
      BY <1>3, BufferFacts DEF PushBack
    <2>2. mem[t][k] \in Seq(Records)
      BY <1>1, <1>3
    <2>3. Held(Append(mem[t][k], x)) = Held(mem[t][k]) \cup {x}
      BY <2>2, HeldFacts, Zenon
    <2>4. mem'[t][k] = Append(mem[t][k], x)
      BY <1>1, <1>3, <2>1
    <2>5. Held(mem'[t][k]) = Held(mem[t][k]) \cup {x}
      BY <2>3, <2>4, Zenon
    <2>6. \A m \in Buffers, l \in Keys : ~(m = t /\ l = k) => mem'[m][l] = mem[m][l]
      BY <1>1, <1>3, <2>1
    <2>7. ~crossing[w] => t = active
      BY <1>2, <1>3, BufferFacts
    <2>8. \A m \in Buffers, r \in Records :
            InMap(m, r)' <=> InMap(m, r) \/ (m = t /\ r = x)
      <3> SUFFICES ASSUME NEW m \in Buffers, NEW r \in Records
                   PROVE  InMap(m, r)' <=> InMap(m, r) \/ (m = t /\ r = x)
        OBVIOUS
      <3>1. KeyOf[r] \in Keys
        BY StoreAssumption
      <3>2. CASE m = t /\ KeyOf[r] = k
        BY <2>5, <3>2 DEF InMap
      <3>3. CASE ~(m = t /\ KeyOf[r] = k)
        BY <1>1, <2>6, <3>1, <3>3 DEF InMap
      <3> QED
        BY <3>2, <3>3
    <2> HIDE DEF x, k, t
    <2>9. \A m \in Buffers, r \in Records : InMap(m, r) => InMap(m, r)'
      BY <2>8, Zenon
    <2>10. exempt \subseteq exempt' /\ exempt' \subseteq exempt \cup {x}
      BY <2>1
    <2>11. x \notin exempt' => ~crossing[w]
      BY <2>1
    <2>12. \A m \in Buffers, r \in Records :
             InMap(m, r)' /\ r \notin exempt' => InMap(m, r) \/ m = active
      BY <2>7, <2>8, <2>11, Zenon
    <2>14. \A r \in Records : r = x /\ r \notin exempt' => InMap(active, r)'
      BY <1>1, <1>7, <2>7, <2>8, <2>11, Zenon
    <2> QED
      BY <2>9, <2>10, <2>11, <2>12, <2>14, Zenon DEF x
  <1>4. CASE PushBack(w) /\ wfind[w] = Dangling
    BY <1>1, <1>4, <1>7, BufferFacts DEF PushBack, InMap
  <1>5. CASE InsertVector(w) /\ mem[active][k] = <<>>
    <2>1. /\ mem' = [mem EXCEPT ![active][k] = <<x>>]
          /\ exempt' = IF crossing[w] THEN exempt \cup {x} ELSE exempt
      BY <1>5 DEF InsertVector
    <2>2. mem'[active][k] = <<x>> /\ mem[active][k] = <<>>
      BY <1>1, <1>5, <2>1
    <2>3. Held(<<x>>) = {x} /\ Held(<<>>) = {}
      BY DEF Held
    <2>4. Held(mem'[active][k]) = {x} /\ Held(mem[active][k]) = {}
      BY <2>2, <2>3, Zenon
    <2>6. \A m \in Buffers, l \in Keys : ~(m = active /\ l = k) => mem'[m][l] = mem[m][l]
      BY <1>1, <2>1
    <2>8. \A m \in Buffers, r \in Records :
            InMap(m, r)' <=> InMap(m, r) \/ (m = active /\ r = x)
      <3> SUFFICES ASSUME NEW m \in Buffers, NEW r \in Records
                   PROVE  InMap(m, r)' <=> InMap(m, r) \/ (m = active /\ r = x)
        OBVIOUS
      <3>1. KeyOf[r] \in Keys
        BY StoreAssumption
      <3>2. CASE m = active /\ KeyOf[r] = k
        BY <2>4, <3>2 DEF InMap
      <3>3. CASE ~(m = active /\ KeyOf[r] = k)
        BY <1>1, <2>6, <3>1, <3>3 DEF InMap
      <3> QED
        BY <3>2, <3>3
    <2> HIDE DEF x, k
    <2>9. \A m \in Buffers, r \in Records : InMap(m, r) => InMap(m, r)'
      BY <2>8, Zenon
    <2>10. exempt \subseteq exempt' /\ exempt' \subseteq exempt \cup {x}
      BY <2>1
    <2>11. x \notin exempt' => ~crossing[w]
      BY <2>1
    <2>12. \A m \in Buffers, r \in Records :
             InMap(m, r)' /\ r \notin exempt' => InMap(m, r) \/ m = active
      BY <2>8, Zenon
    <2>14. \A r \in Records : r = x /\ r \notin exempt' => InMap(active, r)'
      BY <1>1, <1>7, <2>8, Zenon
    <2> QED
      BY <2>9, <2>10, <2>11, <2>12, <2>14, Zenon DEF x
  <1>6. CASE InsertVector(w) /\ mem[active][k] # <<>>
    BY <1>1, <1>6, <1>7 DEF InsertVector, InMap
  <1> QED
    BY <1>3, <1>4, <1>5, <1>6 DEF StoreRecord, PushBack

LEMMA InvStoreRecord ==
  ASSUME TypeOK, StoreInv, NEW w \in Writers, StoreRecord(w)
  PROVE  StoreInv'
  <1>1. /\ boot' = boot /\ boot = "up"
        /\ tempLog' = tempLog /\ locus' = locus /\ around' = around
        /\ active' = active /\ logfd' = logfd /\ ppc' = ppc /\ pfile' = pfile
        /\ pmem' = pmem /\ cpc' = cpc /\ visited' = visited /\ must' = must
        /\ wfind' = wfind /\ crossing' = crossing
        /\ stored' = stored \cup {Current(w)}
        /\ active \in Buffers /\ pmem \in Buffers /\ Current(w) \in Records
        /\ stored \subseteq Records
    BY CurrentTyped
    DEF StoreRecord, StoreInv, Phases, TypeOK, files, persist, child
  <1>2. /\ \A m \in Buffers, r \in Records : InMap(m, r) => InMap(m, r)'
        /\ \A m \in Buffers, r \in Records :
             InMap(m, r)' /\ r \notin exempt' => InMap(m, r) \/ m = active
        /\ exempt \subseteq exempt'
        /\ \A r \in Records : r = Current(w) /\ r \notin exempt'
                               => InMap(active, r)' /\ ~crossing[w]
    BY StoreFacts DEF StoreInv
  <1>3. Phases'
    BY <1>1 DEF StoreInv, Phases, PointersAgree
  <1>4. Secured'
    <2> SUFFICES ASSUME NEW r \in stored', r \notin exempt', ~Filed(r)
                 PROVE  Pending(r)'
      BY <1>1 DEF Secured, Running, Filed
    <2>1. CASE r \in stored
      <3>1. r \in Records /\ Pending(r)
        BY <1>1, <1>2, <2>1 DEF StoreInv, Secured, Running
      <3> QED
        BY <1>1, <1>2, <3>1 DEF Pending, InCurrentLog, InLog, InMap
    <2>2. CASE r = Current(w)
      <3>1. InMap(active, r)' /\ ~crossing[w]
        BY <1>1, <1>2, <2>2
      <3>2. InCurrentLog(r)
        BY <2>2, <3>1 DEF StoreInv, InFlight, StoreRecord, Logged
      <3> QED
        BY <1>1, <3>1, <3>2 DEF Pending, InCurrentLog, InLog, InMap
    <2> QED
      BY <1>1, <2>1, <2>2
  <1>5. InFlight'
    <2> SUFFICES ASSUME NEW v \in Writers, ~crossing'[v]
                 PROVE  /\ Logged(v)' => InCurrentLog(Current(v))'
                        /\ wpc'[v] = "store" => wfind'[v] \in {NotFound, Dangling, active'}
      BY DEF InFlight
    <2>1. CASE v = w
      <3>1. wpc'[w] \in {FirstStep(w), "idle"}
        BY DEF StoreRecord, TypeOK
      <3> QED
        BY <2>1, <3>1 DEF FirstStep, Logged
    <2>2. CASE v # w
      <3>1. wpc'[v] = wpc[v] /\ wreq'[v] = wreq[v] /\ ~crossing[v]
        BY <1>1, <2>2 DEF StoreRecord, TypeOK
      <3> QED
        BY <1>1, <3>1 DEF StoreInv, InFlight, Logged, Current, InCurrentLog, InLog
    <2> QED
      BY <2>1, <2>2
  <1>6. Progress'
    <2> SUFFICES ASSUME ppc = "join", NEW r \in Records \ exempt', InMap(pmem, r)'
                 PROVE  /\ KeyOf[r] \in must
                        /\ (KeyOf[r] \in visited["locus"] \/ cpc["locus"] = "idle")
                             => locus[r] > 0
                        /\ (KeyOf[r] \in visited["around"] \/ cpc["around"] = "idle")
                             => around[r] > 0
      BY <1>1 DEF Progress, InMap
    <2>1. pmem # active
      BY <1>1, BufferFacts DEF StoreInv, Phases
    <2>2. InMap(pmem, r) /\ r \in Records \ exempt
      BY <1>1, <1>2, <2>1 DEF InMap
    <2> QED
      BY <2>2 DEF StoreInv, Progress
  <1> QED
    BY <1>3, <1>4, <1>5, <1>6 DEF StoreInv

-----------------------------------------------------------------------------
(* The persist thread.  It clears a map that secures nothing: the pass of  *)
(* that map is over, and what it did not file is exempt.                   *)
LEMMA InvStartPass ==
  ASSUME TypeOK, StoreInv, StartPass
  PROVE  StoreInv'
  <1>1. /\ boot # "down" /\ boot' = boot /\ ppc = "wait" /\ ppc' = "swapLog"
        /\ pfile' = logfd /\ pmem' = active /\ logfd' = logfd /\ active' = active
        /\ tempLog' = tempLog /\ locus' = locus /\ around' = around
        /\ wpc' = wpc /\ wreq' = wreq /\ crossing' = crossing
        /\ stored' = stored /\ exempt' = exempt
        /\ cpc' = cpc /\ visited' = visited /\ must' = must
        /\ active \in Buffers
    BY DEF StartPass, BeginPass, files, child, history, TypeOK
  <1>2. \A k \in Keys : mem'[active][k] = mem[active][k]
    BY <1>1, BufferFacts DEF StartPass, BeginPass, IdleMapCleared, TypeOK
  <1>3. \A r \in Records : InMap(active, r) => InMap(active, r)'
    BY <1>1, <1>2, StoreAssumption DEF InMap
  <1>4. Phases'
    BY <1>1 DEF StoreInv, Phases, PointersAgree
  <1>5. Secured'
    <2> SUFFICES ASSUME NEW r \in stored \ exempt, ~Filed(r)
                 PROVE  Pending(r)'
      BY <1>1 DEF Secured, Running, Filed
    <2>1. r \in Records /\ InMap(active, r) /\ InLog(logfd, r)
      BY <1>1 DEF StoreInv, Secured, Running, Pending, InCurrentLog, TypeOK
    <2> QED
      BY <1>1, <1>3, <2>1 DEF Pending, InCurrentLog, InLog
  <1>6. InFlight'
    <2> SUFFICES ASSUME NEW v \in Writers, ~crossing[v]
                 PROVE  /\ Logged(v)' => InCurrentLog(Current(v))'
                        /\ wpc'[v] = "store" => wfind'[v] \in {NotFound, Dangling, active'}
      BY <1>1 DEF InFlight
    <2>1. wfind'[v] \in {wfind[v], Dangling}
      BY DEF StartPass, BeginPass
    <2>2. Logged(v)' => InLog(logfd, Current(v))
      BY <1>1 DEF StoreInv, InFlight, Logged, InCurrentLog
    <2> QED
      BY <1>1, <2>1, <2>2 DEF StoreInv, InFlight, InCurrentLog, InLog, Current
  <1>7. Progress'
    BY <1>1 DEF Progress
  <1> QED
    BY <1>4, <1>5, <1>6, <1>7 DEF StoreInv

LEMMA InvSwapLog ==
  ASSUME TypeOK, StoreInv, SwapLog
  PROVE  StoreInv'
  <1>1. /\ boot' = boot /\ boot # "down" /\ ppc = "swapLog" /\ ppc' = "swapMem"
        /\ pfile' = pfile /\ pmem' = pmem /\ active' = active
        /\ pfile = logfd /\ pmem = active /\ logfd' = Other(logfd)
        /\ logfd = active /\ Other(logfd') = logfd /\ logfd \in Buffers
        /\ tempLog' = tempLog /\ mem' = mem /\ locus' = locus /\ around' = around
        /\ wpc' = wpc /\ wreq' = wreq /\ wfind' = wfind /\ crossing' = crossing
        /\ stored' = stored /\ exempt' = exempt
        /\ cpc' = cpc /\ visited' = visited /\ must' = must
    BY BufferFacts
    DEF SwapLog, StoreInv, Phases, PointersAgree, TypeOK, files, writer, child, history
  <1>2. \A r : InCurrentLog(r) => InLog(Other(logfd'), r)
    BY <1>1 DEF InCurrentLog
  <1>3. \A r : InCurrentLog(r) => InCurrentLog(r)'
    BY <1>1, <1>2 DEF InCurrentLog, InLog
  <1>4. Phases'
    BY <1>1 DEF StoreInv, Phases, PointersAgree
  <1>5. Secured'
    BY <1>1, <1>3
    DEF StoreInv, Secured, Running, Pending, Filed, InMap
  <1>6. InFlight'
    <2> SUFFICES ASSUME NEW v \in Writers, ~crossing[v]
                 PROVE  /\ Logged(v)' => InCurrentLog(Current(v))'
                        /\ wpc'[v] = "store" => wfind'[v] \in {NotFound, Dangling, active'}
      BY <1>1 DEF InFlight
    <2>1. Logged(v)' => InCurrentLog(Current(v))
      BY <1>1 DEF StoreInv, InFlight, Logged
    <2>2. Current(v)' = Current(v)
      BY <1>1 DEF Current
    <2> QED
      BY <1>1, <1>3, <2>1, <2>2 DEF StoreInv, InFlight
  <1>7. Progress'
    BY <1>1 DEF Progress
  <1> QED
    BY <1>4, <1>5, <1>6, <1>7 DEF StoreInv

(* The swap of the map turns the old current map into the retired one.     *)
LEMMA InvSwapMem ==
  ASSUME TypeOK, StoreInv, SwapMem
  PROVE  StoreInv'
  <1>1. /\ boot' = boot /\ boot # "down" /\ ppc = "swapMem" /\ ppc' = "join"
        /\ pfile' = pfile /\ pmem' = pmem /\ logfd' = logfd /\ active' = Other(pmem)
        /\ logfd = Other(pfile) /\ active = pmem /\ pfile = pmem
        /\ pmem \in Buffers /\ logfd \in Buffers
        /\ tempLog' = tempLog /\ mem' = mem /\ locus' = locus /\ around' = around
        /\ wpc' = wpc /\ wreq' = wreq /\ wfind' = wfind
        /\ stored' = stored /\ exempt' = exempt
        /\ cpc' = [c \in Children |-> "scan"] /\ visited' = [c \in Children |-> {}]
        /\ must' = {k \in Keys : mem[pmem][k] # <<>>}
    BY DEF SwapMem, NextMap, StoreInv, Phases, PointersAgree, TypeOK, files, history
  <1>2. Phases'
    BY <1>1 DEF StoreInv, Phases, PointersAgree
  <1>3. Secured'
    <2> SUFFICES ASSUME NEW r \in stored \ exempt, ~Filed(r)
                 PROVE  Pending(r)'
      BY <1>1 DEF Secured, Running, Filed
    <2>1. InMap(active, r) /\ InCurrentLog(r)
      BY <1>1 DEF StoreInv, Secured, Running, Pending
    <2>2. InLog(1, r) \/ InLog(2, r)
      BY <1>1, <2>1, BufferFacts DEF InCurrentLog, Buffers
    <2>3. (InLog(1, r) \/ InLog(2, r))' /\ InMap(pmem, r)'
      BY <1>1, <2>1, <2>2 DEF InLog, InMap
    <2> QED
      BY <1>1, <2>3 DEF Pending
  <1>4. InFlight'
    <2> SUFFICES ASSUME NEW v \in Writers, ~crossing'[v]
                 PROVE  ~Logged(v)'
      BY DEF InFlight, Logged
    <2>1. ~Logged(v)
      BY DEF SwapMem
    <2> QED
      BY <1>1, <2>1 DEF Logged
  <1>5. Progress'
    <2> SUFFICES ASSUME NEW r \in Records, InMap(pmem, r)
                 PROVE  KeyOf[r] \in must'
      BY <1>1 DEF Progress, InMap, Children
    <2>1. KeyOf[r] \in Keys /\ mem[pmem][KeyOf[r]] \in Seq(Records)
      BY <1>1, StoreAssumption DEF TypeOK
    <2>2. mem[pmem][KeyOf[r]] # <<>>
      BY <2>1, HeldFacts, Zenon DEF InMap
    <2> QED
      BY <1>1, <2>1, <2>2
  <1> QED
    BY <1>2, <1>3, <1>4, <1>5 DEF StoreInv

(* Truncation: the children have filed what the retired map held, and the  *)
(* rest is in the current map and the current log.                         *)
LEMMA InvJoinAndTruncate ==
  ASSUME TypeOK, StoreInv, JoinAndTruncate
  PROVE  StoreInv'
  <1>1. /\ boot' = boot /\ boot # "down" /\ ppc = "join" /\ ppc' = "wait"
        /\ pfile' = pfile /\ pmem' = pmem /\ logfd' = logfd /\ active' = active
        /\ logfd = active /\ pfile = pmem /\ active = Other(pmem)
        /\ pmem \in Buffers /\ logfd \in Buffers /\ logfd # pfile
        /\ mem' = mem /\ locus' = locus /\ around' = around
        /\ wpc' = wpc /\ wreq' = wreq /\ wfind' = wfind /\ crossing' = crossing
        /\ stored' = stored /\ exempt' = exempt
        /\ cpc' = cpc /\ visited' = visited /\ must' = must
        /\ \A c \in Children : cpc[c] = "idle"
    BY BufferFacts
    DEF JoinAndTruncate, ChildrenJoined, StoreInv, Phases, PointersAgree, TypeOK,
        shared, writer, child, history
  <1>2. tempLog'[logfd] = tempLog[logfd]
    BY <1>1 DEF JoinAndTruncate, TypeOK
  <1>3. Phases'
    BY <1>1 DEF StoreInv, Phases, PointersAgree
  <1>4. Secured'
    <2> SUFFICES ASSUME NEW r \in stored \ exempt, ~Filed(r)
                 PROVE  Pending(r)'
      BY <1>1 DEF Secured, Running, Filed
    <2>1. r \in Records \ exempt
      BY DEF TypeOK
    <2>2. ~InMap(pmem, r)
      BY <1>1, <2>1 DEF StoreInv, Progress, Filed, Children
    <2>3. InMap(active, r) /\ InLog(logfd, r)
      BY <1>1, <2>2 DEF StoreInv, Secured, Running, Pending, InCurrentLog
    <2> QED
      BY <1>1, <1>2, <2>3 DEF Pending, InCurrentLog, InLog, InMap
  <1>5. InFlight'
    <2> SUFFICES ASSUME NEW v \in Writers, ~crossing[v]
                 PROVE  /\ Logged(v)' => InCurrentLog(Current(v))'
                        /\ wpc'[v] = "store" => wfind'[v] \in {NotFound, Dangling, active'}
      BY <1>1 DEF InFlight
    <2>1. Logged(v)' => InLog(logfd, Current(v))
      BY <1>1 DEF StoreInv, InFlight, Logged, InCurrentLog
    <2>2. Current(v)' = Current(v)
      BY <1>1 DEF Current
    <2> QED
      BY <1>1, <1>2, <2>1, <2>2 DEF StoreInv, InFlight, InCurrentLog, InLog
  <1>6. Progress'
    BY <1>1 DEF Progress
  <1> QED
    BY <1>3, <1>4, <1>5, <1>6 DEF StoreInv

-----------------------------------------------------------------------------
(* The children.  A visit files every record of a vector in one file.      *)
LEMMA AddFacts ==
  ASSUME NEW count \in [Records -> Nat], NEW v, NEW r \in Records
  PROVE  /\ r \in Held(v) => Add(count, v)[r] > 0
         /\ count[r] > 0 => Add(count, v)[r] > 0
  <1> DEFINE n == count[r]
  <1>1. n \in Nat
    OBVIOUS
  <1>2. Add(count, v)[r] = IF r \in Held(v) THEN n + 1 ELSE n
    BY DEF Add
  <1> HIDE DEF n
  <1>3. (IF r \in Held(v) THEN n + 1 ELSE n) > 0 <=> r \in Held(v) \/ n > 0
    BY <1>1
  <1> QED
    BY <1>2, <1>3 DEF n

(* What every step of a child leaves alone, and what it may only increase. *)
LEMMA ChildFrame ==
  ASSUME TypeOK, StoreInv,
         ppc = "join",
         boot' = boot, tempLog' = tempLog, mem' = mem,
         logfd' = logfd, active' = active, must' = must,
         ppc' = ppc, pfile' = pfile, pmem' = pmem,
         wpc' = wpc, wreq' = wreq, wfind' = wfind, crossing' = crossing,
         stored' = stored, exempt \subseteq exempt',
         \A r \in Records : Filed(r) => Filed(r)'
  PROVE  Phases' /\ Secured' /\ InFlight'
  <1>1. Phases'
    BY DEF StoreInv, Phases, PointersAgree
  <1>2. Secured'
    <2> SUFFICES ASSUME NEW r \in stored', r \notin exempt', ~Filed(r)', Running
                 PROVE  Pending(r)'
      <3>1. boot # "down"
        BY DEF StoreInv, Phases
      <3> QED
        BY <3>1 DEF Secured, Running
    <2>1. r \in stored \ exempt /\ r \in Records
      BY DEF TypeOK
    <2>2. Pending(r)
      BY <2>1 DEF StoreInv, Secured
    <2> QED
      BY <2>2 DEF Pending, InCurrentLog, InLog, InMap
  <1>3. InFlight'
    BY DEF StoreInv, InFlight, Logged, InCurrentLog, InLog, Current
  <1> QED
    BY <1>1, <1>2, <1>3

LEMMA InvLocusVisit ==
  ASSUME TypeOK, StoreInv, NEW k \in Keys, MemToLocusFile(k)
  PROVE  StoreInv'
  <1>1. /\ boot' = boot /\ tempLog' = tempLog /\ mem' = mem
        /\ logfd' = logfd /\ active' = active /\ must' = must /\ cpc' = cpc
        /\ ppc' = ppc /\ pfile' = pfile /\ pmem' = pmem
        /\ wpc' = wpc /\ wreq' = wreq /\ wfind' = wfind /\ crossing' = crossing
        /\ stored' = stored /\ exempt' = exempt /\ around' = around
        /\ locus' = Add(locus, mem[pmem][k]) /\ locus \in [Records -> Nat]
        /\ visited' = [visited EXCEPT !["locus"] = @ \cup {k}]
        /\ visited \in [Children -> SUBSET Keys]
        /\ cpc["locus"] = "scan" /\ "locus" \in Children /\ "around" \in Children
    BY DEF MemToLocusFile, Visit, TypeOK, writer, persist, history, Children
  <1>2. ppc = "join"
    BY <1>1 DEF StoreInv, Phases
  <1>3. \A r \in Records : /\ locus[r] > 0 => locus'[r] > 0
                           /\ r \in Held(mem[pmem][k]) => locus'[r] > 0
    BY <1>1, AddFacts
  <1>4. \A r \in Records : Filed(r) => Filed(r)'
    BY <1>1, <1>3 DEF Filed
  <1>5. Phases' /\ Secured' /\ InFlight'
    BY <1>1, <1>2, <1>4, ChildFrame
  <1>6. Progress'
    <2> SUFFICES ASSUME NEW r \in Records \ exempt, InMap(pmem, r)
                 PROVE  /\ KeyOf[r] \in must
                        /\ (KeyOf[r] \in visited'["locus"] \/ cpc["locus"] = "idle")
                             => locus'[r] > 0
                        /\ (KeyOf[r] \in visited'["around"] \/ cpc["around"] = "idle")
                             => around[r] > 0
      BY <1>1 DEF Progress, InMap
    <2>1. /\ KeyOf[r] \in must
          /\ (KeyOf[r] \in visited["locus"] \/ cpc["locus"] = "idle") => locus[r] > 0
          /\ (KeyOf[r] \in visited["around"] \/ cpc["around"] = "idle") => around[r] > 0
      BY <1>2 DEF StoreInv, Progress
    <2>2. KeyOf[r] = k => r \in Held(mem[pmem][k])
      BY DEF InMap
    <2>3. visited'["locus"] = visited["locus"] \cup {k} /\ visited'["around"] = visited["around"]
      BY <1>1
    <2> QED
      BY <1>3, <2>1, <2>2, <2>3
  <1> QED
    BY <1>5, <1>6 DEF StoreInv

LEMMA InvAroundVisit ==
  ASSUME TypeOK, StoreInv, NEW k \in Keys, MemToAroundFile(k)
  PROVE  StoreInv'
  <1>1. /\ boot' = boot /\ tempLog' = tempLog /\ mem' = mem
        /\ logfd' = logfd /\ active' = active /\ must' = must /\ cpc' = cpc
        /\ ppc' = ppc /\ pfile' = pfile /\ pmem' = pmem
        /\ wpc' = wpc /\ wreq' = wreq /\ wfind' = wfind /\ crossing' = crossing
        /\ stored' = stored /\ exempt' = exempt /\ locus' = locus
        /\ around' = Add(around, mem[pmem][k]) /\ around \in [Records -> Nat]
        /\ visited' = [visited EXCEPT !["around"] = @ \cup {k}]
        /\ visited \in [Children -> SUBSET Keys]
        /\ cpc["around"] = "scan" /\ "locus" \in Children /\ "around" \in Children
    BY DEF MemToAroundFile, Visit, TypeOK, writer, persist, history, Children
  <1>2. ppc = "join"
    BY <1>1 DEF StoreInv, Phases
  <1>3. \A r \in Records : /\ around[r] > 0 => around'[r] > 0
                           /\ r \in Held(mem[pmem][k]) => around'[r] > 0
    BY <1>1, AddFacts
  <1>4. \A r \in Records : Filed(r) => Filed(r)'
    BY <1>1, <1>3 DEF Filed
  <1>5. Phases' /\ Secured' /\ InFlight'
    BY <1>1, <1>2, <1>4, ChildFrame
  <1>6. Progress'
    <2> SUFFICES ASSUME NEW r \in Records \ exempt, InMap(pmem, r)
                 PROVE  /\ KeyOf[r] \in must
                        /\ (KeyOf[r] \in visited'["locus"] \/ cpc["locus"] = "idle")
                             => locus[r] > 0
                        /\ (KeyOf[r] \in visited'["around"] \/ cpc["around"] = "idle")
                             => around'[r] > 0
      BY <1>1 DEF Progress, InMap
    <2>1. /\ KeyOf[r] \in must
          /\ (KeyOf[r] \in visited["locus"] \/ cpc["locus"] = "idle") => locus[r] > 0
          /\ (KeyOf[r] \in visited["around"] \/ cpc["around"] = "idle") => around[r] > 0
      BY <1>2 DEF StoreInv, Progress
    <2>2. KeyOf[r] = k => r \in Held(mem[pmem][k])
      BY DEF InMap
    <2>3. visited'["around"] = visited["around"] \cup {k} /\ visited'["locus"] = visited["locus"]
      BY <1>1
    <2> QED
      BY <1>3, <2>1, <2>2, <2>3
  <1> QED
    BY <1>5, <1>6 DEF StoreInv

(* The last child files nothing and only its own control changes. *)
LEMMA InvLast ==
  ASSUME TypeOK, StoreInv, LastStep
  PROVE  StoreInv'
  <1>1. /\ boot' = boot /\ tempLog' = tempLog /\ mem' = mem
        /\ logfd' = logfd /\ active' = active /\ must' = must
        /\ ppc' = ppc /\ pfile' = pfile /\ pmem' = pmem
        /\ wpc' = wpc /\ wreq' = wreq /\ wfind' = wfind /\ crossing' = crossing
        /\ stored' = stored /\ exempt' = exempt /\ locus' = locus /\ around' = around
        /\ cpc["last"] # "idle" /\ "last" \in Children
    BY DEF LastStep, MemToLast, Visit, Scanned, OpenLastFiles, WriteEachFile, WriteLastFile,
       shared, writer, persist, history, Children
  <1>2. /\ cpc'["locus"] = cpc["locus"] /\ cpc'["around"] = cpc["around"]
        /\ visited'["locus"] = visited["locus"] /\ visited'["around"] = visited["around"]
    BY DEF LastStep, MemToLast, Visit, OpenLastFiles, WriteEachFile, WriteLastFile,
       TypeOK, Children
  <1>3. ppc = "join"
    BY <1>1 DEF StoreInv, Phases
  <1>4. \A r \in Records : Filed(r) => Filed(r)'
    BY <1>1 DEF Filed
  <1>5. Phases' /\ Secured' /\ InFlight'
    BY <1>1, <1>3, <1>4, ChildFrame
  <1>6. Progress'
    BY <1>1, <1>2 DEF StoreInv, Progress, InMap
  <1> QED
    BY <1>5, <1>6 DEF StoreInv

(* A child finishes when it has visited every key it had to.               *)
LEMMA InvFinishScan ==
  ASSUME TypeOK, StoreInv, NEW c \in {"locus", "around"}, FinishScan(c)
  PROVE  StoreInv'
  <1>1. /\ boot' = boot /\ tempLog' = tempLog /\ mem' = mem
        /\ logfd' = logfd /\ active' = active /\ must' = must /\ visited' = visited
        /\ ppc' = ppc /\ pfile' = pfile /\ pmem' = pmem
        /\ wpc' = wpc /\ wreq' = wreq /\ wfind' = wfind /\ crossing' = crossing
        /\ stored' = stored /\ exempt' = exempt /\ locus' = locus /\ around' = around
        /\ cpc[c] = "scan" /\ c \in Children /\ must \subseteq visited[c]
        /\ \A d \in {"locus", "around"} : d # c => cpc'[d] = cpc[d]
    BY DEF FinishScan, Scanned, TypeOK, files, shared, writer, persist, history, Children
  <1>2. ppc = "join"
    BY <1>1 DEF StoreInv, Phases
  <1>3. \A r \in Records : Filed(r) => Filed(r)'
    BY <1>1 DEF Filed
  <1>4. Phases' /\ Secured' /\ InFlight'
    BY <1>1, <1>2, <1>3, ChildFrame
  <1>5. Progress'
    <2> SUFFICES ASSUME NEW r \in Records \ exempt, InMap(pmem, r)
                 PROVE  /\ KeyOf[r] \in must
                        /\ (KeyOf[r] \in visited["locus"] \/ cpc'["locus"] = "idle")
                             => locus[r] > 0
                        /\ (KeyOf[r] \in visited["around"] \/ cpc'["around"] = "idle")
                             => around[r] > 0
      BY <1>1 DEF Progress, InMap
    <2>1. /\ KeyOf[r] \in must
          /\ (KeyOf[r] \in visited["locus"] \/ cpc["locus"] = "idle") => locus[r] > 0
          /\ (KeyOf[r] \in visited["around"] \/ cpc["around"] = "idle") => around[r] > 0
      BY <1>2 DEF StoreInv, Progress
    <2> QED
      BY <1>1, <2>1
  <1> QED
    BY <1>4, <1>5 DEF StoreInv

(* A child that fails exempts what it leaves unfiled.                      *)
LEMMA InvFails ==
  ASSUME TypeOK, StoreInv, NEW c \in Children, ChildFails(c)
  PROVE  StoreInv'
  <1>1. /\ boot' = boot /\ tempLog' = tempLog /\ mem' = mem
        /\ logfd' = logfd /\ active' = active /\ must' = must /\ visited' = visited
        /\ ppc' = ppc /\ pfile' = pfile /\ pmem' = pmem
        /\ wpc' = wpc /\ wreq' = wreq /\ wfind' = wfind /\ crossing' = crossing
        /\ stored' = stored /\ exempt \subseteq exempt' /\ locus' = locus
        /\ around' = around /\ cpc[c] = "scan"
        /\ \A d \in Children : d # c => cpc'[d] = cpc[d]
        /\ c \in {"locus", "around"} => exempt' = exempt \cup Unvisited(c)
    BY DEF ChildFails, TypeOK, shared, writer, persist
  <1>2. ppc = "join"
    BY <1>1 DEF StoreInv, Phases
  <1>3. \A r \in Records : Filed(r) => Filed(r)'
    BY <1>1 DEF Filed
  <1>4. Phases' /\ Secured' /\ InFlight'
    BY <1>1, <1>2, <1>3, ChildFrame
  <1>5. Progress'
    <2> SUFFICES ASSUME NEW r \in Records \ exempt', InMap(pmem, r)
                 PROVE  /\ KeyOf[r] \in must
                        /\ (KeyOf[r] \in visited["locus"] \/ cpc'["locus"] = "idle")
                             => locus[r] > 0
                        /\ (KeyOf[r] \in visited["around"] \/ cpc'["around"] = "idle")
                             => around[r] > 0
      BY <1>1 DEF Progress, InMap
    <2>1. /\ KeyOf[r] \in must
          /\ (KeyOf[r] \in visited["locus"] \/ cpc["locus"] = "idle") => locus[r] > 0
          /\ (KeyOf[r] \in visited["around"] \/ cpc["around"] = "idle") => around[r] > 0
      BY <1>1, <1>2 DEF StoreInv, Progress
    <2>2. c \in {"locus", "around"} => KeyOf[r] \in visited[c]
      BY <1>1 DEF Unvisited
    <2> QED
      BY <1>1, <2>1, <2>2 DEF Children
  <1> QED
    BY <1>4, <1>5 DEF StoreInv

LEMMA InvStutter ==
  ASSUME StoreInv, UNCHANGED vars
  PROVE  StoreInv'
  BY DEF StoreInv, Phases, PointersAgree, Secured, InFlight, Progress, Pending,
     InCurrentLog, InLog, InMap, Filed, Running, Logged, Current,
     vars, files, shared, writer, persist, child, history

THEOREM InvNext == TypeOK /\ StoreInv /\ [Next]_vars => StoreInv'
  <1> SUFFICES ASSUME TypeOK, StoreInv, [Next]_vars PROVE StoreInv'
    OBVIOUS
  <1>1. CASE UNCHANGED vars
    BY <1>1, InvStutter
  <1>2. CASE LoadFiles \/ InitStatistic \/ Crash
    BY <1>2, InvLoad, InvStatistic, InvCrash
  <1>3. ASSUME NEW w \in Writers, WriterStep(w) PROVE StoreInv'
    BY <1>3, InvReceive, InvWriteLog, InvRegister, InvFindVector, InvStoreRecord
    DEF WriterStep
  <1>4. CASE Core
    BY <1>4, InvStartPass, InvSwapLog, InvSwapMem, InvJoinAndTruncate DEF Core
  <1>5. CASE LocusStep
    BY <1>5, InvLocusVisit, InvFinishScan DEF LocusStep
  <1>6. CASE AroundStep
    BY <1>6, InvAroundVisit, InvFinishScan DEF AroundStep
  <1>7. CASE LastStep
    BY <1>7, InvLast
  <1>8. ASSUME NEW c \in Children, ChildFails(c) PROVE StoreInv'
    BY <1>8, InvFails
  <1> QED
    BY <1>1, <1>2, <1>3, <1>4, <1>5, <1>6, <1>7, <1>8 DEF Next

(* The inductive invariant holds in every reachable state: the phases of   *)
(* the pass, what each writer may rely on, and where every record is.      *)
THEOREM InvCorrect == Spec => [](TypeOK /\ StoreInv)
  <1>1. Init => TypeOK /\ StoreInv
    BY TypeInit, InvInit
  <1>2. (TypeOK /\ StoreInv) /\ [Next]_vars => (TypeOK /\ StoreInv)'
    BY TypeNext, InvNext
  <1> QED
    BY <1>1, <1>2, PTL DEF Spec

(* The current log and the current map are always of the same pair, except *)
(* between the two assignments of the swap.                                *)
THEOREM PointersAgreeCorrect == Spec => []PointersAgree
  <1>1. StoreInv => PointersAgree
    BY DEF StoreInv, Phases
  <1> QED
    BY <1>1, InvCorrect, PTL

(* No record whose write returned is lost, other than to the named races:  *)
(* it is in both history files or still in a log, whatever interleaves,    *)
(* and however often the process is killed or a child fails.               *)
THEOREM Durability == Spec => []Durable
  <1>1. TypeOK /\ StoreInv => Durable
    <2> SUFFICES ASSUME TypeOK, StoreInv, NEW r \in stored \ exempt, ~Filed(r)
                 PROVE  InLog(1, r) \/ InLog(2, r)
      BY DEF Durable
    <2>1. Pending(r) \/ InLog(1, r) \/ InLog(2, r)
      BY DEF StoreInv, Secured
    <2>2. logfd \in {1, 2} /\ Other(logfd) \in {1, 2}
      BY BufferFacts DEF TypeOK, Buffers
    <2> QED
      BY <2>1, <2>2 DEF Pending, InCurrentLog
  <1> QED
    BY <1>1, InvCorrect, PTL

(* While the process runs, such a record is also in a map: a pass that has *)
(* not yet filed it still will, before its log is truncated.               *)
THEOREM Reachability == Spec => []Reachable
  <1>1. TypeOK /\ StoreInv => Reachable
    <2> SUFFICES ASSUME TypeOK, StoreInv, Running, NEW r \in stored \ exempt, ~Filed(r)
                 PROVE  InMap(1, r) \/ InMap(2, r)
      BY DEF Reachable
    <2>1. Pending(r)
      BY DEF StoreInv, Secured
    <2>2. active \in {1, 2} /\ pmem \in {1, 2}
      BY DEF TypeOK, Buffers
    <2> QED
      BY <2>1, <2>2 DEF Pending
  <1> QED
    BY <1>1, InvCorrect, PTL

-----------------------------------------------------------------------------
(* What is filed, counted and seen.                                        *)

(* The files of last positions and counts, once more with the one step in  *)
(* which only one of them is written.                                      *)
LastInv ==
  /\ LastFilesCurrent
  /\ cpc["last"] = "writeLast" => eachFile = statisticdata

LEMMA LastInvNext ==
  ASSUME TypeOK, StoreInv, LastInv, [Next]_vars
  PROVE  LastInv'
  <1> USE DEF LastInv, LastFilesCurrent
  <1>0. /\ "locus" \in Children /\ "around" \in Children /\ "last" \in Children
        /\ cpc \in [Children -> {"idle", "scan", "writeEach", "writeLast"}]
    BY DEF Children, TypeOK
  <1>1. CASE LoadFiles
    <2>1. cpc["last"] = "idle" /\ cpc' = cpc
      BY <1>0, <1>1 DEF LoadFiles, StoreInv, Phases, child
    <2> QED
      BY <1>1, <2>1 DEF LoadFiles, LastDataToMem, StatisticDataToMem, files
  <1>2. CASE InitStatistic
    BY <1>2 DEF InitStatistic, files, child, history
  <1>3. CASE Crash
    BY <1>0, <1>3 DEF Crash
  <1>4. ASSUME NEW w \in Writers, WriterStep(w) PROVE LastInv'
    <2>1. /\ lastFile' = lastFile /\ eachFile' = eachFile /\ lastdata' = lastdata
          /\ statisticdata' = statisticdata /\ cpc' = cpc /\ fails' = fails
      BY <1>4 DEF WriterStep, Receive, WriteLog, Register, FindVector, StoreRecord,
         files, shared, child, history
    <2>2. boot' = boot
      BY <1>4 DEF WriterStep, Receive, WriteLog, Register, FindVector, StoreRecord
    <2> QED
      BY <2>1, <2>2
  <1>5. CASE Core
    <2>1. /\ lastFile' = lastFile /\ eachFile' = eachFile /\ lastdata' = lastdata
          /\ statisticdata' = statisticdata /\ fails' = fails /\ boot' = boot
      BY <1>5 DEF Core, StartPass, BeginPass, SwapLog, SwapMem, JoinAndTruncate,
         files, shared, history
    <2>2. cpc' = cpc \/ cpc'["last"] = "scan"
      BY <1>0, <1>5 DEF Core, StartPass, BeginPass, SwapLog, SwapMem, JoinAndTruncate, child
    <2> QED
      BY <2>1, <2>2
  <1>6. CASE LocusStep \/ AroundStep
    <2>1. /\ lastFile' = lastFile /\ eachFile' = eachFile /\ lastdata' = lastdata
          /\ statisticdata' = statisticdata /\ fails' = fails /\ boot' = boot
          /\ cpc'["last"] = cpc["last"]
      BY <1>0, <1>6 DEF LocusStep, AroundStep, FinishScan, MemToLocusFile, MemToAroundFile,
         Visit, files, shared, history
    <2> QED
      BY <2>1
  <1>7. CASE LastStep
    <2>1. ASSUME NEW k \in Keys, MemToLast(k) PROVE LastInv'
      BY <1>0, <2>1 DEF MemToLast, Visit
    <2>2. CASE OpenLastFiles
      BY <1>0, <2>2 DEF OpenLastFiles, Scanned
    <2>3. CASE WriteEachFile
      BY <1>0, <2>3 DEF WriteEachFile, shared, history
    <2>4. CASE WriteLastFile
      BY <1>0, <2>4 DEF WriteLastFile, shared, history
    <2> QED
      BY <1>7, <2>1, <2>2, <2>3, <2>4 DEF LastStep
  <1>8. ASSUME NEW c \in Children, ChildFails(c) PROVE LastInv'
    <2>1. fails' # 0
      BY <1>8 DEF ChildFails, TypeOK
    <2>2. cpc'["last"] # "writeLast" \/ (c # "last" /\ cpc'["last"] = cpc["last"])
      BY <1>0, <1>8 DEF ChildFails
    <2>3. c # "last" => eachFile' = eachFile /\ statisticdata' = statisticdata
      BY <1>8 DEF ChildFails, shared
    <2> QED
      BY <2>1, <2>2, <2>3
  <1>9. CASE UNCHANGED vars
    BY <1>9 DEF vars, files, shared, child, history
  <1> QED
    BY <1>1, <1>2, <1>3, <1>4, <1>5, <1>6, <1>7, <1>8, <1>9 DEF Next

(* While the process runs, its last positions and counts are in their      *)
(* files, except from the start of the scan of MemToLastFile to its last   *)
(* write, and after a child that failed.                                   *)
THEOREM LastFilesAgree == Spec => []LastFilesCurrent
  <1>1. Init => LastInv
    BY DEF Init, LastInv, LastFilesCurrent, Children
  <1>2. LastInv /\ (TypeOK /\ StoreInv) /\ [Next]_vars => LastInv'
    BY LastInvNext
  <1>3. LastInv => LastFilesCurrent
    BY DEF LastInv
  <1> QED
    BY <1>1, <1>2, <1>3, InvCorrect, PTL DEF Spec
-----------------------------------------------------------------------------
(* A record moves from a request to the hands of a writer, to the current  *)
(* map, with that map to the retired one, and out of it: until each child  *)
(* has visited it, it has been filed once for each kill at most.           *)
Unsent(r)    == \E q \in todo : r \in Held(q)
InHand(w, r) == r \in Held(wreq[w])
Retired(r)   == ppc = "join" /\ InMap(pmem, r)
OnDisk(r)    == InLog(1, r) \/ InLog(2, r)

Placed ==
  \A b \in Buffers, k \in Keys :
    \A r \in Held(mem[b][k]) \cup Held(tempLog[b][k]) : KeyOf[r] = k

IdleMapEmpty ==
  ppc \in {"swapLog", "swapMem"} =>
    mem[Other(active)] = Empty /\ \A w \in Writers : wfind[w] # Other(active)

InHandOnce ==
  \A w \in Writers : NoRepeat(wreq[w]) /\ (wpc[w] = "idle" => wreq[w] = <<>>)

OnePlace ==
  \A r \in Records :
    /\ Unsent(r) => /\ \A w \in Writers : ~InHand(w, r)
                    /\ ~OnDisk(r)
    /\ Unsent(r) \/ (\E w \in Writers : InHand(w, r)) =>
         ~InMap(active, r) /\ ~Retired(r) /\ r \notin stored
    /\ \A v, w \in Writers : InHand(v, r) /\ InHand(w, r) => v = w
    /\ InMap(active, r) => ~Retired(r)

ToCome(r, c) ==
  \/ Unsent(r) \/ \E w \in Writers : InHand(w, r)
  \/ InMap(active, r)
  \/ Retired(r) /\ KeyOf[r] \notin visited[c]
  \/ boot = "down" /\ OnDisk(r)

FiledOnce(count, c) ==
  \A r \in Records : /\ count[r] <= 1 + crashes
                     /\ ToCome(r, c) => count[r] <= crashes

OnceInv ==
  /\ Placed /\ IdleMapEmpty /\ InHandOnce /\ OnePlace
  /\ FiledOnce(locus, "locus") /\ FiledOnce(around, "around")

LEMMA HeldEmpty == Held(<<>>) = {}
  BY DEF Held

LEMMA HeadOnce ==
  ASSUME NEW S, NEW s \in Seq(S), s # <<>>
  PROVE  /\ Head(s) \in Held(s)
         /\ Held(Tail(s)) \subseteq Held(s)
         /\ NoRepeat(s) => Head(s) \notin Held(Tail(s)) /\ NoRepeat(Tail(s))
  <1> DEFINE n == Len(s)
  <1>1. /\ n \in Nat /\ DOMAIN s = 1 .. n /\ Head(s) = s[1]
        /\ DOMAIN Tail(s) = 1 .. n - 1
        /\ \A i \in 1 .. n - 1 : Tail(s)[i] = s[i + 1]
    <2>1. Tail(s) \in Seq(S) /\ Len(Tail(s)) = n - 1 /\ n \in Nat /\ n # 0
      BY EmptySeq
    <2> QED
      BY <2>1, HeadTailProperties
  <1>2. n # 0
    BY <1>1, EmptySeq
  <1> HIDE DEF n
  <1>3. 1 \in DOMAIN s
    BY <1>1, <1>2
  <1>4. \A i \in DOMAIN Tail(s) : i + 1 \in DOMAIN s /\ i + 1 # 1 /\ Tail(s)[i] = s[i + 1] /\ i \in Nat
    BY <1>1
  <1>5. Held(Tail(s)) \subseteq Held(s)
    BY <1>4 DEF Held
  <1>6. ASSUME NoRepeat(s) PROVE Head(s) \notin Held(Tail(s))
    BY <1>1, <1>3, <1>4, <1>6 DEF Held, NoRepeat
  <1>7. ASSUME NoRepeat(s) PROVE NoRepeat(Tail(s))
    <2> SUFFICES ASSUME NEW i \in DOMAIN Tail(s), NEW j \in DOMAIN Tail(s),
                        Tail(s)[i] = Tail(s)[j]
                 PROVE  i = j
      BY DEF NoRepeat
    <2>1. i + 1 = j + 1
      BY <1>4, <1>7 DEF NoRepeat
    <2> QED
      BY <1>4, <2>1
  <1> QED
    BY <1>1, <1>3, <1>5, <1>6, <1>7 DEF Held

(* A step that moves no record. *)
LEMMA OnceFrame ==
  ASSUME TypeOK, OnceInv,
         mem' = mem, tempLog' = tempLog, active' = active, pmem' = pmem,
         wreq' = wreq, todo' = todo, stored' = stored,
         locus' = locus, around' = around, crashes' = crashes,
         boot' = boot \/ boot' # "down",
         ppc' = ppc \/ ppc' = "swapMem",
         visited'["locus"] = visited["locus"], visited'["around"] = visited["around"],
         \A w \in Writers : wpc'[w] = "idle" => wpc[w] = "idle",
         IdleMapEmpty'
  PROVE  OnceInv'
  <1>1. Placed' /\ InHandOnce'
    BY DEF OnceInv, Placed, InHandOnce
  <1>2. \A r \in Records :
          /\ Unsent(r)' <=> Unsent(r)
          /\ \A w \in Writers : InHand(w, r)' <=> InHand(w, r)
          /\ OnDisk(r)' <=> OnDisk(r)
          /\ Retired(r)' => Retired(r)
          /\ InMap(active, r)' <=> InMap(active, r)
    BY DEF Unsent, InHand, OnDisk, Retired, InMap, InLog
  <1>3. OnePlace'
    BY <1>2 DEF OnceInv, OnePlace
  <1>4. \A r \in Records : /\ ToCome(r, "locus")' => ToCome(r, "locus")
                           /\ ToCome(r, "around")' => ToCome(r, "around")
    BY <1>2 DEF ToCome
  <1>5. FiledOnce(locus, "locus")' /\ FiledOnce(around, "around")'
    BY <1>4 DEF OnceInv, FiledOnce
  <1> QED
    BY <1>1, <1>3, <1>5 DEF OnceInv

LEMMA OnceLoad ==
  ASSUME TypeOK, StoreInv, OnceInv, LoadFiles
  PROVE  OnceInv'
  <1>1. /\ boot = "down" /\ boot' = "loaded" /\ ppc = "wait" /\ ppc' = "wait"
        /\ \A w \in Writers : wpc[w] = "idle" /\ wreq[w] = <<>>
        /\ wpc' = wpc /\ wreq' = wreq /\ todo' = todo /\ visited' = visited
        /\ tempLog' = tempLog /\ mem' = tempLog /\ locus' = locus /\ around' = around
        /\ stored' = stored /\ crashes' = crashes /\ active' \in {1, 2}
    BY DEF LoadFiles, RecoveredMaps, RecoveredBuffer, StoreInv, Phases, OnceInv, InHandOnce,
       files, writer, persist, child
  <1>2. \A r \in Records :
          /\ Unsent(r)' <=> Unsent(r)
          /\ \A w \in Writers : InHand(w, r)' <=> InHand(w, r)
          /\ \A w \in Writers : ~InHand(w, r)
          /\ OnDisk(r)' <=> OnDisk(r)
          /\ ~Retired(r)'
          /\ InMap(active, r)' => OnDisk(r)
    BY <1>1, HeldEmpty DEF Unsent, InHand, OnDisk, Retired, InMap, InLog
  <1>3. Placed'
    <2>1. mem' = tempLog /\ tempLog' = tempLog
      BY <1>1
    <2> QED
      BY <2>1 DEF OnceInv, Placed
  <1>8. IdleMapEmpty' /\ InHandOnce'
    BY <1>1 DEF OnceInv, IdleMapEmpty, InHandOnce
  <1>4. \A r \in Records : Unsent(r) => ~OnDisk(r) /\ r \notin stored
    BY DEF OnceInv, OnePlace
  <1>5. OnePlace'
    BY <1>1, <1>2, <1>4 DEF OnePlace
  <1>6. \A r \in Records : /\ ToCome(r, "locus")' => ToCome(r, "locus")
                           /\ ToCome(r, "around")' => ToCome(r, "around")
    BY <1>1, <1>2 DEF ToCome
  <1>7. FiledOnce(locus, "locus")' /\ FiledOnce(around, "around")'
    BY <1>1, <1>6 DEF OnceInv, FiledOnce
  <1> QED
    BY <1>3, <1>5, <1>7, <1>8 DEF OnceInv

LEMMA OnceCrash ==
  ASSUME TypeOK, OnceInv, Crash
  PROVE  OnceInv'
  <1>1. /\ ppc' = "wait" /\ mem' = [b \in Buffers |-> Empty]
        /\ wreq' = [w \in Writers |-> <<>>] /\ active' = 1
        /\ todo' = todo /\ tempLog' = tempLog /\ stored' = stored
        /\ locus' = locus /\ around' = around /\ crashes' = crashes + 1
        /\ crashes \in Nat
    BY StoreAssumption DEF Crash, files, TypeOK
  <1>2. Held(<<>>) = {}
    BY HeldEmpty
  <1>3. \A r \in Records : /\ \A w \in Writers : ~InHand(w, r)'
                           /\ ~InMap(active, r)' /\ ~Retired(r)'
                           /\ Unsent(r)' <=> Unsent(r)
                           /\ OnDisk(r)' <=> OnDisk(r)
    BY <1>1, <1>2, StoreAssumption
    DEF InHand, InMap, Retired, Unsent, OnDisk, InLog, Empty, Buffers
  <1>4. Placed'
    BY <1>1, <1>2 DEF OnceInv, Placed, Empty
  <1>5. IdleMapEmpty' /\ InHandOnce'
    BY <1>1, EmptySeq DEF IdleMapEmpty, InHandOnce, NoRepeat
  <1>6. OnePlace'
    BY <1>1, <1>3 DEF OnceInv, OnePlace
  <1>7. FiledOnce(locus, "locus")' /\ FiledOnce(around, "around")'
    <2>1. \A r \in Records : /\ locus[r] \in Nat /\ locus[r] <= 1 + crashes
                             /\ around[r] \in Nat /\ around[r] <= 1 + crashes
      BY DEF OnceInv, FiledOnce, TypeOK
    <2> QED
      BY <1>1, <2>1 DEF FiledOnce
  <1> QED
    BY <1>4, <1>5, <1>6, <1>7 DEF OnceInv

LEMMA OnceReceive ==
  ASSUME TypeOK, StoreInv, OnceInv, NEW w \in Writers, Receive(w)
  PROVE  OnceInv'
  <1>1. PICK q \in todo : todo' = todo \ {q} /\ wreq' = [wreq EXCEPT ![w] = q]
    BY DEF Receive
  <1>2. /\ mem' = mem /\ tempLog' = tempLog /\ active' = active /\ pmem' = pmem
        /\ stored' = stored /\ locus' = locus /\ around' = around /\ crashes' = crashes
        /\ boot' = boot /\ ppc' = ppc /\ visited' = visited /\ wfind' = wfind
        /\ wreq \in [Writers -> Seq(Records)] /\ todo \subseteq Requests
        /\ wpc'[w] # "idle" /\ \A v \in Writers : v # w => wpc'[v] = wpc[v]
    BY DEF Receive, FirstStep, TypeOK, files, shared, persist, child, history
  <1>3. Placed' /\ IdleMapEmpty'
    BY <1>2 DEF OnceInv, Placed, IdleMapEmpty
  <1>4. InHandOnce'
    BY <1>1, <1>2, SentOnce DEF OnceInv, InHandOnce
  <1>5. \A r \in Records :
          /\ Unsent(r)' => Unsent(r) /\ r \notin Held(q)
          /\ InHand(w, r)' => Unsent(r) /\ r \in Held(q)
          /\ \A v \in Writers : v # w => (InHand(v, r)' <=> InHand(v, r))
          /\ OnDisk(r)' <=> OnDisk(r)
          /\ Retired(r)' <=> Retired(r)
          /\ InMap(active, r)' <=> InMap(active, r)
    BY <1>1, <1>2, SentOnce DEF Unsent, InHand, OnDisk, Retired, InMap, InLog
  <1>6. OnePlace'
    BY <1>2, <1>5 DEF OnceInv, OnePlace
  <1>7. \A r \in Records : /\ ToCome(r, "locus")' => ToCome(r, "locus")
                           /\ ToCome(r, "around")' => ToCome(r, "around")
    BY <1>2, <1>5 DEF ToCome
  <1>8. FiledOnce(locus, "locus")' /\ FiledOnce(around, "around")'
    BY <1>2, <1>7 DEF OnceInv, FiledOnce
  <1> QED
    BY <1>3, <1>4, <1>6, <1>8 DEF OnceInv

LEMMA OnceWriteLog ==
  ASSUME TypeOK, StoreInv, OnceInv, NEW w \in Writers, WriteLog(w)
  PROVE  OnceInv'
  <1> DEFINE x == Current(w)
             k == CurrentKey(w)
  <1>1. /\ mem' = mem /\ active' = active /\ pmem' = pmem /\ wreq' = wreq /\ todo' = todo
        /\ stored' = stored /\ locus' = locus /\ around' = around /\ crashes' = crashes
        /\ boot' = boot /\ boot = "up" /\ ppc' = ppc /\ visited' = visited /\ wfind' = wfind
        /\ tempLog' = [tempLog EXCEPT ![logfd][k] = Append(@, x)]
        /\ \A v \in Writers : wpc'[v] = "idle" => wpc[v] = "idle"
    BY DEF WriteLog, StoreInv, Phases, TypeOK, shared, persist, child, history
  <1>2. /\ x \in Records /\ k \in Keys /\ k = KeyOf[x] /\ InHand(w, x)
        /\ tempLog \in [Buffers -> [Keys -> Seq(Records)]] /\ logfd \in Buffers
    BY CurrentTyped, HeadOnce DEF WriteLog, CurrentKey, Current, InHand, TypeOK
  <1> HIDE DEF x, k
  <1>3. \A b \in Buffers, l \in Keys :
          Held(tempLog'[b][l]) \subseteq Held(tempLog[b][l]) \cup (IF l = k THEN {x} ELSE {})
    <2> SUFFICES ASSUME NEW b \in Buffers, NEW l \in Keys
                 PROVE  Held(tempLog'[b][l]) \subseteq
                          Held(tempLog[b][l]) \cup (IF l = k THEN {x} ELSE {})
      OBVIOUS
    <2>1. CASE b = logfd /\ l = k
      <3>1. tempLog'[b][l] = Append(tempLog[b][l], x) /\ tempLog[b][l] \in Seq(Records)
        BY <1>1, <1>2, <2>1
      <3>2. Held(Append(tempLog[b][l], x)) = Held(tempLog[b][l]) \cup {x}
        BY <3>1, HeldFacts, Zenon
      <3> QED
        BY <2>1, <3>1, <3>2
    <2>2. CASE ~(b = logfd /\ l = k)
      BY <1>1, <1>2, <2>2
    <2> QED
      BY <2>1, <2>2
  <1>4. Placed'
    <2> SUFFICES ASSUME NEW b \in Buffers, NEW l \in Keys,
                        NEW r \in Held(mem[b][l]) \cup Held(tempLog'[b][l])
                 PROVE  KeyOf[r] = l
      BY <1>1 DEF Placed
    <2>1. r \in Held(mem[b][l]) \cup Held(tempLog[b][l]) \/ (l = k /\ r = x)
      BY <1>3
    <2> QED
      BY <1>2, <2>1 DEF OnceInv, Placed
  <1>5. IdleMapEmpty' /\ InHandOnce'
    BY <1>1 DEF OnceInv, IdleMapEmpty, InHandOnce
  <1>6. \A r \in Records :
          /\ Unsent(r)' <=> Unsent(r)
          /\ \A v \in Writers : InHand(v, r)' <=> InHand(v, r)
          /\ Retired(r)' <=> Retired(r)
          /\ InMap(active, r)' <=> InMap(active, r)
    BY <1>1 DEF Unsent, InHand, Retired, InMap
  <1>7. \A r \in Records : OnDisk(r)' => OnDisk(r) \/ r = x
    <2>1. \A r \in Records : KeyOf[r] \in Keys
      BY StoreAssumption
    <2> QED
      BY <1>3, <2>1 DEF OnDisk, InLog, Buffers
  <1>8. \A r \in Records : Unsent(r) => r # x
    BY <1>2 DEF OnceInv, OnePlace
  <1>9. OnePlace'
    BY <1>1, <1>6, <1>7, <1>8 DEF OnceInv, OnePlace
  <1>10. \A r \in Records : /\ ToCome(r, "locus")' => ToCome(r, "locus")
                            /\ ToCome(r, "around")' => ToCome(r, "around")
    BY <1>1, <1>6 DEF ToCome
  <1>11. FiledOnce(locus, "locus")' /\ FiledOnce(around, "around")'
    BY <1>1, <1>10 DEF OnceInv, FiledOnce
  <1> QED
    BY <1>4, <1>5, <1>9, <1>11 DEF OnceInv

(* What a writer's last step does to the maps: nothing, or one record more *)
(* at the end of its vector, in the map it looked in or in the current one. *)
LEMMA StoreMem ==
  ASSUME TypeOK, NEW w \in Writers, StoreRecord(w)
  PROVE  \/ mem' = mem /\ exempt' = exempt \cup {Current(w)}
         \/ \E b \in Buffers :
              /\ b \in {wfind[w], active}
              /\ mem' = [mem EXCEPT ![b][CurrentKey(w)] = Append(@, Current(w))]
              /\ exempt' = IF crossing[w] THEN exempt \cup {Current(w)} ELSE exempt
  <1>1. /\ CurrentKey(w) \in Keys /\ active \in Buffers /\ Current(w) \in Records
        /\ mem \in [Buffers -> [Keys -> Seq(Records)]]
    BY CurrentTyped DEF StoreRecord, TypeOK
  <1>2. CASE PushBack(w)
    BY <1>1, <1>2 DEF PushBack
  <1>3. CASE InsertVector(w) /\ mem[active][CurrentKey(w)] = <<>>
    <2>1. Append(mem[active][CurrentKey(w)], Current(w)) = <<Current(w)>>
      BY <1>1, <1>3
    <2>2. mem' = [mem EXCEPT ![active][CurrentKey(w)] = Append(@, Current(w))]
      BY <1>1, <1>3, <2>1 DEF InsertVector
    <2> QED
      BY <1>1, <1>3, <2>2 DEF InsertVector
  <1>4. CASE InsertVector(w) /\ mem[active][CurrentKey(w)] # <<>>
    BY <1>4 DEF InsertVector
  <1> QED
    BY <1>2, <1>3, <1>4 DEF StoreRecord

Pushed(b, k, x) == k = KeyOf[x] /\ mem' = [mem EXCEPT ![b][k] = Append(@, x)]

LEMMA PushedInto ==
  ASSUME TypeOK, NEW b \in Buffers, NEW k \in Keys, NEW x \in Records, Pushed(b, k, x)
  PROVE  /\ mem[b][k] \in Seq(Records) /\ mem'[b][k] = Append(mem[b][k], x)
         /\ \A a \in Buffers, l \in Keys : ~(a = b /\ l = k) => mem'[a][l] = mem[a][l]
         /\ \A a \in Buffers : a # b => mem'[a] = mem[a]
         /\ \A a \in Buffers, r \in Records : InMap(a, r)' <=> InMap(a, r) \/ (a = b /\ r = x)
  <1>1. /\ mem \in [Buffers -> [Keys -> Seq(Records)]]
        /\ k = KeyOf[x] /\ mem' = [mem EXCEPT ![b][k] = Append(@, x)]
    BY DEF TypeOK, Pushed
  <1>2. mem[b][k] \in Seq(Records) /\ mem'[b][k] = Append(mem[b][k], x)
    BY <1>1
  <1>3. Held(Append(mem[b][k], x)) = Held(mem[b][k]) \cup {x}
    BY <1>2, HeldFacts, Zenon
  <1>4. \A a \in Buffers, l \in Keys : ~(a = b /\ l = k) => mem'[a][l] = mem[a][l]
    BY <1>1
  <1>5. \A a \in Buffers : a # b => mem'[a] = mem[a]
    BY <1>1
  <1>6. ASSUME NEW a \in Buffers, NEW r \in Records
        PROVE  InMap(a, r)' <=> InMap(a, r) \/ (a = b /\ r = x)
    <2>1. KeyOf[r] \in Keys
      BY StoreAssumption
    <2>2. CASE a = b /\ KeyOf[r] = k
      <3>1. Held(mem'[a][KeyOf[r]]) = Held(mem[a][KeyOf[r]]) \cup {x}
        BY <1>2, <1>3, <2>2
      <3>2. r = x \/ r # x
        OBVIOUS
      <3> QED
        BY <2>2, <3>1 DEF InMap
    <2>3. CASE ~(a = b /\ KeyOf[r] = k)
      BY <1>1, <1>4, <2>1, <2>3 DEF InMap
    <2> QED
      BY <2>2, <2>3
  <1> QED
    BY <1>2, <1>4, <1>5, <1>6

LEMMA OnceStoreRecord ==
  ASSUME TypeOK, StoreInv, OnceInv, NEW w \in Writers, StoreRecord(w)
  PROVE  OnceInv'
  <1>0. /\ Current(w) \in Records /\ CurrentKey(w) \in Keys
        /\ CurrentKey(w) = KeyOf[Current(w)]
    BY CurrentTyped DEF StoreRecord, CurrentKey
  <1> PICK x \in Records, k \in Keys : x = Current(w) /\ k = CurrentKey(w) /\ k = KeyOf[x]
    BY <1>0
  <1>1. /\ tempLog' = tempLog /\ active' = active /\ pmem' = pmem /\ todo' = todo
        /\ stored' = stored \cup {x} /\ locus' = locus /\ around' = around
        /\ crashes' = crashes /\ boot' = boot /\ boot = "up" /\ ppc' = ppc
        /\ visited' = visited /\ wfind' = wfind
        /\ active \in Buffers /\ pmem \in Buffers
    BY DEF StoreRecord, StoreInv, Phases, TypeOK, files, persist, child
  <1>2. /\ wreq[w] \in Seq(Records) /\ wreq[w] # <<>>
        /\ wreq \in [Writers -> Seq(Records)] /\ wreq' = [wreq EXCEPT ![w] = Tail(@)]
        /\ x = Head(wreq[w])
    BY CurrentTyped DEF StoreRecord, CurrentKey, Current, TypeOK
  <1>3. /\ InHand(w, x) /\ ~InHand(w, x)'
        /\ \A r : InHand(w, r)' => InHand(w, r)
        /\ NoRepeat(wreq'[w])
    <2>1. NoRepeat(wreq[w]) /\ wreq'[w] = Tail(wreq[w])
      BY <1>2 DEF OnceInv, InHandOnce
    <2> QED
      BY <1>2, <2>1, HeadOnce, SMTT(20) DEF InHand
  <1>4. \A v \in Writers : v # w => wreq'[v] = wreq[v] /\ wpc'[v] = wpc[v]
    BY <1>2 DEF StoreRecord, TypeOK
  <1>5. \E b \in {wfind[w], active} :
          /\ \A a \in Buffers, r \in Records : InMap(a, r)' => InMap(a, r) \/ (a = b /\ r = x)
          /\ \A a \in Buffers, r \in Records : InMap(a, r) => InMap(a, r)'
          /\ \A a \in Buffers, l \in Keys :
               Held(mem'[a][l]) \subseteq Held(mem[a][l]) \cup (IF l = k THEN {x} ELSE {})
    <2>1. CASE mem' = mem
      BY <2>1 DEF InMap
    <2>2. CASE \E b \in Buffers : b \in {wfind[w], active}
                                  /\ mem' = [mem EXCEPT ![b][k] = Append(@, x)]
      <3>1. PICK b \in Buffers : /\ b \in {wfind[w], active}
                                 /\ mem' = [mem EXCEPT ![b][k] = Append(@, x)]
        BY <2>2
      <3>4. Pushed(b, k, x)
        BY <3>1 DEF Pushed
      <3>5. Held(mem'[b][k]) = Held(mem[b][k]) \cup {x}
        <4>1. mem'[b][k] = Append(mem[b][k], x) /\ mem[b][k] \in Seq(Records)
          BY <3>4, PushedInto
        <4>2. Held(Append(mem[b][k], x)) = Held(mem[b][k]) \cup {x}
          BY <4>1, HeldFacts, Zenon
        <4> QED
          BY <4>1, <4>2
      <3>6. \A a \in Buffers, l \in Keys : ~(a = b /\ l = k) => mem'[a][l] = mem[a][l]
        BY <3>4, PushedInto
      <3>7. \A a \in Buffers, r \in Records : InMap(a, r)' <=> InMap(a, r) \/ (a = b /\ r = x)
        BY <3>4, PushedInto
      <3>3. \A a \in Buffers, l \in Keys :
              Held(mem'[a][l]) \subseteq Held(mem[a][l]) \cup (IF l = k THEN {x} ELSE {})
        BY <3>5, <3>6
      <3> QED
        BY <3>1, <3>3, <3>7
    <2> QED
      BY <2>1, <2>2, StoreMem
  <1>6. Placed'
    <2> SUFFICES ASSUME NEW b \in Buffers, NEW l \in Keys,
                        NEW r \in Held(mem'[b][l]) \cup Held(tempLog[b][l])
                 PROVE  KeyOf[r] = l
      BY <1>1 DEF Placed
    <2>1. r \in Held(mem[b][l]) \cup Held(tempLog[b][l]) \/ (l = k /\ r = x)
      BY <1>5
    <2> QED
      BY <1>2, <2>1 DEF OnceInv, Placed
  <1>7. IdleMapEmpty'
    <2> SUFFICES ASSUME ppc \in {"swapLog", "swapMem"}
                 PROVE  mem'[Other(active)] = mem[Other(active)]
      BY <1>1 DEF OnceInv, IdleMapEmpty
    <2>1. wfind[w] # Other(active) /\ active # Other(active) /\ Other(active) \in Buffers
          /\ \A b \in Buffers : b # Other(active) => b = active
      BY <1>1, BufferFacts DEF OnceInv, IdleMapEmpty
    <2>2. CASE mem' = mem
      BY <2>2
    <2>3. ASSUME NEW b \in Buffers, b \in {wfind[w], active},
                 mem' = [mem EXCEPT ![b][CurrentKey(w)] = Append(@, Current(w))]
          PROVE  mem'[Other(active)] = mem[Other(active)]
      BY <2>1, <2>3 DEF TypeOK
    <2> QED
      BY <2>2, <2>3, StoreMem
  <1>8. InHandOnce'
    <2>1. wpc'[w] = "idle" => wreq'[w] = <<>>
      <3>1. ASSUME wpc'[w] = "idle" PROVE Len(wreq[w]) = 1
        <4>1. ~(Len(wreq[w]) > 1)
          BY <3>1 DEF StoreRecord, MoreRecords, FirstStep, TypeOK
        <4> DEFINE n == Len(wreq[w])
        <4>2. n \in Nat /\ n # 0
          BY <1>2, EmptySeq
        <4> HIDE DEF n
        <4>3. ~(n > 1) => n = 1
          BY <4>2
        <4> QED
          BY <4>1, <4>3 DEF n
      <3>2. ASSUME Len(wreq[w]) = 1 PROVE Tail(wreq[w]) = <<>>
        <4>1. Tail(wreq[w]) \in Seq(Records) /\ Len(Tail(wreq[w])) = 0
          BY <1>2, <3>2
        <4> QED
          BY <4>1, EmptySeq
      <3> QED
        BY <1>2, <3>1, <3>2
    <2> QED
      BY <1>3, <1>4, <2>1 DEF OnceInv, InHandOnce
  <1>9. \A r \in Records :
          /\ Unsent(r)' <=> Unsent(r)
          /\ \A v \in Writers : InHand(v, r)' => InHand(v, r)
          /\ OnDisk(r)' <=> OnDisk(r)
          /\ r # x => (InMap(active, r)' <=> InMap(active, r))
          /\ r # x => (Retired(r)' <=> Retired(r))
    BY <1>1, <1>3, <1>4, <1>5 DEF Unsent, InHand, OnDisk, Retired, InMap, InLog
  <1>10. /\ ~Unsent(x) /\ \A v \in Writers : ~InHand(v, x)'
         /\ ~InMap(active, x) /\ ~Retired(x)
    <2>1. \A v \in Writers : InHand(v, x) => v = w
      BY <1>2, <1>3 DEF OnceInv, OnePlace
    <2> QED
      BY <1>2, <1>3, <1>9, <2>1 DEF OnceInv, OnePlace
  <1>11. ~(InMap(active, x)' /\ Retired(x)')
    <2>1. ppc = "join" => pmem # active
      BY <1>1, BufferFacts DEF StoreInv, Phases
    <2>2. ppc = "join" => ~(InMap(active, x)' /\ InMap(pmem, x)')
      BY <1>1, <1>2, <1>5, <1>10, <2>1 DEF Retired, InMap
    <2> QED
      BY <1>1, <2>2 DEF Retired
  <1>12. OnePlace'
    <2> SUFFICES ASSUME NEW r \in Records
                 PROVE  /\ Unsent(r)' => /\ \A v \in Writers : ~InHand(v, r)'
                                         /\ ~OnDisk(r)'
                        /\ Unsent(r)' \/ (\E v \in Writers : InHand(v, r)') =>
                             ~InMap(active, r)' /\ ~Retired(r)' /\ r \notin stored'
                        /\ \A u, v \in Writers : InHand(u, r)' /\ InHand(v, r)' => u = v
                        /\ InMap(active, r)' => ~Retired(r)'
      BY DEF OnePlace
    <2>1. CASE r = x
      BY <1>9, <1>10, <1>11, <2>1
    <2>2. CASE r # x
      BY <1>1, <1>9, <2>2 DEF OnceInv, OnePlace
    <2> QED
      BY <2>1, <2>2
  <1>13. \A r \in Records : /\ ToCome(r, "locus")' => ToCome(r, "locus")
                            /\ ToCome(r, "around")' => ToCome(r, "around")
    BY <1>1, <1>3, <1>9 DEF ToCome
  <1>14. FiledOnce(locus, "locus")' /\ FiledOnce(around, "around")'
    BY <1>1, <1>13 DEF OnceInv, FiledOnce
  <1> QED
    BY <1>6, <1>7, <1>8, <1>12, <1>14 DEF OnceInv

LEMMA OnceBegin ==
  ASSUME TypeOK, StoreInv, OnceInv, StartPass
  PROVE  OnceInv'
  <1>1. /\ tempLog' = tempLog /\ active' = active /\ todo' = todo /\ wreq' = wreq
        /\ stored' = stored /\ locus' = locus /\ around' = around /\ wpc' = wpc
        /\ crashes' = crashes /\ boot' = boot /\ boot # "down" /\ ppc' = "swapLog"
        /\ visited' = visited /\ mem' = [mem EXCEPT ![Other(active)] = Empty]
        /\ wfind' = [w \in Writers |-> IF wfind[w] = Other(active) THEN Dangling ELSE wfind[w]]
        /\ active \in Buffers
        /\ mem \in [Buffers -> [Keys -> Seq(Records)]]
    BY DEF StartPass, BeginPass, IdleMapCleared, TypeOK, files, child, history
  <1>2. /\ Other(active) \in Buffers /\ Other(active) # active /\ Dangling # Other(active)
    BY <1>1, BufferFacts
  <1>3. mem'[active] = mem[active] /\ mem'[Other(active)] = Empty
        /\ \A b \in Buffers : b # Other(active) => mem'[b] = mem[b]
    BY <1>1, <1>2
  <1>4. Placed'
    <2>1. \A b \in Buffers, k \in Keys : Held(mem'[b][k]) \subseteq Held(mem[b][k])
      BY <1>2, <1>3, HeldEmpty DEF Empty
    <2> QED
      BY <1>1, <2>1 DEF OnceInv, Placed
  <1>5. IdleMapEmpty' /\ InHandOnce'
    BY <1>1, <1>2, <1>3 DEF OnceInv, IdleMapEmpty, InHandOnce
  <1>6. \A r \in Records :
          /\ Unsent(r)' <=> Unsent(r)
          /\ \A w \in Writers : InHand(w, r)' <=> InHand(w, r)
          /\ OnDisk(r)' <=> OnDisk(r)
          /\ ~Retired(r)'
          /\ InMap(active, r)' <=> InMap(active, r)
    BY <1>1, <1>3 DEF Unsent, InHand, OnDisk, Retired, InMap, InLog
  <1>7. OnePlace'
    BY <1>1, <1>6 DEF OnceInv, OnePlace
  <1>8. \A r \in Records : /\ ToCome(r, "locus")' => ToCome(r, "locus")
                           /\ ToCome(r, "around")' => ToCome(r, "around")
    BY <1>1, <1>6 DEF ToCome
  <1>9. FiledOnce(locus, "locus")' /\ FiledOnce(around, "around")'
    BY <1>1, <1>8 DEF OnceInv, FiledOnce
  <1> QED
    BY <1>4, <1>5, <1>7, <1>9 DEF OnceInv

LEMMA OnceSwapMem ==
  ASSUME TypeOK, StoreInv, OnceInv, SwapMem
  PROVE  OnceInv'
  <1>1. /\ tempLog' = tempLog /\ mem' = mem /\ todo' = todo /\ wreq' = wreq
        /\ stored' = stored /\ locus' = locus /\ around' = around /\ wpc' = wpc
        /\ crashes' = crashes /\ boot' = boot /\ boot # "down" /\ ppc' = "join"
        /\ ppc = "swapMem" /\ pmem' = pmem /\ active = pmem /\ active' = Other(active)
    BY DEF SwapMem, NextMap, StoreInv, Phases, PointersAgree, files, history
  <1>2. mem[Other(active)] = Empty
    BY <1>1 DEF OnceInv, IdleMapEmpty
  <1>3. Placed' /\ IdleMapEmpty' /\ InHandOnce'
    BY <1>1 DEF OnceInv, Placed, IdleMapEmpty, InHandOnce
  <1>4. \A r \in Records :
          /\ Unsent(r)' <=> Unsent(r)
          /\ \A w \in Writers : InHand(w, r)' <=> InHand(w, r)
          /\ OnDisk(r)' <=> OnDisk(r)
          /\ Retired(r)' <=> InMap(active, r)
          /\ ~InMap(active, r)'
    BY <1>1, <1>2, HeldEmpty, StoreAssumption
    DEF Unsent, InHand, OnDisk, Retired, InMap, InLog, Empty
  <1>5. OnePlace'
    BY <1>1, <1>4 DEF OnceInv, OnePlace
  <1>6. \A r \in Records : /\ ToCome(r, "locus")' => ToCome(r, "locus")
                           /\ ToCome(r, "around")' => ToCome(r, "around")
    BY <1>1, <1>4 DEF ToCome
  <1>7. FiledOnce(locus, "locus")' /\ FiledOnce(around, "around")'
    BY <1>1, <1>6 DEF OnceInv, FiledOnce
  <1> QED
    BY <1>3, <1>5, <1>7 DEF OnceInv

LEMMA OnceJoin ==
  ASSUME TypeOK, StoreInv, OnceInv, JoinAndTruncate
  PROVE  OnceInv'
  <1>1. /\ mem' = mem /\ todo' = todo /\ wreq' = wreq /\ wpc' = wpc /\ active' = active
        /\ stored' = stored /\ locus' = locus /\ around' = around /\ visited' = visited
        /\ crashes' = crashes /\ boot' = boot /\ boot # "down" /\ ppc' = "wait"
        /\ tempLog' = [tempLog EXCEPT ![pfile] = Empty]
        /\ pfile \in Buffers /\ tempLog \in [Buffers -> [Keys -> Seq(Records)]]
    BY DEF JoinAndTruncate, StoreInv, Phases, TypeOK, shared, writer, child, history
  <1>2. \A b \in Buffers, k \in Keys : Held(tempLog'[b][k]) \subseteq Held(tempLog[b][k])
    BY <1>1, HeldEmpty DEF Empty
  <1>3. Placed' /\ IdleMapEmpty' /\ InHandOnce'
    BY <1>1, <1>2 DEF OnceInv, Placed, IdleMapEmpty, InHandOnce
  <1>4. \A r \in Records :
          /\ Unsent(r)' <=> Unsent(r)
          /\ \A w \in Writers : InHand(w, r)' <=> InHand(w, r)
          /\ OnDisk(r)' => OnDisk(r)
          /\ ~Retired(r)'
          /\ InMap(active, r)' <=> InMap(active, r)
    BY <1>1, <1>2, StoreAssumption
    DEF Unsent, InHand, OnDisk, Retired, InMap, InLog, Buffers
  <1>5. OnePlace'
    BY <1>1, <1>4 DEF OnceInv, OnePlace
  <1>6. \A r \in Records : /\ ToCome(r, "locus")' => ToCome(r, "locus")
                           /\ ToCome(r, "around")' => ToCome(r, "around")
    BY <1>1, <1>4 DEF ToCome
  <1>7. FiledOnce(locus, "locus")' /\ FiledOnce(around, "around")'
    BY <1>1, <1>6 DEF OnceInv, FiledOnce
  <1> QED
    BY <1>3, <1>5, <1>7 DEF OnceInv

(* A visit files what was still to be filed, and marks it visited. *)
LEMMA FiledByVisit ==
  ASSUME TypeOK, StoreInv, OnceInv, NEW k \in Keys, NEW c \in Children,
         NEW count \in [Records -> Nat], NEW newCount, FiledOnce(count, c),
         Visit(c, k), newCount = Add(count, mem[pmem][k])
  PROVE  \A r \in Records : /\ newCount[r] <= 1 + crashes
                            /\ ToCome(r, c)' => newCount[r] <= crashes
  <1>1. /\ mem' = mem /\ todo' = todo /\ wreq' = wreq /\ active' = active
        /\ boot' = boot /\ ppc' = ppc /\ pmem' = pmem /\ tempLog' = tempLog
        /\ visited'[c] = visited[c] \cup {k} /\ k \notin visited[c] /\ cpc[c] = "scan"
    BY DEF Visit, TypeOK, writer, persist
  <1>6. ppc = "join" /\ boot # "down" /\ pmem \in Buffers /\ crashes \in Nat
    BY <1>1, StoreAssumption DEF StoreInv, Phases, TypeOK
  <1> SUFFICES ASSUME NEW r \in Records
               PROVE  /\ newCount[r] <= 1 + crashes
                      /\ ToCome(r, c)' => newCount[r] <= crashes
    OBVIOUS
  <1> DEFINE n == count[r]
  <1>2. /\ newCount[r] = IF r \in Held(mem[pmem][k]) THEN n + 1 ELSE n
        /\ n \in Nat /\ n <= 1 + crashes /\ (ToCome(r, c) => n <= crashes)
    BY DEF Add, FiledOnce
  <1> HIDE DEF n
  <1>3. ToCome(r, c)' => ToCome(r, c)
    BY <1>1 DEF ToCome, Unsent, InHand, InMap, Retired, OnDisk, InLog
  <1>4. CASE r \in Held(mem[pmem][k])
    <2>1. KeyOf[r] = k
      BY <1>4, <1>6 DEF OnceInv, Placed
    <2>2. Retired(r) /\ ToCome(r, c)
      BY <1>1, <1>4, <1>6, <2>1 DEF Retired, InMap, ToCome
    <2>3. ~ToCome(r, c)'
      <3>1. /\ ~Unsent(r) /\ \A w \in Writers : ~InHand(w, r)
            /\ ~InMap(active, r)
        BY <2>2 DEF OnceInv, OnePlace
      <3> QED
        BY <1>1, <1>6, <2>1, <3>1 DEF ToCome, Unsent, InHand, InMap, Retired
    <2> QED
      BY <1>2, <1>4, <1>6, <2>2, <2>3
  <1>5. CASE r \notin Held(mem[pmem][k])
    BY <1>2, <1>3, <1>5, <1>6
  <1> QED
    BY <1>4, <1>5

LEMMA OnceVisit ==
  ASSUME TypeOK, StoreInv, OnceInv, NEW k \in Keys,
         MemToLocusFile(k) \/ MemToAroundFile(k)
  PROVE  OnceInv'
  <1>1. PICK c \in {"locus", "around"} :
          /\ Visit(c, k)
          /\ c = "locus" => locus' = Add(locus, mem[pmem][k]) /\ around' = around
          /\ c = "around" => around' = Add(around, mem[pmem][k]) /\ locus' = locus
    BY DEF MemToLocusFile, MemToAroundFile
  <1>2. /\ mem' = mem /\ todo' = todo /\ wreq' = wreq /\ wpc' = wpc /\ active' = active
        /\ stored' = stored /\ crashes' = crashes /\ boot' = boot /\ ppc' = ppc
        /\ tempLog' = tempLog /\ pmem' = pmem /\ wfind' = wfind
        /\ \A d \in Children : d # c => visited'[d] = visited[d]
    BY <1>1 DEF Visit, TypeOK, Children, writer, persist, history
  <1>3. Placed' /\ IdleMapEmpty' /\ InHandOnce' /\ OnePlace'
    BY <1>2 DEF OnceInv, Placed, IdleMapEmpty, InHandOnce, OnePlace,
       Unsent, InHand, OnDisk, Retired, InMap, InLog
  <1>4. ASSUME NEW d \in Children, d # c, NEW r \in Records PROVE ToCome(r, d)' => ToCome(r, d)
    BY <1>2, <1>4 DEF ToCome, Unsent, InHand, OnDisk, Retired, InMap, InLog
  <1>5. FiledOnce(locus, "locus")'
    <2>1. CASE c = "locus"
      BY <1>1, <1>2, <2>1, FiledByVisit DEF OnceInv, FiledOnce, TypeOK, Children
    <2>2. CASE c = "around"
      BY <1>1, <1>2, <1>4, <2>2 DEF OnceInv, FiledOnce, Children
    <2> QED
      BY <2>1, <2>2
  <1>6. FiledOnce(around, "around")'
    <2>1. CASE c = "around"
      BY <1>1, <1>2, <2>1, FiledByVisit DEF OnceInv, FiledOnce, TypeOK, Children
    <2>2. CASE c = "locus"
      BY <1>1, <1>2, <1>4, <2>2 DEF OnceInv, FiledOnce, Children
    <2> QED
      BY <2>1, <2>2
  <1> QED
    BY <1>3, <1>5, <1>6 DEF OnceInv

LEMMA OnceOther ==
  ASSUME TypeOK, StoreInv, OnceInv,
         \/ InitStatistic \/ SwapLog
         \/ \E w \in Writers : Register(w) \/ FindVector(w)
         \/ FinishScan("locus") \/ FinishScan("around") \/ LastStep
         \/ \E c \in Children : ChildFails(c)
         \/ UNCHANGED vars
  PROVE  OnceInv'
  <1>1. /\ mem' = mem /\ tempLog' = tempLog /\ active' = active /\ pmem' = pmem
        /\ wreq' = wreq /\ todo' = todo /\ stored' = stored
        /\ locus' = locus /\ around' = around /\ crashes' = crashes
        /\ boot' = boot \/ boot' # "down"
        /\ ppc' = ppc \/ (ppc' = "swapMem" /\ ppc = "swapLog")
        /\ visited'["locus"] = visited["locus"] /\ visited'["around"] = visited["around"]
        /\ \A w \in Writers : wpc'[w] = "idle" => wpc[w] = "idle"
        /\ \A w \in Writers : wfind'[w] = wfind[w] \/ wfind'[w] \in {NotFound, active}
    <2>1. CASE InitStatistic \/ SwapLog
      BY <2>1 DEF InitStatistic, SwapLog, files, shared, writer, persist, child, history
    <2>2. ASSUME NEW w \in Writers, Register(w) \/ FindVector(w) PROVE <1>1
      BY <2>2 DEF Register, FindVector, TypeOK, files, shared, writer, persist, child, history
    <2>3. CASE FinishScan("locus") \/ FinishScan("around")
      BY <2>3 DEF FinishScan, files, shared, writer, persist, history
    <2>4. CASE LastStep
      BY <2>4 DEF LastStep, MemToLast, Visit, OpenLastFiles, WriteEachFile, WriteLastFile,
         TypeOK, Children, files, shared, writer, persist, history
    <2>5. ASSUME NEW c \in Children, ChildFails(c) PROVE <1>1
      BY <2>5 DEF ChildFails, shared, writer, persist
    <2>6. CASE UNCHANGED vars
      BY <2>6 DEF vars, files, shared, writer, persist, child, history
    <2> QED
      BY <2>1, <2>2, <2>3, <2>4, <2>5, <2>6
  <1>2. IdleMapEmpty'
    <2>1. active # Other(active) /\ NotFound # Other(active)
      BY BufferFacts DEF TypeOK
    <2> QED
      BY <1>1, <2>1 DEF OnceInv, IdleMapEmpty
  <1> QED
    BY <1>1, <1>2, OnceFrame

LEMMA OnceInit == Init => OnceInv
  <1> SUFFICES ASSUME Init PROVE OnceInv
    OBVIOUS
  <1>1. /\ \A r \in Records : ~OnDisk(r) /\ ~InMap(active, r) /\ ~Retired(r)
        /\ \A r \in Records, w \in Writers : ~InHand(w, r)
    BY HeldEmpty, StoreAssumption
    DEF Init, OnDisk, InLog, InMap, Retired, InHand, Empty, Buffers
  <1>2. Placed
    BY HeldEmpty DEF Init, Placed, Empty
  <1>3. IdleMapEmpty /\ InHandOnce /\ OnePlace
    BY <1>1, EmptySeq DEF Init, IdleMapEmpty, InHandOnce, NoRepeat, OnePlace
  <1>4. FiledOnce(locus, "locus") /\ FiledOnce(around, "around")
    BY DEF Init, FiledOnce
  <1> QED
    BY <1>2, <1>3, <1>4 DEF OnceInv

LEMMA OnceNext ==
  ASSUME TypeOK, StoreInv, OnceInv, [Next]_vars
  PROVE  OnceInv'
  <1>1. CASE LoadFiles \/ Crash
    BY <1>1, OnceLoad, OnceCrash
  <1>2. ASSUME NEW w \in Writers, Receive(w) \/ WriteLog(w) \/ StoreRecord(w) PROVE OnceInv'
    BY <1>2, OnceReceive, OnceWriteLog, OnceStoreRecord
  <1>3. CASE StartPass \/ SwapMem \/ JoinAndTruncate
    BY <1>3, OnceBegin, OnceSwapMem, OnceJoin
  <1>4. ASSUME NEW k \in Keys, MemToLocusFile(k) \/ MemToAroundFile(k) PROVE OnceInv'
    BY <1>4, OnceVisit
  <1> QED
    BY <1>1, <1>2, <1>3, <1>4, OnceOther DEF Next, WriterStep, Core, LocusStep, AroundStep

(* No record is filed twice in the locus or the around files, except once  *)
(* more for each time the process was killed and replayed its log:         *)
(* whatever writers, the two buffers, the children and failures interleave. *)
THEOREM FiledOncePerLife == Spec => []DuplicatesBounded
  <1>1. OnceInv => DuplicatesBounded
    BY DEF OnceInv, FiledOnce, DuplicatesBounded
  <1>2. OnceInv /\ (TypeOK /\ StoreInv) /\ [Next]_vars => OnceInv'
    BY OnceNext
  <1> QED
    BY <1>1, <1>2, OnceInit, InvCorrect, PTL DEF Spec
-----------------------------------------------------------------------------
(* Without races the positions a pass will clear have been moved: between  *)
(* passes those of the idle map, and within one those of the devices its   *)
(* last child has visited, all of them once its scan is over.              *)
LastScanned == ppc = "join" /\ cpc["last"] # "scan" => must \subseteq visited["last"]

Moved ==
  exempt = {} /\ boot # "down" =>
    /\ ppc = "wait" /\ tempLog[Other(logfd)] = Empty =>
         \A k \in Keys : mem[Other(active)][k] # <<>>
                           => lastdata[k] = Back(mem[Other(active)][k])
    /\ ppc = "join" =>
         /\ \A k \in Keys : mem[pmem][k] # <<>> => k \in must
         /\ \A k \in visited["last"] : mem[pmem][k] # <<>> => lastdata[k] = Back(mem[pmem][k])

LEMMA BackAppended ==
  ASSUME NEW S, NEW s \in Seq(S), NEW x \in S
  PROVE  Back(Append(s, x)) = x /\ Append(s, x) # <<>>
  <1>1. Len(Append(s, x)) = Len(s) + 1 /\ Append(s, x)[Len(s) + 1] = x
    OBVIOUS
  <1>2. Append(s, x) # <<>>
    BY HeldFacts, Zenon
  <1> QED
    BY <1>1, <1>2 DEF Back

LEMMA TailDiffers ==
  ASSUME NEW S, NEW s \in Seq(S), s # <<>>
  PROVE  Tail(s) # s
  <1> DEFINE n == Len(s)
  <1>1. Len(Tail(s)) = n - 1 /\ n \in Nat /\ n # 0
    BY EmptySeq
  <1> HIDE DEF n
  <1>2. n - 1 # n
    BY <1>1
  <1> QED
    BY <1>1, <1>2 DEF n

LEMMA ExemptGrows == TypeOK /\ [Next]_vars => exempt \subseteq exempt'
  <1> SUFFICES ASSUME TypeOK, [Next]_vars PROVE exempt \subseteq exempt'
    OBVIOUS
  <1>1. CASE LoadFiles \/ InitStatistic \/ Crash
    BY <1>1 DEF LoadFiles, InitStatistic, Crash, history
  <1>2. ASSUME NEW w \in Writers, WriterStep(w) PROVE exempt \subseteq exempt'
    BY <1>2 DEF WriterStep, Receive, WriteLog, Register, FindVector, StoreRecord,
       PushBack, InsertVector, history
  <1>3. CASE Core
    BY <1>3 DEF Core, StartPass, BeginPass, SwapLog, SwapMem, JoinAndTruncate, history
  <1>4. CASE LocusStep \/ AroundStep \/ LastStep
    BY <1>4 DEF LocusStep, AroundStep, LastStep, FinishScan, MemToLocusFile,
       MemToAroundFile, MemToLast, Visit, OpenLastFiles, WriteEachFile, WriteLastFile, history
  <1>5. ASSUME NEW c \in Children, ChildFails(c) PROVE exempt \subseteq exempt'
    BY <1>5 DEF ChildFails
  <1> QED
    BY <1>1, <1>2, <1>3, <1>4, <1>5 DEF Next, vars, history

(* A store that met no race appends its record to the current map. *)
LEMMA StoreUnraced ==
  ASSUME TypeOK, StoreInv, NEW w \in Writers, StoreRecord(w), exempt' = {}
  PROVE  mem' = [mem EXCEPT ![active][CurrentKey(w)] = Append(@, Current(w))]
  <1>1. mem' # mem \/ exempt' # exempt \cup {Current(w)}
    OBVIOUS
  <1>2. PICK b \in Buffers :
          /\ b \in {wfind[w], active}
          /\ mem' = [mem EXCEPT ![b][CurrentKey(w)] = Append(@, Current(w))]
          /\ exempt' = IF crossing[w] THEN exempt \cup {Current(w)} ELSE exempt
    BY <1>1, StoreMem
  <1>3. ~crossing[w] /\ wpc[w] = "store"
    BY <1>2 DEF StoreRecord
  <1>4. wfind[w] \in {NotFound, Dangling, active}
    BY <1>3 DEF StoreInv, InFlight
  <1>5. b = active
    BY <1>2, <1>4, BufferFacts
  <1> QED
    BY <1>2, <1>5

LEMMA LastScannedNext ==
  ASSUME TypeOK, LastScanned, [Next]_vars
  PROVE  LastScanned'
  <1>0. /\ "locus" \in Children /\ "around" \in Children /\ "last" \in Children
        /\ cpc \in [Children -> {"idle", "scan", "writeEach", "writeLast"}]
        /\ visited \in [Children -> SUBSET Keys]
    BY DEF TypeOK, Children
  <1>1. CASE LoadFiles \/ InitStatistic \/ Crash
    BY <1>1 DEF LoadFiles, InitStatistic, Crash, LastScanned, persist, child
  <1>2. ASSUME NEW w \in Writers, WriterStep(w) PROVE LastScanned'
    BY <1>2 DEF WriterStep, Receive, WriteLog, Register, FindVector, StoreRecord, LastScanned,
       persist, child
  <1>3. CASE Core
    BY <1>0, <1>3 DEF Core, StartPass, BeginPass, SwapLog, SwapMem, JoinAndTruncate, LastScanned,
       child
  <1>4. CASE LocusStep \/ AroundStep
    BY <1>0, <1>4 DEF LocusStep, AroundStep, FinishScan, MemToLocusFile, MemToAroundFile, Visit,
       LastScanned, persist
  <1>5. CASE LastStep
    BY <1>0, <1>5 DEF LastStep, MemToLast, Visit, OpenLastFiles, Scanned, WriteEachFile,
       WriteLastFile, LastScanned, persist
  <1>6. ASSUME NEW c \in Children, ChildFails(c) PROVE LastScanned'
    BY <1>0, <1>6 DEF ChildFails, LastScanned, persist
  <1>7. CASE UNCHANGED vars
    BY <1>7 DEF LastScanned, vars, persist, child
  <1> QED
    BY <1>1, <1>2, <1>3, <1>4, <1>5, <1>6, <1>7 DEF Next

LEMMA MovedNext ==
  ASSUME TypeOK, StoreInv, LastScanned, Moved, [Next]_vars
  PROVE  Moved'
  <1> SUFFICES ASSUME exempt' = {}, boot' # "down" PROVE Moved'
    BY DEF Moved
  <1>0. /\ exempt = {} /\ active \in Buffers /\ pmem \in Buffers /\ logfd \in Buffers
        /\ "locus" \in Children /\ "around" \in Children /\ "last" \in Children
        /\ mem \in [Buffers -> [Keys -> Seq(Records)]]
        /\ tempLog \in [Buffers -> [Keys -> Seq(Records)]]
        /\ cpc \in [Children -> {"idle", "scan", "writeEach", "writeLast"}]
        /\ visited \in [Children -> SUBSET Keys]
    BY ExemptGrows DEF TypeOK, Children
  <1>1. CASE LoadFiles
    <2>1. ppc' = "wait" /\ tempLog' = tempLog /\ mem' = tempLog /\ logfd' = active'
      BY <1>1 DEF LoadFiles, RecoveredMaps, RecoveredLogfd, StoreInv, Phases, files, persist
    <2> QED
      BY <2>1 DEF Moved, Empty
  <1>2. CASE InitStatistic
    BY <1>2 DEF InitStatistic, Moved, files, persist, child, history
  <1>3. CASE Crash
    BY <1>3 DEF Crash
  <1>4. ASSUME NEW w \in Writers, Receive(w) \/ Register(w) \/ FindVector(w) PROVE Moved'
    BY <1>4 DEF Receive, Register, FindVector, Moved, files, shared, persist, child, history
  <1>5. ASSUME NEW w \in Writers, WriteLog(w) PROVE Moved'
    <2>1. /\ mem' = mem /\ logfd' = logfd /\ active' = active /\ ppc' = ppc /\ pmem' = pmem
          /\ lastdata' = lastdata /\ visited' = visited /\ must' = must /\ cpc' = cpc
          /\ boot' = boot
      BY <1>5 DEF WriteLog, shared, persist, child
    <2>2. tempLog'[Other(logfd)] = tempLog[Other(logfd)]
      BY <1>0, <1>5, BufferFacts DEF WriteLog
    <2> QED
      BY <1>0, <2>1, <2>2 DEF Moved
  <1>6. ASSUME NEW w \in Writers, StoreRecord(w) PROVE Moved'
    <2>1. /\ tempLog' = tempLog /\ logfd' = logfd /\ active' = active /\ ppc' = ppc
          /\ pmem' = pmem /\ boot' = boot
          /\ lastdata' = lastdata /\ visited' = visited /\ must' = must /\ cpc' = cpc
      BY <1>6 DEF StoreRecord, files, persist, child
    <2>2. \A b \in Buffers : b # active => mem'[b] = mem[b]
      BY <1>0, <1>6, StoreUnraced
    <2>3. Other(active) # active /\ Other(active) \in Buffers /\ (ppc = "join" => pmem # active)
      BY <1>0, BufferFacts DEF StoreInv, Phases
    <2> QED
      BY <1>0, <2>1, <2>2, <2>3 DEF Moved
  <1>7. CASE StartPass \/ SwapLog
    BY <1>7 DEF StartPass, BeginPass, SwapLog, Moved
  <1>8. CASE SwapMem
    <2>1. /\ ppc' = "join" /\ pmem' = pmem /\ mem' = mem
          /\ must' = {k \in Keys : mem[pmem][k] # <<>>}
          /\ visited'["last"] = {} /\ cpc'["last"] = "scan"
      BY <1>0, <1>8 DEF SwapMem
    <2> QED
      BY <2>1 DEF Moved
  <1>9. CASE JoinAndTruncate
    <2>1. /\ ppc = "join" /\ ppc' = "wait" /\ mem' = mem /\ active' = active
          /\ lastdata' = lastdata /\ boot' = boot /\ cpc["last"] = "idle"
      BY <1>0, <1>9 DEF JoinAndTruncate, ChildrenJoined, shared
    <2>2. Other(active) = pmem
      BY <1>0, <2>1, BufferFacts DEF StoreInv, Phases
    <2>3. \A k \in Keys : mem[pmem][k] # <<>> => lastdata[k] = Back(mem[pmem][k])
      BY <1>0, <2>1 DEF Moved, LastScanned
    <2> QED
      BY <2>1, <2>2, <2>3 DEF Moved
  <1>10. ASSUME NEW k \in Keys, MemToLocusFile(k) \/ MemToAroundFile(k) PROVE Moved'
    BY <1>0, <1>10 DEF MemToLocusFile, MemToAroundFile, Visit, Moved, writer, persist, history
  <1>11. ASSUME NEW k \in Keys, MemToLast(k) PROVE Moved'
    <2>1. /\ mem' = mem /\ active' = active /\ ppc' = ppc /\ pmem' = pmem /\ boot' = boot
          /\ must' = must /\ cpc' = cpc /\ cpc["last"] = "scan"
          /\ visited'["last"] = visited["last"] \cup {k}
          /\ lastdata' = [lastdata EXCEPT ![k] = Back(mem[pmem][k])]
          /\ lastdata \in [Keys -> Records \cup {None}]
      BY <1>0, <1>11 DEF MemToLast, Visit, persist, TypeOK
    <2>2. ppc = "join"
      BY <1>0, <2>1 DEF StoreInv, Phases
    <2> QED
      BY <1>0, <2>1, <2>2 DEF Moved
  <1>12. CASE FinishScan("locus") \/ FinishScan("around")
    BY <1>0, <1>12 DEF FinishScan, Moved, files, shared, persist, history
  <1>13. CASE OpenLastFiles
    BY <1>0, <1>13 DEF OpenLastFiles, Scanned, Moved, shared, persist, history
  <1>14. CASE WriteEachFile \/ WriteLastFile
    BY <1>0, <1>14 DEF WriteEachFile, WriteLastFile, Moved, shared, persist, history
  <1>15. ASSUME NEW c \in Children, ChildFails(c) PROVE Moved'
    BY <1>0, <1>15 DEF ChildFails, Moved, shared, persist
  <1>16. CASE UNCHANGED vars
    BY <1>16 DEF Moved, vars, files, shared, persist, child, history
  <1> QED
    BY <1>1, <1>2, <1>3, <1>4, <1>5, <1>6, <1>7, <1>8, <1>9, <1>10, <1>11, <1>12, <1>13,
       <1>14, <1>15, <1>16
    DEF Next, WriterStep, Core, LocusStep, AroundStep, LastStep

LEMMA PositionKept ==
  ASSUME TypeOK, StoreInv, OnceInv, Moved, Next,
         boot = "up", boot' = "up", exempt' = {}, ~OlderLog, NEW k \in Keys
  PROVE  /\ \A w \in Writers : Stores(w, k) => LastPos(k)' = Current(w)
         /\ (\A w \in Writers : ~Stores(w, k)) => LastPos(k)' = LastPos(k)
  <1>0. /\ exempt = {} /\ active \in Buffers /\ Other(active) \in Buffers
        /\ Other(active) # active /\ pmem \in Buffers
        /\ mem \in [Buffers -> [Keys -> Seq(Records)]] /\ wreq \in [Writers -> Seq(Records)]
    <2>1. exempt = {}
      BY ExemptGrows
    <2> QED
      BY <2>1, BufferFacts DEF TypeOK
  <1>1. ASSUME NEW w \in Writers, StoreRecord(w)
        PROVE  IF CurrentKey(w) = k THEN Stores(w, k) /\ LastPos(k)' = Current(w)
                                    ELSE LastPos(k)' = LastPos(k)
    <2>1. /\ CurrentKey(w) \in Keys /\ Current(w) \in Records
          /\ wreq[w] \in Seq(Records) /\ wreq[w] # <<>>
      BY <1>1, CurrentTyped DEF StoreRecord
    <2>2. /\ mem' = [mem EXCEPT ![active][CurrentKey(w)] = Append(@, Current(w))]
          /\ active' = active /\ lastdata' = lastdata
      BY <1>1, StoreUnraced DEF StoreRecord
    <2>3. CASE CurrentKey(w) = k
      <3>1. Stores(w, k)
        <4>1. wreq'[w] = Tail(wreq[w]) /\ wpc[w] = "store"
          BY <1>0, <1>1 DEF StoreRecord
        <4> QED
          BY <2>1, <2>3, <4>1, TailDiffers DEF Stores
      <3>2. mem'[active][k] = Append(mem[active][k], Current(w)) /\ mem[active][k] \in Seq(Records)
        BY <1>0, <2>1, <2>2, <2>3
      <3>3. mem'[active][k] # <<>> /\ Back(mem'[active][k]) = Current(w)
        BY <2>1, <3>2, BackAppended
      <3>4. LastPos(k)' = Current(w)
        BY <2>2, <3>3 DEF LastPos
      <3> QED
        BY <2>3, <3>1, <3>4
    <2>4. CASE CurrentKey(w) # k
      <3>1. mem'[active][k] = mem[active][k] /\ mem'[Other(active)] = mem[Other(active)]
        BY <1>0, <2>1, <2>2, <2>4
      <3> QED
        BY <2>2, <2>4, <3>1 DEF LastPos
    <2> QED
      BY <2>3, <2>4
  <1>2. ASSUME NEW w \in Writers, \A v \in Writers : ~StoreRecord(v) PROVE ~Stores(w, k)
    <2>1. CASE LoadFiles \/ InitStatistic \/ Crash \/ Core \/ LocusStep \/ AroundStep \/ LastStep
               \/ \E c \in Children : ChildFails(c)
      <3>1. wreq' = wreq \/ boot' = "down"
        BY <2>1 DEF LoadFiles, InitStatistic, Crash, Core, StartPass, BeginPass, SwapLog, SwapMem,
           JoinAndTruncate, LocusStep, AroundStep, LastStep, FinishScan, MemToLocusFile,
           MemToAroundFile, MemToLast, Visit, OpenLastFiles, WriteEachFile, WriteLastFile,
           ChildFails, writer
      <3> QED
        BY <3>1 DEF Stores
    <2>2. ASSUME NEW v \in Writers, WriterStep(v) PROVE ~Stores(w, k)
      BY <1>0, <1>2, <2>2 DEF WriterStep, Receive, WriteLog, Register, FindVector, Stores, TypeOK
    <2> QED
      BY <2>1, <2>2 DEF Next
  <1>3. CASE \E w \in Writers : StoreRecord(w)
    <2>1. PICK w \in Writers : StoreRecord(w)
      BY <1>3
    <2>2. \A v \in Writers : Stores(v, k) => v = w /\ CurrentKey(w) = k
      BY <1>0, <2>1 DEF StoreRecord, Stores
    <2> QED
      BY <1>1, <2>1, <2>2
  <1>4. ASSUME \A w \in Writers : ~StoreRecord(w) PROVE LastPos(k)' = LastPos(k)
    <2>1. CASE StartPass
      <3>1. /\ ppc = "wait" /\ active' = active /\ lastdata' = lastdata
            /\ mem' = [mem EXCEPT ![Other(active)] = Empty]
        BY <2>1 DEF StartPass, BeginPass, IdleMapCleared
      <3>2. mem'[active] = mem[active] /\ mem'[Other(active)][k] = <<>>
        BY <1>0, <3>1 DEF Empty
      <3>3. mem[Other(active)][k] # <<>> => lastdata[k] = Back(mem[Other(active)][k])
        BY <1>0, <3>1 DEF Moved, OlderLog
      <3> QED
        BY <3>1, <3>2, <3>3 DEF LastPos
    <2>2. CASE SwapMem
      <3>1. /\ ppc = "swapMem" /\ mem' = mem /\ lastdata' = lastdata /\ active' = Other(active)
        BY <2>2 DEF SwapMem, NextMap, StoreInv, Phases, PointersAgree
      <3>2. mem[Other(active)][k] = <<>> /\ Other(Other(active)) = active
        BY <1>0, <3>1, BufferFacts DEF OnceInv, IdleMapEmpty, Empty
      <3> QED
        BY <3>1, <3>2 DEF LastPos
    <2>3. ASSUME NEW l \in Keys, MemToLast(l) PROVE LastPos(k)' = LastPos(k)
      <3>1. /\ mem' = mem /\ active' = active /\ cpc["last"] = "scan" /\ mem[pmem][l] # <<>>
            /\ lastdata' = [lastdata EXCEPT ![l] = Back(mem[pmem][l])]
            /\ lastdata \in [Keys -> Records \cup {None}]
        BY <2>3 DEF MemToLast, Visit, TypeOK
      <3>2. pmem = Other(active)
        BY <1>0, <3>1, BufferFacts DEF StoreInv, Phases, Children
      <3> QED
        BY <3>1, <3>2 DEF LastPos
    <2>4. CASE mem' = mem /\ active' = active /\ lastdata' = lastdata
      BY <2>4 DEF LastPos
    <2>5. CASE LoadFiles \/ InitStatistic \/ Crash
      BY <2>4, <2>5 DEF LoadFiles, InitStatistic, Crash
    <2>6. ASSUME NEW w \in Writers, WriterStep(w) PROVE LastPos(k)' = LastPos(k)
      BY <1>4, <2>4, <2>6 DEF WriterStep, Receive, WriteLog, Register, FindVector, shared
    <2>7. CASE SwapLog \/ JoinAndTruncate
      BY <2>4, <2>7 DEF SwapLog, JoinAndTruncate, shared
    <2>8. CASE LocusStep \/ AroundStep
      BY <2>4, <2>8 DEF LocusStep, AroundStep, FinishScan, MemToLocusFile, MemToAroundFile,
         Visit, shared
    <2>9. CASE OpenLastFiles \/ WriteEachFile \/ WriteLastFile
      BY <2>4, <2>9 DEF OpenLastFiles, WriteEachFile, WriteLastFile, shared
    <2>10. ASSUME NEW c \in Children, ChildFails(c) PROVE LastPos(k)' = LastPos(k)
      BY <2>4, <2>10 DEF ChildFails, shared
    <2> QED
      BY <2>1, <2>2, <2>3, <2>5, <2>6, <2>7, <2>8, <2>9, <2>10 DEF Next, Core, LastStep
  <1> QED
    BY <1>2, <1>3, <1>4

(* A query that follows a store returns the record just stored, and no     *)
(* other step changes what a query of the device returns: clearing a map,  *)
(* swapping the two and moving last positions never take it back.          *)
THEOREM PositionsNeverRegress == Spec => LastPosNeverRegresses
  <1>1. Init => LastScanned /\ Moved
    BY DEF Init, LastScanned, Moved
  <1>2. LastScanned /\ Moved /\ (TypeOK /\ StoreInv) /\ [Next]_vars => LastScanned' /\ Moved'
    BY LastScannedNext, MovedNext
  <1>3. OnceInv /\ (TypeOK /\ StoreInv) /\ [Next]_vars => OnceInv'
    BY OnceNext
  <1> DEFINE Keeps == (boot = "up" /\ boot' = "up" /\ exempt' = {} /\ ~OlderLog) =>
                        \A k \in Keys :
                          /\ \A w \in Writers : Stores(w, k) => LastPos(k)' = Current(w)
                          /\ (\A w \in Writers : ~Stores(w, k)) => LastPos(k)' = LastPos(k)
  <1>4. OnceInv /\ Moved /\ (TypeOK /\ StoreInv) /\ [Next]_vars => [Keeps]_vars
    BY PositionKept
  <1>5. Spec => [][Keeps]_vars
    <2> HIDE DEF Keeps
    <2> QED
      BY <1>1, <1>2, <1>3, <1>4, OnceInit, InvCorrect, PTL DEF Spec
  <1> QED
    BY <1>5 DEF LastPosNeverRegresses
-----------------------------------------------------------------------------
(* Until the servers of a process that was never killed have started,      *)
(* nothing is stored anywhere.                                             *)
NothingYet ==
  /\ \A b \in Buffers : tempLog[b] = Empty /\ mem[b] = Empty
  /\ stored = {} /\ exempt = {}
  /\ statisticdata = Zero /\ bakData = Zero /\ eachFile = Zero
  /\ lastdata = Nowhere /\ lastFile = Nowhere
  /\ boot = "down" => active = 1
  /\ \A r \in Records : locus[r] = 0

FirstStart == crashes = 0 /\ boot # "up" => NothingYet

LEMMA FirstStartInit == Init => FirstStart
  BY DEF Init, FirstStart, NothingYet

(* A first start recovers nothing. *)
LEMMA FirstLoad ==
  ASSUME TypeOK, NothingYet, LoadFiles
  PROVE  /\ NothingYet'
         /\ mem' = mem /\ active' = active /\ lastdata' = lastdata
         /\ statisticdata' = statisticdata /\ bakData' = Zero /\ exempt' = exempt
  <1>1. /\ mem' = tempLog /\ active' = RecoveredBuffer /\ lastdata' = lastFile
        /\ statisticdata' = eachFile /\ boot' = "loaded" /\ boot = "down"
        /\ exempt' = exempt \cup Orphans /\ stored' = stored
        /\ tempLog' = tempLog /\ locus' = locus /\ eachFile' = eachFile /\ lastFile' = lastFile
        /\ bakData' = [k \in Keys |-> Len(tempLog[1][k]) + Len(tempLog[2][k])]
    BY DEF LoadFiles, RecoveredMaps, LastDataToMem, StatisticDataToMem, files
  <1>2. \A k \in Keys : tempLog[1][k] = <<>> /\ tempLog[2][k] = <<>>
    BY DEF NothingYet, Empty, Buffers
  <1>3. bakData' = Zero
    <2>1. ASSUME NEW k \in Keys PROVE Len(tempLog[1][k]) + Len(tempLog[2][k]) = 0
      <3> DEFINE m == Len(tempLog[1][k])
                 n == Len(tempLog[2][k])
      <3>1. m = 0 /\ n = 0
        BY <1>2
      <3> HIDE DEF m, n
      <3>2. m + n = 0
        BY <3>1
      <3> QED
        BY <3>2 DEF m, n
    <2> QED
      BY <1>1, <2>1 DEF Zero
  <1>4. RecoveredBuffer = 1
    BY DEF NothingYet, RecoveredBuffer, Buffers
  <1>5. Orphans = {}
    BY <1>2, <1>4, HeldEmpty, StoreAssumption DEF Orphans, InLog, Other
  <1>6. mem = tempLog
    BY DEF NothingYet, TypeOK
  <1> QED
    BY <1>1, <1>3, <1>4, <1>5, <1>6 DEF NothingYet

LEMMA FirstStartNext ==
  ASSUME TypeOK, StoreInv, FirstStart, [Next]_vars
  PROVE  FirstStart'
  <1> SUFFICES ASSUME crashes' = 0, boot' # "up" PROVE NothingYet'
    BY DEF FirstStart
  <1>0. /\ "locus" \in Children /\ "around" \in Children /\ "last" \in Children
        /\ crashes \in Nat /\ pmem \in Buffers /\ pfile \in Buffers
        /\ active \in Buffers /\ Other(active) \in Buffers
        /\ mem \in [Buffers -> [Keys -> Seq(Records)]]
        /\ tempLog \in [Buffers -> [Keys -> Seq(Records)]]
    BY StoreAssumption, BufferFacts DEF TypeOK, Children
  <1>1. CASE Crash
    <2>1. crashes' = crashes + 1
      BY <1>1 DEF Crash
    <2> QED
      BY <1>0, <2>1
  <1>2. ASSUME ~Crash PROVE crashes' = crashes /\ boot # "up" /\ NothingYet
    <2>1. CASE LoadFiles \/ InitStatistic \/ Core \/ LocusStep \/ AroundStep \/ LastStep
               \/ UNCHANGED vars
      BY <2>1 DEF LoadFiles, InitStatistic, Core, StartPass, BeginPass, SwapLog, SwapMem,
         JoinAndTruncate, LocusStep, AroundStep, LastStep, FinishScan, MemToLocusFile,
         MemToAroundFile, MemToLast, Visit, OpenLastFiles, WriteEachFile, WriteLastFile,
         FirstStart, vars, history, shared
    <2>2. ASSUME NEW w \in Writers, WriterStep(w) PROVE crashes' = crashes /\ boot' = boot
      BY <2>2 DEF WriterStep, Receive, WriteLog, Register, FindVector, StoreRecord, history
    <2>3. ASSUME NEW c \in Children, ChildFails(c) PROVE crashes' = crashes /\ boot' = boot
      BY <2>3 DEF ChildFails
    <2> QED
      BY <1>2, <2>1, <2>2, <2>3 DEF Next, FirstStart
  <1>3. CASE LoadFiles
    BY <1>2, <1>3, FirstLoad DEF LoadFiles, Crash
  <1>4. CASE InitStatistic
    BY <1>4 DEF InitStatistic
  <1>5. ASSUME NEW w \in Writers, WriterStep(w), ~Crash PROVE FALSE
    <2>1. boot = "up" /\ boot' = boot
      BY <1>5 DEF WriterStep, Receive, WriteLog, Register, FindVector, StoreRecord, FirstStep,
         StoreInv, Phases
    <2> QED
      BY <2>1
  <1>6. ASSUME ~Crash PROVE \A b \in Buffers, k \in Keys : mem[b][k] = <<>>
    BY <1>2, <1>6 DEF NothingYet, Empty
  <1>7. CASE StartPass
    <2>1. /\ mem' = [mem EXCEPT ![Other(active)] = Empty] /\ ~Crash
          /\ boot' = boot /\ boot # "down" /\ boot' # "down"
      BY <1>7 DEF StartPass, BeginPass, IdleMapCleared, Crash
    <2> QED
      BY <1>0, <1>2, <1>7, <2>1 DEF StartPass, BeginPass, NothingYet, files, history
  <1>8. CASE SwapLog \/ SwapMem
    <2>1. /\ ppc # "wait" /\ boot' = boot /\ ~Crash
      BY <1>8 DEF SwapLog, SwapMem, Crash, shared
    <2>2. boot # "down"
      BY <2>1 DEF StoreInv, Phases
    <2> QED
      BY <1>2, <1>8, <2>1, <2>2 DEF SwapLog, SwapMem, NothingYet, files, history
  <1>9. CASE JoinAndTruncate
    <2>1. boot' = boot /\ ~Crash /\ boot # "down"
      BY <1>9 DEF JoinAndTruncate, Crash, StoreInv, Phases
    <2> QED
      BY <1>0, <1>2, <1>9, <2>1 DEF JoinAndTruncate, NothingYet, shared, history
  <1>10. ASSUME NEW k \in Keys, MemToLocusFile(k) \/ MemToAroundFile(k) \/ MemToLast(k), ~Crash
         PROVE FALSE
    BY <1>0, <1>6, <1>10 DEF MemToLocusFile, MemToAroundFile, MemToLast, Visit
  <1>11. CASE FinishScan("locus") \/ FinishScan("around") \/ OpenLastFiles \/ WriteEachFile
              \/ WriteLastFile
    <2>1. /\ ~Crash /\ boot' = boot /\ tempLog' = tempLog /\ mem' = mem /\ active' = active
          /\ locus' = locus /\ bakData' = bakData /\ statisticdata' = statisticdata
          /\ lastdata' = lastdata /\ stored' = stored /\ exempt' = exempt
      BY <1>11 DEF FinishScan, OpenLastFiles, WriteEachFile, WriteLastFile, Crash, files, shared,
         history
    <2>2. lastFile' \in {lastFile, Nowhere, lastdata} /\ eachFile' \in {eachFile, Zero, statisticdata}
      BY <1>11 DEF FinishScan, OpenLastFiles, WriteEachFile, WriteLastFile, files
    <2> QED
      BY <1>2, <2>1, <2>2 DEF NothingYet
  <1>12. ASSUME NEW c \in Children, ChildFails(c), ~Crash PROVE NothingYet'
    <2>1. /\ boot' = boot /\ tempLog' = tempLog /\ mem' = mem /\ active' = active
          /\ locus' = locus /\ bakData' = bakData /\ statisticdata' = statisticdata
          /\ lastdata' = lastdata /\ stored' = stored
          /\ exempt' \in {exempt, exempt \cup Unvisited(c)}
          /\ lastFile' \in {lastFile, Nowhere} /\ eachFile' \in {eachFile, Zero}
      BY <1>12 DEF ChildFails, shared
    <2>2. Unvisited(c) = {}
      BY <1>0, <1>6, <1>12, HeldEmpty, StoreAssumption DEF Unvisited, InMap
    <2> QED
      BY <1>2, <1>12, <2>1, <2>2 DEF NothingYet
  <1>13. CASE UNCHANGED vars
    BY <1>2, <1>13 DEF NothingYet, vars, files, shared, history, Crash
  <1> QED
    BY <1>1, <1>3, <1>4, <1>5, <1>7, <1>8, <1>9, <1>10, <1>11, <1>12, <1>13
    DEF Next, Core, LocusStep, AroundStep, LastStep

(* The steps of the store are those of LiveMaps: a store, the three steps  *)
(* of a pass and a visit of its last child; the other steps show a reader  *)
(* of the maps nothing.                                                    *)
LEMMA StoreIsStore ==
  ASSUME TypeOK, StoreInv, OnceInv, NEW w \in Writers, StoreRecord(w)
  PROVE  Maps!Store(Current(w))
  <1>1. /\ CurrentKey(w) \in Keys /\ Current(w) \in Records /\ CurrentKey(w) = KeyOf[Current(w)]
        /\ wreq[w] \in Seq(Records) /\ wreq[w] # <<>>
    BY CurrentTyped DEF StoreRecord, CurrentKey
  <1>2. Current(w) \notin stored
    <2>1. InHand(w, Current(w))
      BY <1>1, HeadOnce DEF InHand, Current
    <2> QED
      BY <1>1, <2>1 DEF OnceInv, OnePlace
  <1>3. /\ stored' = stored \cup {Current(w)} /\ active' = active /\ lastdata' = lastdata
        /\ ppc' = ppc /\ must' = must /\ visited' = visited
    BY DEF StoreRecord, persist, child
  <1>4. \/ mem' = Maps!With(active, Current(w)) /\ exempt' = exempt
        \/ /\ mem' \in {mem, Maps!With(Other(active), Current(w)), Maps!With(active, Current(w))}
           /\ exempt' = exempt \cup {Current(w)}
    <2>1. CASE mem' = mem /\ exempt' = exempt \cup {Current(w)}
      BY <2>1
    <2>2. ASSUME NEW b \in Buffers, b \in {wfind[w], active},
                 mem' = [mem EXCEPT ![b][CurrentKey(w)] = Append(@, Current(w))],
                 exempt' = IF crossing[w] THEN exempt \cup {Current(w)} ELSE exempt
          PROVE  <1>4
      <3>1. mem' = Maps!With(b, Current(w))
        BY <1>1, <2>2 DEF Maps!With
      <3>2. b = active \/ (b = Other(active) /\ crossing[w])
        <4>1. ~crossing[w] => wfind[w] \in {NotFound, Dangling, active}
          BY DEF StoreInv, InFlight, StoreRecord
        <4> QED
          BY <2>2, <4>1, BufferFacts DEF TypeOK
      <3> QED
        BY <2>2, <3>1, <3>2
    <2> QED
      BY <2>1, <2>2, StoreMem
  <1>5. \/ mem' = Maps!With(active, Current(w)) /\ (exempt # {})' = (exempt # {})
        \/ /\ mem' \in {mem, Maps!With(Other(active), Current(w)), Maps!With(active, Current(w))}
           /\ (exempt # {})' = TRUE
    BY <1>4
  <1> QED
    BY <1>2, <1>3, <1>5 DEF Maps!Store, Maps!Other, Other, Progressing

LEMMA PassIsPass ==
  ASSUME TypeOK, StoreInv, LastScanned, Core
  PROVE  \/ Maps!BeginPass \/ Maps!SwapMem \/ Maps!EndPass
         \/ UNCHANGED Maps!maps
  <1>0. /\ active \in Buffers /\ pmem \in Buffers /\ "last" \in Children
        /\ \A b \in Buffers : Other(b) = 3 - b
    BY DEF TypeOK, Children, Other
  <1>1. CASE StartPass
    <2>1. /\ ppc = "wait" /\ ppc' = "swapLog" /\ mem' = [mem EXCEPT ![Other(active)] = Empty]
          /\ active' = active /\ lastdata' = lastdata /\ must' = must /\ visited' = visited
          /\ stored' = stored /\ exempt' = exempt
      BY <1>1 DEF StartPass, BeginPass, IdleMapCleared, child, history
    <2> QED
      BY <2>1 DEF Maps!BeginPass, Maps!Other, Other, Empty, Progressing
  <1>2. CASE SwapLog
    BY <1>2 DEF SwapLog, Progressing, Maps!maps, child, history
  <1>3. CASE SwapMem
    <2>1. /\ ppc = "swapMem" /\ ppc' = "join" /\ mem' = mem /\ active' = Other(active)
          /\ active = pmem /\ lastdata' = lastdata /\ visited'["last"] = {}
          /\ must' = {k \in Keys : mem[pmem][k] # <<>>}
          /\ stored' = stored /\ exempt' = exempt
      BY <1>0, <1>3 DEF SwapMem, NextMap, StoreInv, Phases, PointersAgree, history
    <2> QED
      BY <2>1 DEF Maps!SwapMem, Maps!Other, Maps!Held, Other, Progressing
  <1>4. CASE JoinAndTruncate
    <2>1. /\ ppc = "join" /\ ppc' = "wait" /\ mem' = mem /\ active' = active
          /\ lastdata' = lastdata /\ must' = must /\ visited' = visited
          /\ stored' = stored /\ exempt' = exempt /\ must \subseteq visited["last"]
      BY <1>0, <1>4 DEF JoinAndTruncate, ChildrenJoined, LastScanned, shared, child, history
    <2> QED
      BY <2>1 DEF Maps!EndPass, Progressing
  <1> QED
    BY <1>1, <1>2, <1>3, <1>4 DEF Core

LEMMA LastIsLast ==
  ASSUME TypeOK, StoreInv, NEW k \in Keys, MemToLast(k)
  PROVE  Maps!MemToLast(k)
  <1>1. /\ cpc["last"] = "scan" /\ k \notin visited["last"] /\ mem[pmem][k] # <<>>
        /\ visited'["last"] = visited["last"] \cup {k}
        /\ lastdata' = [lastdata EXCEPT ![k] = Back(mem[pmem][k])]
        /\ mem' = mem /\ active' = active /\ ppc' = ppc /\ must' = must
        /\ stored' = stored /\ exempt' = exempt
    BY DEF MemToLast, Visit, TypeOK, Children, persist, history
  <1>2. ppc = "join" /\ pmem = 3 - active
    BY <1>1, BufferFacts DEF StoreInv, Phases, Children, TypeOK, Other
  <1> QED
    BY <1>1, <1>2 DEF Maps!MemToLast, Maps!Other, Maps!Held, Maps!Back, Back, Progressing

LEMMA StepSeen ==
  ASSUME MaxCrashes = 0, MaxFails = 0,
         TypeOK, StoreInv, OnceInv, LastScanned, FirstStart, [Next]_vars
  PROVE  [Maps!MapsStep]_(Maps!maps)
  <1>0. /\ ~Crash /\ crashes = 0
        /\ \A c \in Children : ~ChildFails(c)
        /\ "last" \in Children
    BY DEF Crash, ChildFails, TypeOK, Children
  <1>1. CASE LoadFiles
    <2>1. NothingYet
      BY <1>0, <1>1 DEF FirstStart, LoadFiles
    <2>2. /\ mem' = mem /\ active' = active /\ lastdata' = lastdata /\ exempt' = exempt
          /\ stored' = stored /\ ppc' = ppc /\ must' = must /\ visited' = visited
      BY <1>1, <2>1, FirstLoad DEF LoadFiles, persist, child
    <2> QED
      BY <2>2 DEF Maps!maps, Progressing
  <1>2. ASSUME NEW w \in Writers, StoreRecord(w) PROVE [Maps!MapsStep]_(Maps!maps)
    <2>1. Current(w) \in Records
      BY <1>2, CurrentTyped DEF StoreRecord
    <2> QED
      BY <1>2, <2>1, StoreIsStore DEF Maps!MapsStep
  <1>3. CASE Core
    BY <1>3, PassIsPass DEF Maps!MapsStep
  <1>4. ASSUME NEW k \in Keys, MemToLast(k) PROVE [Maps!MapsStep]_(Maps!maps)
    BY <1>4, LastIsLast DEF Maps!MapsStep
  <1>5. CASE \/ InitStatistic \/ UNCHANGED vars
             \/ \E w \in Writers : Receive(w) \/ WriteLog(w) \/ Register(w) \/ FindVector(w)
             \/ LocusStep \/ AroundStep
             \/ OpenLastFiles \/ WriteEachFile \/ WriteLastFile
    <2>1. /\ mem' = mem /\ active' = active /\ lastdata' = lastdata /\ exempt' = exempt
          /\ stored' = stored /\ ppc' = ppc /\ must' = must /\ visited'["last"] = visited["last"]
      <3>1. CASE InitStatistic \/ UNCHANGED vars
        BY <3>1 DEF InitStatistic, vars, files, shared, writer, persist, child, history
      <3>2. CASE \E w \in Writers : Receive(w) \/ WriteLog(w) \/ Register(w) \/ FindVector(w)
        BY <3>2 DEF Receive, WriteLog, Register, FindVector, shared, persist, child, history
      <3>3. CASE LocusStep \/ AroundStep
        BY <1>0, <3>3 DEF LocusStep, AroundStep, FinishScan, MemToLocusFile, MemToAroundFile,
           Visit, TypeOK, shared, persist, history
      <3>4. CASE OpenLastFiles \/ WriteEachFile \/ WriteLastFile
        BY <3>4 DEF OpenLastFiles, WriteEachFile, WriteLastFile, shared, persist, history
      <3> QED
        BY <1>5, <3>1, <3>2, <3>3, <3>4
    <2> QED
      BY <2>1 DEF Maps!maps, Progressing
  <1> QED
    BY <1>0, <1>1, <1>2, <1>3, <1>4, <1>5 DEF Next, WriterStep, LastStep

(* Where no process is killed and no child fails, the store implements     *)
(* LiveMaps: a reader of the two maps and of m_lastdata sees records enter *)
(* the current map once, and each pass clear the idle map, swap, and move  *)
(* the position of every device of the retired map before it ends.         *)
THEOREM MapsSeen ==
  ASSUME MaxCrashes = 0, MaxFails = 0
  PROVE  Spec => MapsAsSeen
  <1>1. Init => LastScanned /\ FirstStart /\ Maps!Init
    <2> SUFFICES ASSUME Init PROVE LastScanned /\ Maps!Init
      BY FirstStartInit
    <2>1. visited["last"] = {}
      BY DEF Init, Children
    <2> QED
      BY <2>1 DEF Init, LastScanned, Maps!Init, Maps!Nowhere, Progressing, Buffers, Empty, Nowhere
  <1>2. LastScanned /\ (TypeOK /\ StoreInv) /\ [Next]_vars => LastScanned'
    BY LastScannedNext
  <1>3. FirstStart /\ (TypeOK /\ StoreInv) /\ [Next]_vars => FirstStart'
    BY FirstStartNext
  <1>4. OnceInv /\ (TypeOK /\ StoreInv) /\ [Next]_vars => OnceInv'
    BY OnceNext
  <1>5. OnceInv /\ LastScanned /\ FirstStart /\ (TypeOK /\ StoreInv) /\ [Next]_vars
          => [Maps!MapsStep]_(Maps!maps)
    BY StepSeen
  <1> QED
    BY <1>1, <1>2, <1>3, <1>4, <1>5, OnceInit, InvCorrect, PTL DEF Spec, MapsAsSeen, Maps!Spec
-----------------------------------------------------------------------------
(* The running total of a device counts each record once: in the moved     *)
(* statistics, in a retired vector not visited yet, in the current map, or *)
(* in the hands of a writer that has counted it and not stored it yet.     *)
Counted(w)   == wpc[w] \in {"find", "store"} \/ (w \notin BinaryWriters /\ wpc[w] = "log")
CountedAt(k) == {w \in Writers : Counted(w) /\ CurrentKey(w) = k}
AtWork(k)    == Cardinality(CountedAt(k))
InCurrent(k) == Len(mem[active][k])
Moving(c, k) == IF ppc = "join" /\ k \notin visited[c] THEN Len(mem[pmem][k]) ELSE 0

TotalsInv ==
  exempt = {} /\ crashes = 0 /\ boot = "up" =>
    \A k \in Keys :
      eachTotal[k] = statisticdata[k] + Moving("last", k) + InCurrent(k) + AtWork(k)

LEMMA LenEmpty == Len(<<>>) = 0
  OBVIOUS

LEMMA PartsTyped ==
  ASSUME TypeOK, NEW k \in Keys
  PROVE  /\ eachTotal[k] \in Nat /\ statisticdata[k] \in Nat
         /\ InCurrent(k) \in Nat /\ AtWork(k) \in Nat /\ IsFiniteSet(CountedAt(k))
         /\ \A c \in Children : Moving(c, k) \in Nat
  <1>1. CountedAt(k) \subseteq Writers
    BY DEF CountedAt
  <1>2. IsFiniteSet(CountedAt(k)) /\ Cardinality(CountedAt(k)) \in Nat
    BY <1>1, FewThreads, FS_Subset, FS_CardinalityType
  <1>3. mem[active][k] \in Seq(Records) /\ mem[pmem][k] \in Seq(Records)
    BY DEF TypeOK
  <1>4. Len(mem[active][k]) \in Nat /\ Len(mem[pmem][k]) \in Nat
    BY <1>3
  <1> QED
    BY <1>2, <1>4 DEF TypeOK, InCurrent, AtWork, Moving

(* Between the scan and the next pass nothing is left to move. *)
LEMMA NothingMoving ==
  ASSUME TypeOK, StoreInv, Moved, exempt = {}, NEW c \in Children, must \subseteq visited[c],
         NEW k \in Keys
  PROVE  Moving(c, k) = 0
  <1>1. ASSUME ppc = "join", k \notin visited[c] PROVE mem[pmem][k] = <<>>
    BY <1>1 DEF Moved, StoreInv, Phases
  <1> QED
    BY <1>1, LenEmpty DEF Moving

LEMMA CrashesKept == TypeOK /\ Next /\ crashes' = 0 => crashes = 0 /\ ~Crash
  <1> SUFFICES ASSUME TypeOK, Next, crashes' = 0 PROVE crashes = 0 /\ ~Crash
    OBVIOUS
  <1>1. ~Crash
    BY StoreAssumption DEF Crash, TypeOK
  <1>2. CASE LoadFiles \/ InitStatistic \/ Core \/ LocusStep \/ AroundStep \/ LastStep
    BY <1>1, <1>2 DEF LoadFiles, InitStatistic, Core, StartPass, BeginPass, SwapLog, SwapMem,
       JoinAndTruncate, LocusStep, AroundStep, LastStep, FinishScan, MemToLocusFile,
       MemToAroundFile, MemToLast, Visit, OpenLastFiles, WriteEachFile, WriteLastFile, history
  <1>3. ASSUME NEW w \in Writers, WriterStep(w) PROVE crashes' = crashes
    BY <1>3 DEF WriterStep, Receive, WriteLog, Register, FindVector, StoreRecord, history
  <1>4. ASSUME NEW c \in Children, ChildFails(c) PROVE crashes' = crashes
    BY <1>4 DEF ChildFails
  <1> QED
    BY <1>1, <1>2, <1>3, <1>4 DEF Next

(* The steps of a writer: its record joins the counted ones when it is     *)
(* registered, and leaves them for the current map when it is stored.      *)
LEMMA TotalsWriter ==
  ASSUME TypeOK, StoreInv, TotalsInv, NEW w \in Writers, WriterStep(w),
         exempt = {}, exempt' = {}, crashes = 0, NEW k \in Keys
  PROVE  eachTotal'[k] = statisticdata'[k] + Moving("last", k)' + InCurrent(k)' + AtWork(k)'
  <1>0. /\ eachTotal[k] \in Nat /\ statisticdata[k] \in Nat
        /\ InCurrent(k) \in Nat /\ AtWork(k) \in Nat /\ IsFiniteSet(CountedAt(k))
        /\ Moving("last", k) \in Nat
    BY PartsTyped DEF Children
  <1>1. boot = "up" /\ boot' = "up"
    BY DEF WriterStep, Receive, WriteLog, Register, FindVector, StoreRecord, StoreInv, Phases
  <1>2. eachTotal[k] = statisticdata[k] + Moving("last", k) + InCurrent(k) + AtWork(k)
    BY <1>1 DEF TotalsInv
  <1>3. /\ active \in Buffers /\ pmem \in Buffers
        /\ mem \in [Buffers -> [Keys -> Seq(Records)]] /\ wreq \in [Writers -> Seq(Records)]
        /\ wpc \in [Writers -> {"idle", "log", "register", "find", "store"}]
        /\ eachTotal \in [Keys -> Nat]
    BY DEF TypeOK
  <1>4. /\ statisticdata' = statisticdata /\ active' = active
        /\ ppc' = ppc /\ pmem' = pmem /\ visited' = visited
    BY DEF WriterStep, Receive, WriteLog, Register, FindVector, StoreRecord, shared, persist, child
  <1>5. CASE Receive(w) \/ WriteLog(w) \/ FindVector(w)
    <2>1. mem' = mem /\ eachTotal' = eachTotal
      BY <1>5 DEF Receive, WriteLog, FindVector, shared
    <2>2. CountedAt(k)' = CountedAt(k)
      <3>1. \A v \in Writers : v # w => wpc'[v] = wpc[v] /\ wreq'[v] = wreq[v]
        BY <1>3, <1>5 DEF Receive, WriteLog, FindVector
      <3>2. /\ Counted(w)' <=> Counted(w)
            /\ Counted(w) => wreq'[w] = wreq[w]
        BY <1>3, <1>5 DEF Receive, WriteLog, FindVector, Counted, FirstStep
      <3> QED
        BY <3>1, <3>2 DEF CountedAt, Counted, CurrentKey, Current
    <2>3. AtWork(k)' = AtWork(k) /\ InCurrent(k)' = InCurrent(k) /\ Moving("last", k)' = Moving("last", k)
      BY <1>4, <2>1, <2>2 DEF AtWork, InCurrent, Moving
    <2> QED
      BY <1>2, <1>4, <2>1, <2>3
  <1>6. CASE Register(w)
    <2>1. /\ mem' = mem /\ CurrentKey(w) \in Keys
          /\ eachTotal' = [eachTotal EXCEPT ![CurrentKey(w)] = @ + 1]
      BY <1>6, CurrentTyped DEF Register, CountOneMore
    <2>2. InCurrent(k)' = InCurrent(k) /\ Moving("last", k)' = Moving("last", k)
      BY <1>4, <2>1 DEF InCurrent, Moving
    <2>3. /\ CountedAt(k)' = IF CurrentKey(w) = k THEN CountedAt(k) \cup {w} ELSE CountedAt(k)
          /\ w \notin CountedAt(k)
      <3>1. /\ \A v \in Writers : v # w => wpc'[v] = wpc[v]
            /\ wreq' = wreq
            /\ ~Counted(w) /\ Counted(w)'
        BY <1>3, <1>6 DEF Register, Counted
      <3> QED
        BY <3>1 DEF CountedAt, Counted, CurrentKey, Current
    <2>4. AtWork(k)' = IF CurrentKey(w) = k THEN AtWork(k) + 1 ELSE AtWork(k)
      BY <1>0, <2>3, FS_AddElement DEF AtWork
    <2>5. eachTotal'[k] = IF CurrentKey(w) = k THEN eachTotal[k] + 1 ELSE eachTotal[k]
      BY <1>3, <2>1
    <2> QED
      BY <1>0, <1>2, <1>4, <2>2, <2>4, <2>5
  <1>7. CASE StoreRecord(w)
    <2>1. /\ eachTotal' = eachTotal /\ CurrentKey(w) \in Keys /\ Current(w) \in Records
          /\ mem' = [mem EXCEPT ![active][CurrentKey(w)] = Append(@, Current(w))]
      BY <1>7, CurrentTyped, StoreUnraced DEF StoreRecord
    <2>2. Moving("last", k)' = Moving("last", k)
      <3>1. ppc = "join" => pmem # active
        BY <1>3, BufferFacts DEF StoreInv, Phases
      <3>2. ppc = "join" => mem'[pmem] = mem[pmem]
        BY <1>3, <2>1, <3>1
      <3> QED
        BY <1>4, <3>2 DEF Moving
    <2>3. InCurrent(k)' = IF CurrentKey(w) = k THEN InCurrent(k) + 1 ELSE InCurrent(k)
      <3>1. mem'[active][k] = IF CurrentKey(w) = k THEN Append(mem[active][k], Current(w))
                                                   ELSE mem[active][k]
        BY <1>3, <2>1
      <3>2. Len(Append(mem[active][k], Current(w))) = Len(mem[active][k]) + 1
        BY <1>3, <2>1
      <3> QED
        BY <1>4, <3>1, <3>2 DEF InCurrent
    <2>4. /\ CountedAt(k)' = IF CurrentKey(w) = k THEN CountedAt(k) \ {w} ELSE CountedAt(k)
          /\ CurrentKey(w) = k => w \in CountedAt(k)
      <3>1. /\ \A v \in Writers : v # w => wpc'[v] = wpc[v] /\ wreq'[v] = wreq[v]
            /\ Counted(w) /\ ~Counted(w)'
        BY <1>3, <1>7 DEF StoreRecord, Counted, FirstStep
      <3> QED
        BY <3>1 DEF CountedAt, Counted, CurrentKey, Current
    <2>5. AtWork(k)' = IF CurrentKey(w) = k THEN AtWork(k) - 1 ELSE AtWork(k)
      BY <1>0, <2>4, FS_RemoveElement DEF AtWork
    <2> QED
      BY <1>0, <1>2, <1>4, <2>1, <2>2, <2>3, <2>5
  <1> QED
    BY <1>5, <1>6, <1>7 DEF WriterStep

LEMMA TotalsNext ==
  ASSUME TypeOK, StoreInv, OnceInv, LastScanned, Moved, FirstStart, TotalsInv, [Next]_vars
  PROVE  TotalsInv'
  <1> SUFFICES ASSUME exempt' = {}, crashes' = 0, boot' = "up", NEW k \in Keys
               PROVE  eachTotal'[k] = statisticdata'[k] + Moving("last", k)' + InCurrent(k)'
                                      + AtWork(k)'
    BY DEF TotalsInv
  <1> DEFINE Total == eachTotal[k] = statisticdata[k] + Moving("last", k) + InCurrent(k) + AtWork(k)
  <1>0. /\ exempt = {} /\ active \in Buffers /\ Other(active) \in Buffers
        /\ Other(active) # active /\ pmem \in Buffers /\ "last" \in Children
        /\ mem \in [Buffers -> [Keys -> Seq(Records)]]
        /\ statisticdata \in [Keys -> Nat] /\ visited \in [Children -> SUBSET Keys]
    <2>1. exempt = {}
      BY ExemptGrows
    <2> QED
      BY <2>1, BufferFacts DEF TypeOK, Children
  <1>1. /\ eachTotal[k] \in Nat /\ statisticdata[k] \in Nat
        /\ InCurrent(k) \in Nat /\ AtWork(k) \in Nat /\ Moving("last", k) \in Nat
    BY <1>0, PartsTyped
  <1>2. CASE UNCHANGED vars
    <2>1. /\ exempt' = exempt /\ crashes' = crashes /\ boot' = boot /\ eachTotal' = eachTotal
          /\ statisticdata' = statisticdata /\ ppc' = ppc /\ pmem' = pmem /\ visited' = visited
          /\ mem' = mem /\ active' = active /\ wpc' = wpc /\ wreq' = wreq
      BY <1>2 DEF vars, shared, writer, persist, child, history
    <2>2. Total
      BY <2>1 DEF TotalsInv
    <2> QED
      BY <2>1, <2>2 DEF Moving, InCurrent, AtWork, CountedAt, Counted, CurrentKey, Current
  <1>3. CASE LoadFiles
    BY <1>3 DEF LoadFiles
  <1>4. CASE InitStatistic
    <2>1. NothingYet
      BY <1>4 DEF InitStatistic, FirstStart, history
    <2>2. /\ eachTotal' = [l \in Keys |-> statisticdata[l] + bakData[l]]
          /\ statisticdata' = statisticdata /\ mem' = mem /\ active' = active
          /\ ppc' = ppc /\ pmem' = pmem /\ visited' = visited /\ wpc' = wpc /\ wreq' = wreq
          /\ \A w \in Writers : wpc[w] = "idle"
      BY <1>4 DEF InitStatistic, StoreInv, Phases, writer, persist, child
    <2>3. eachTotal'[k] = 0 /\ statisticdata'[k] = 0
      BY <2>1, <2>2 DEF NothingYet, Zero
    <2>4. \A b \in Buffers : mem[b][k] = <<>>
      BY <2>1 DEF NothingYet, Empty
    <2>5. Moving("last", k)' = 0 /\ InCurrent(k)' = 0
      BY <1>0, <2>2, <2>4, LenEmpty DEF Moving, InCurrent
    <2>6. AtWork(k)' = 0
      <3>1. CountedAt(k)' = {}
        BY <2>2 DEF CountedAt, Counted
      <3> QED
        BY <3>1, FS_EmptySet DEF AtWork
    <2> QED
      BY <2>3, <2>5, <2>6
  <1>5. CASE Crash
    BY <1>5 DEF Crash
  <1>6. ASSUME NEW w \in Writers, WriterStep(w)
        PROVE  eachTotal'[k] = statisticdata'[k] + Moving("last", k)' + InCurrent(k)' + AtWork(k)'
    BY <1>0, <1>6, CrashesKept, TotalsWriter DEF Next
  <1>7. CASE Core \/ LocusStep \/ AroundStep \/ LastStep \/ \E c \in Children : ChildFails(c)
    <2>1. boot' = boot /\ eachTotal' = eachTotal /\ wpc' = wpc /\ wreq' = wreq /\ crashes = 0
      <3>1. crashes = 0
        BY <1>7, CrashesKept DEF Next
      <3>2. boot' = boot /\ eachTotal' = eachTotal /\ wpc' = wpc /\ wreq' = wreq
        BY <1>7 DEF Core, StartPass, BeginPass, SwapLog, SwapMem, JoinAndTruncate, LocusStep,
           AroundStep, LastStep, FinishScan, MemToLocusFile, MemToAroundFile, MemToLast, Visit,
           OpenLastFiles, WriteEachFile, WriteLastFile, ChildFails, shared, writer
      <3> QED
        BY <3>1, <3>2
    <2>2. Total /\ AtWork(k)' = AtWork(k) /\ eachTotal'[k] = eachTotal[k]
      BY <1>0, <2>1 DEF TotalsInv, AtWork, CountedAt, Counted, CurrentKey, Current
    <2>3. CASE StartPass
      <3>1. /\ ppc = "wait" /\ ppc' = "swapLog" /\ active' = active
            /\ statisticdata' = statisticdata /\ mem'[active] = mem[active]
        BY <1>0, <2>3 DEF StartPass, BeginPass, IdleMapCleared
      <3> QED
        BY <2>2, <3>1 DEF Moving, InCurrent
    <2>4. CASE SwapLog
      BY <2>2, <2>4 DEF SwapLog, Moving, InCurrent
    <2>5. CASE SwapMem
      <3>1. /\ ppc = "swapMem" /\ ppc' = "join" /\ active = pmem /\ pmem' = pmem
            /\ active' = Other(active) /\ mem' = mem /\ statisticdata' = statisticdata
            /\ visited'["last"] = {}
        BY <1>0, <2>5 DEF SwapMem, NextMap, StoreInv, Phases, PointersAgree
      <3>2. mem[Other(active)][k] = <<>>
        BY <3>1 DEF OnceInv, IdleMapEmpty, Empty
      <3>3. /\ Moving("last", k) = 0 /\ Moving("last", k)' = InCurrent(k)
            /\ InCurrent(k)' = 0
        BY <3>1, <3>2, LenEmpty DEF Moving, InCurrent
      <3> QED
        BY <1>1, <2>2, <3>1, <3>3
    <2>6. CASE JoinAndTruncate
      <3>1. /\ ppc' = "wait" /\ active' = active /\ mem' = mem /\ statisticdata' = statisticdata
            /\ must \subseteq visited["last"]
        BY <1>0, <2>6 DEF JoinAndTruncate, ChildrenJoined, LastScanned, shared
      <3>2. Moving("last", k) = 0 /\ Moving("last", k)' = 0 /\ InCurrent(k)' = InCurrent(k)
        BY <1>0, <3>1, NothingMoving DEF Moving, InCurrent
      <3> QED
        BY <1>1, <2>2, <3>1, <3>2
    <2>7. CASE LocusStep \/ AroundStep \/ OpenLastFiles \/ WriteEachFile \/ WriteLastFile
               \/ \E c \in Children : ChildFails(c)
      <3>1. /\ ppc' = ppc /\ pmem' = pmem /\ active' = active /\ mem' = mem
            /\ statisticdata' = statisticdata /\ visited'["last"] = visited["last"]
        <4>1. CASE LocusStep \/ AroundStep
          BY <1>0, <4>1 DEF LocusStep, AroundStep, FinishScan, MemToLocusFile, MemToAroundFile,
             Visit, shared, persist
        <4>2. CASE OpenLastFiles \/ WriteEachFile \/ WriteLastFile
          BY <4>2 DEF OpenLastFiles, WriteEachFile, WriteLastFile, shared, persist
        <4>3. ASSUME NEW c \in Children, ChildFails(c) PROVE <3>1
          BY <4>3 DEF ChildFails, shared, persist
        <4> QED
          BY <2>7, <4>1, <4>2, <4>3
      <3> QED
        BY <2>2, <3>1 DEF Moving, InCurrent
    <2>8. ASSUME NEW l \in Keys, MemToLast(l)
          PROVE  eachTotal'[k] = statisticdata'[k] + Moving("last", k)' + InCurrent(k)' + AtWork(k)'
      <3>1. /\ ppc' = ppc /\ pmem' = pmem /\ active' = active /\ mem' = mem
            /\ statisticdata' = [statisticdata EXCEPT ![l] = @ + Len(mem[pmem][l])]
            /\ visited'["last"] = visited["last"] \cup {l} /\ l \notin visited["last"]
            /\ cpc["last"] = "scan"
        BY <1>0, <2>8 DEF MemToLast, Visit, CountMore, persist
      <3>2. InCurrent(k)' = InCurrent(k) /\ ppc = "join"
        BY <1>0, <3>1 DEF InCurrent, StoreInv, Phases
      <3>3. CASE k = l
        <4>1. Moving("last", k) = Len(mem[pmem][k]) /\ Moving("last", k)' = 0
          BY <3>1, <3>2, <3>3 DEF Moving
        <4>2. statisticdata'[k] = statisticdata[k] + Moving("last", k)
          BY <1>0, <3>1, <3>3, <4>1
        <4> QED
          BY <1>1, <2>2, <3>2, <4>1, <4>2
      <3>4. CASE k # l
        BY <1>0, <2>2, <3>1, <3>2, <3>4 DEF Moving
      <3> QED
        BY <3>3, <3>4
    <2> QED
      BY <1>7, <2>3, <2>4, <2>5, <2>6, <2>7, <2>8 DEF Core, LastStep
  <1> QED
    BY <1>2, <1>3, <1>4, <1>5, <1>6, <1>7 DEF Next

LEMMA SettledInit == Init => LastScanned /\ Moved /\ FirstStart /\ TotalsInv
  BY FirstStartInit DEF Init, LastScanned, Moved, TotalsInv

LEMMA SettledNext ==
  ASSUME TypeOK, StoreInv, OnceInv, LastScanned, Moved, FirstStart, TotalsInv, [Next]_vars
  PROVE  OnceInv' /\ LastScanned' /\ Moved' /\ FirstStart' /\ TotalsInv'
  BY OnceNext, LastScannedNext, MovedNext, FirstStartNext, TotalsNext

(* Whenever no writer and no child is at work, the running total of a      *)
(* device is what the passes counted plus what the current map holds: no   *)
(* record is counted twice or missed, whatever passes ran meanwhile.       *)
THEOREM TotalsCount == Spec => []TotalsAgree
  <1> DEFINE Inv == OnceInv /\ LastScanned /\ Moved /\ FirstStart /\ TotalsInv
  <1>1. Init => Inv
    BY OnceInit, SettledInit
  <1>2. Inv /\ (TypeOK /\ StoreInv) /\ [Next]_vars => Inv'
    BY SettledNext
  <1>3. Inv /\ (TypeOK /\ StoreInv) => TotalsAgree
    <2> SUFFICES ASSUME Inv, TypeOK, StoreInv, boot = "up", exempt = {}, crashes = 0,
                        \A w \in Writers : wpc[w] = "idle",
                        \A c \in Children : cpc[c] = "idle", NEW k \in Keys
                 PROVE  eachTotal[k] = statisticdata[k] + Len(mem[active][k])
      BY DEF TotalsAgree
    <2>1. AtWork(k) = 0
      <3>1. CountedAt(k) = {}
        BY DEF CountedAt, Counted
      <3> QED
        BY <3>1, FS_EmptySet DEF AtWork
    <2>2. Moving("last", k) = 0
      <3>1. CASE ppc = "join"
        BY <3>1, NothingMoving DEF LastScanned, Children
      <3>2. CASE ppc # "join"
        BY <3>2 DEF Moving
      <3> QED
        BY <3>1, <3>2
    <2>3. statisticdata[k] \in Nat /\ InCurrent(k) \in Nat
      BY PartsTyped
    <2>4. eachTotal[k] = statisticdata[k] + Moving("last", k) + InCurrent(k) + AtWork(k)
      BY DEF TotalsInv
    <2>5. eachTotal[k] = statisticdata[k] + InCurrent(k)
      BY <2>1, <2>2, <2>3, <2>4
    <2> QED
      BY <2>5 DEF InCurrent
  <1> HIDE DEF Inv
  <1> QED
    BY <1>1, <1>2, <1>3, InvCorrect, PTL DEF Spec
-----------------------------------------------------------------------------
(* The locus files and the statistics are two counts of the same records:  *)
(* a vector is in one of them, in both or still to be counted in either.   *)
LocusOf(k) == {r \in Records : KeyOf[r] = k /\ locus[r] > 0}

LocusScanned == ppc = "join" /\ fails = 0 /\ cpc["locus"] # "scan" => must \subseteq visited["locus"]

MapsNoRepeat ==
  exempt = {} /\ crashes = 0 => \A b \in Buffers, k \in Keys : NoRepeat(mem[b][k])

StatisticsInv ==
  exempt = {} /\ crashes = 0 /\ fails = 0 =>
    \A k \in Keys :
      /\ IsFiniteSet(LocusOf(k))
      /\ statisticdata[k] + Moving("last", k) = Cardinality(LocusOf(k)) + Moving("locus", k)

LEMMA AppendNoRepeat ==
  ASSUME NEW S, NEW s \in Seq(S), NEW x \in S, NoRepeat(s), x \notin Held(s)
  PROVE  NoRepeat(Append(s, x))
  <1> DEFINE n == Len(s)
  <1>1. /\ n \in Nat /\ DOMAIN s = 1 .. n /\ DOMAIN Append(s, x) = 1 .. n + 1
        /\ \A i \in 1 .. n : Append(s, x)[i] = s[i]
        /\ Append(s, x)[n + 1] = x
    OBVIOUS
  <1>2. \A i \in 1 .. n : s[i] # x
    BY <1>1 DEF Held
  <1> HIDE DEF n
  <1>3. \A i \in 1 .. n + 1 : i = n + 1 \/ i \in 1 .. n
    BY <1>1
  <1> QED
    BY <1>1, <1>2, <1>3 DEF NoRepeat

LEMMA HeldCount ==
  ASSUME NEW S, NEW s \in Seq(S), NoRepeat(s)
  PROVE  IsFiniteSet(Held(s)) /\ Cardinality(Held(s)) = Len(s)
  <1> DEFINE n == Len(s)
             f == [i \in 1 .. n |-> s[i]]
  <1>1. n \in Nat /\ DOMAIN s = 1 .. n
    OBVIOUS
  <1>2. IsFiniteSet(1 .. n) /\ Cardinality(1 .. n) = n
    <2>1. IsFiniteSet(1 .. n) /\ Cardinality(1 .. n) = IF 1 > n THEN 0 ELSE n - 1 + 1
      BY <1>1, FS_Interval
    <2> HIDE DEF n
    <2> QED
      BY <1>1, <2>1
  <1> HIDE DEF n
  <1>3. f \in Bijection(1 .. n, Held(s))
    <2>1. f \in [1 .. n -> Held(s)]
      BY <1>1 DEF Held
    <2>2. \A i, j \in 1 .. n : f[i] = f[j] => i = j
      BY <1>1 DEF NoRepeat
    <2>3. \A x \in Held(s) : \E i \in 1 .. n : f[i] = x
      BY <1>1 DEF Held
    <2> HIDE DEF f
    <2> QED
      BY <2>1, <2>2, <2>3 DEF Bijection, Injection, Surjection, IsInjective
  <1>4. ExistsBijection(1 .. n, Held(s))
    BY <1>3 DEF ExistsBijection
  <1>5. IsFiniteSet(Held(s)) /\ Cardinality(Held(s)) = Cardinality(1 .. n)
    BY <1>2, <1>4, FS_Bijection
  <1> QED
    BY <1>2, <1>5 DEF n

LEMMA LocusScannedNext ==
  ASSUME TypeOK, LocusScanned, [Next]_vars
  PROVE  LocusScanned'
  <1>0. /\ "locus" \in Children /\ "around" \in Children /\ "last" \in Children
        /\ cpc \in [Children -> {"idle", "scan", "writeEach", "writeLast"}]
        /\ visited \in [Children -> SUBSET Keys] /\ fails \in Nat
    BY StoreAssumption DEF TypeOK, Children
  <1>1. CASE LoadFiles \/ InitStatistic \/ Crash
    BY <1>1 DEF LoadFiles, InitStatistic, Crash, LocusScanned, persist, child, history
  <1>2. ASSUME NEW w \in Writers, WriterStep(w) PROVE LocusScanned'
    BY <1>2 DEF WriterStep, Receive, WriteLog, Register, FindVector, StoreRecord, LocusScanned,
       persist, child, history
  <1>3. CASE Core
    BY <1>0, <1>3 DEF Core, StartPass, BeginPass, SwapLog, SwapMem, JoinAndTruncate, LocusScanned,
       child, history
  <1>4. CASE LocusStep \/ AroundStep
    BY <1>0, <1>4 DEF LocusStep, AroundStep, FinishScan, Scanned, MemToLocusFile, MemToAroundFile,
       Visit, LocusScanned, persist, history
  <1>5. CASE LastStep
    BY <1>0, <1>5 DEF LastStep, MemToLast, Visit, OpenLastFiles, WriteEachFile,
       WriteLastFile, LocusScanned, persist, history
  <1>6. ASSUME NEW c \in Children, ChildFails(c) PROVE LocusScanned'
    <2>1. fails' # 0
      BY <1>0, <1>6 DEF ChildFails
    <2> QED
      BY <2>1 DEF LocusScanned
  <1>7. CASE UNCHANGED vars
    BY <1>7 DEF LocusScanned, vars, persist, child, history
  <1> QED
    BY <1>1, <1>2, <1>3, <1>4, <1>5, <1>6, <1>7 DEF Next

LEMMA MapsNoRepeatNext ==
  ASSUME TypeOK, StoreInv, OnceInv, FirstStart, MapsNoRepeat, [Next]_vars
  PROVE  MapsNoRepeat'
  <1> SUFFICES ASSUME exempt' = {}, crashes' = 0, NEW b \in Buffers, NEW k \in Keys
               PROVE  NoRepeat(mem'[b][k])
    BY DEF MapsNoRepeat
  <1>0. exempt = {} /\ active \in Buffers /\ mem \in [Buffers -> [Keys -> Seq(Records)]]
    <2>1. exempt = {}
      BY ExemptGrows
    <2> QED
      BY <2>1 DEF TypeOK
  <1>1. CASE UNCHANGED vars
    BY <1>0, <1>1 DEF MapsNoRepeat, vars, shared, history
  <1>2. CASE Next
    <2>1. crashes = 0 /\ ~Crash /\ NoRepeat(mem[b][k])
      BY <1>0, <1>2, CrashesKept DEF MapsNoRepeat
    <2>2. CASE LoadFiles
      BY <2>1, <2>2, FirstLoad DEF FirstStart, LoadFiles
    <2>3. ASSUME NEW w \in Writers, StoreRecord(w) PROVE NoRepeat(mem'[b][k])
      <3>1. /\ Current(w) \in Records /\ CurrentKey(w) \in Keys
            /\ CurrentKey(w) = KeyOf[Current(w)] /\ wreq[w] \in Seq(Records) /\ wreq[w] # <<>>
            /\ mem' = [mem EXCEPT ![active][CurrentKey(w)] = Append(@, Current(w))]
        BY <2>3, CurrentTyped, StoreUnraced DEF StoreRecord, CurrentKey
      <3>2. InHand(w, Current(w))
        BY <3>1, HeadOnce DEF InHand, Current
      <3>3. Current(w) \notin Held(mem[active][CurrentKey(w)])
        BY <3>1, <3>2 DEF OnceInv, OnePlace, InMap
      <3>4. CASE b = active /\ k = CurrentKey(w)
        <4>1. mem'[b][k] = Append(mem[b][k], Current(w)) /\ mem[b][k] \in Seq(Records)
          BY <1>0, <3>1, <3>4
        <4> QED
          BY <2>1, <3>1, <3>3, <3>4, <4>1, AppendNoRepeat
      <3>5. CASE ~(b = active /\ k = CurrentKey(w))
        <4>1. mem'[b][k] = mem[b][k]
          BY <1>0, <3>1, <3>5
        <4> QED
          BY <2>1, <4>1
      <3> QED
        BY <3>4, <3>5
    <2>4. CASE StartPass
      <3>1. mem'[b][k] = mem[b][k] \/ mem'[b][k] = <<>>
        BY <1>0, <2>4 DEF StartPass, BeginPass, IdleMapCleared, Empty
      <3> QED
        BY <2>1, <3>1, EmptySeq DEF NoRepeat
    <2>5. CASE InitStatistic \/ SwapLog \/ SwapMem \/ JoinAndTruncate
               \/ LocusStep \/ AroundStep \/ LastStep
      <3>1. mem' = mem
        BY <2>5 DEF InitStatistic, SwapLog, SwapMem, JoinAndTruncate, LocusStep, AroundStep,
           LastStep, FinishScan, MemToLocusFile, MemToAroundFile, MemToLast, Visit, OpenLastFiles,
           WriteEachFile, WriteLastFile, shared
      <3> QED
        BY <2>1, <3>1
    <2>6. ASSUME NEW w \in Writers, Receive(w) \/ WriteLog(w) \/ Register(w) \/ FindVector(w)
          PROVE  NoRepeat(mem'[b][k])
      BY <2>1, <2>6 DEF Receive, WriteLog, Register, FindVector, shared
    <2>7. ASSUME NEW c \in Children, ChildFails(c) PROVE NoRepeat(mem'[b][k])
      BY <2>1, <2>7 DEF ChildFails, shared
    <2> QED
      BY <1>2, <2>1, <2>2, <2>3, <2>4, <2>5, <2>6, <2>7 DEF Next, WriterStep, Core
  <1> QED
    BY <1>1, <1>2

(* The visit of the locus child: it files a vector of records none of      *)
(* which was filed before, and the others keep their counts.               *)
LEMMA LocusVisitCounts ==
  ASSUME TypeOK, StoreInv, OnceInv, MapsNoRepeat, exempt = {}, crashes = 0,
         NEW l \in Keys, MemToLocusFile(l), NEW k \in Keys, IsFiniteSet(LocusOf(k))
  PROVE  /\ IsFiniteSet(LocusOf(k))'
         /\ Cardinality(LocusOf(k))' + Moving("locus", k)'
              = Cardinality(LocusOf(k)) + Moving("locus", k)
  <1> DEFINE s == mem[pmem][l]
  <1>1. /\ cpc["locus"] = "scan" /\ l \notin visited["locus"] /\ locus' = Add(locus, s)
        /\ visited'["locus"] = visited["locus"] \cup {l} /\ ppc' = ppc /\ pmem' = pmem
        /\ mem' = mem /\ s \in Seq(Records) /\ locus \in [Records -> Nat] /\ pmem \in Buffers
    BY DEF MemToLocusFile, Visit, TypeOK, Children, persist
  <1>2. ppc = "join"
    BY <1>1 DEF StoreInv, Phases, Children
  <1>3. /\ IsFiniteSet(Held(s)) /\ Cardinality(Held(s)) = Len(s) /\ Len(s) \in Nat
    <2>1. NoRepeat(s)
      BY <1>1 DEF MapsNoRepeat
    <2> HIDE DEF s
    <2> QED
      BY <1>1, <2>1, HeldCount
  <1>4. \A r \in Held(s) : r \in Records /\ KeyOf[r] = l /\ locus[r] = 0
    <2> SUFFICES ASSUME NEW r \in Held(s) PROVE r \in Records /\ KeyOf[r] = l /\ locus[r] = 0
      OBVIOUS
    <2>1. r \in Records
      BY <1>1 DEF Held
    <2>2. KeyOf[r] = l
      BY <1>1 DEF OnceInv, Placed
    <2>3. ToCome(r, "locus")
      BY <1>1, <1>2, <2>2 DEF ToCome, Retired, InMap
    <2>4. locus[r] <= 0 /\ locus[r] \in Nat
      BY <1>1, <2>1, <2>3 DEF OnceInv, FiledOnce
    <2> QED
      BY <2>1, <2>2, <2>4
  <1> HIDE DEF s
  <1>5. \A r \in Records : locus'[r] > 0 <=> locus[r] > 0 \/ r \in Held(s)
    BY <1>1 DEF Add
  <1>6. CASE k = l
    <2>1. LocusOf(k)' = LocusOf(k) \cup Held(s) /\ LocusOf(k) \cap Held(s) = {}
      BY <1>4, <1>5, <1>6 DEF LocusOf
    <2>2. /\ IsFiniteSet(LocusOf(k)')
          /\ Cardinality(LocusOf(k)') = Cardinality(LocusOf(k)) + Len(s)
      <3>1. /\ IsFiniteSet(LocusOf(k) \cup Held(s))
            /\ Cardinality(LocusOf(k) \cup Held(s))
                 = Cardinality(LocusOf(k)) + Cardinality(Held(s)) - Cardinality({})
        BY <1>3, <2>1, FS_Union
      <3>2. Cardinality({}) = 0 /\ Cardinality(LocusOf(k)) \in Nat
        BY FS_EmptySet, FS_CardinalityType
      <3> QED
        BY <1>3, <2>1, <3>1, <3>2
    <2>3. Moving("locus", k) = Len(s) /\ Moving("locus", k)' = 0
      BY <1>1, <1>2, <1>6 DEF Moving, s
    <2>4. Cardinality(LocusOf(k)) \in Nat
      BY FS_CardinalityType
    <2> QED
      BY <1>3, <2>2, <2>3, <2>4
  <1>7. CASE k # l
    <2>1. LocusOf(k)' = LocusOf(k)
      BY <1>4, <1>5, <1>7 DEF LocusOf
    <2>2. Moving("locus", k)' = Moving("locus", k)
      BY <1>1, <1>7 DEF Moving
    <2> QED
      BY <2>1, <2>2
  <1> QED
    BY <1>6, <1>7

LEMMA StatisticsNext ==
  ASSUME TypeOK, StoreInv, OnceInv, LastScanned, Moved, FirstStart, LocusScanned, MapsNoRepeat,
         StatisticsInv, [Next]_vars
  PROVE  StatisticsInv'
  <1> DEFINE Agree(k) == /\ IsFiniteSet(LocusOf(k))
                         /\ statisticdata[k] + Moving("last", k)
                              = Cardinality(LocusOf(k)) + Moving("locus", k)
  <1> SUFFICES ASSUME exempt' = {}, crashes' = 0, fails' = 0, NEW k \in Keys
               PROVE  Agree(k)'
    BY DEF StatisticsInv
  <1>0. /\ exempt = {} /\ active \in Buffers /\ Other(active) \in Buffers
        /\ pmem \in Buffers /\ "last" \in Children /\ "locus" \in Children
        /\ mem \in [Buffers -> [Keys -> Seq(Records)]] /\ fails \in Nat
        /\ statisticdata \in [Keys -> Nat] /\ visited \in [Children -> SUBSET Keys]
    <2>1. exempt = {}
      BY ExemptGrows
    <2>2. fails \in Nat
      BY StoreAssumption DEF TypeOK
    <2> QED
      BY <2>1, <2>2, BufferFacts DEF TypeOK, Children
  <1>1. CASE UNCHANGED vars
    <2>1. /\ exempt' = exempt /\ crashes' = crashes /\ fails' = fails /\ locus' = locus
          /\ statisticdata' = statisticdata /\ ppc' = ppc /\ pmem' = pmem /\ visited' = visited
          /\ mem' = mem
      BY <1>1 DEF vars, files, shared, persist, child, history
    <2>2. Agree(k)
      BY <2>1 DEF StatisticsInv
    <2> QED
      BY <2>1, <2>2 DEF Moving, LocusOf
  <1>2. CASE Next
    <2>1. crashes = 0 /\ ~Crash /\ \A c \in Children : ~ChildFails(c)
      <3>1. crashes = 0 /\ ~Crash
        BY <1>2, CrashesKept
      <3>2. \A c \in Children : ChildFails(c) => fails' # 0
        BY <1>0 DEF ChildFails
      <3> QED
        BY <3>1, <3>2
    <2>2. fails = 0
      <3>1. CASE LoadFiles \/ InitStatistic \/ Core \/ LocusStep \/ AroundStep \/ LastStep
        BY <3>1 DEF LoadFiles, InitStatistic, Core, StartPass, BeginPass, SwapLog, SwapMem,
           JoinAndTruncate, LocusStep, AroundStep, LastStep, FinishScan, MemToLocusFile,
           MemToAroundFile, MemToLast, Visit, OpenLastFiles, WriteEachFile, WriteLastFile, history
      <3>2. ASSUME NEW w \in Writers, WriterStep(w) PROVE fails = 0
        BY <3>2 DEF WriterStep, Receive, WriteLog, Register, FindVector, StoreRecord, history
      <3> QED
        BY <1>2, <2>1, <3>1, <3>2 DEF Next
    <2>3. Agree(k)
      BY <1>0, <2>1, <2>2 DEF StatisticsInv
    <2>4. /\ statisticdata[k] \in Nat /\ Moving("last", k) \in Nat /\ Moving("locus", k) \in Nat
          /\ Cardinality(LocusOf(k)) \in Nat
      BY <1>0, <2>3, PartsTyped, FS_CardinalityType
    <2>5. CASE LoadFiles
      <3>1. ppc = "wait" /\ ppc' = ppc /\ locus' = locus /\ statisticdata' = statisticdata
        BY <2>1, <2>5, FirstLoad DEF FirstStart, LoadFiles, StoreInv, Phases, files, persist
      <3> QED
        BY <2>3, <3>1 DEF Moving, LocusOf
    <2>6. CASE InitStatistic \/ \E w \in Writers : Receive(w) \/ WriteLog(w) \/ Register(w)
                                                    \/ FindVector(w)
      <3>1. /\ ppc' = ppc /\ pmem' = pmem /\ mem' = mem /\ visited' = visited /\ locus' = locus
            /\ statisticdata' = statisticdata
        BY <2>6 DEF InitStatistic, Receive, WriteLog, Register, FindVector, files, shared,
           persist, child
      <3> QED
        BY <2>3, <3>1 DEF Moving, LocusOf
    <2>7. ASSUME NEW w \in Writers, StoreRecord(w) PROVE Agree(k)'
      <3>1. /\ ppc' = ppc /\ pmem' = pmem /\ visited' = visited /\ locus' = locus
            /\ statisticdata' = statisticdata
            /\ mem' = [mem EXCEPT ![active][CurrentKey(w)] = Append(@, Current(w))]
        BY <2>7, StoreUnraced DEF StoreRecord, files, persist, child
      <3>2. ppc = "join" => mem'[pmem] = mem[pmem]
        <4>1. ppc = "join" => pmem # active
          BY <1>0, BufferFacts DEF StoreInv, Phases
        <4> QED
          BY <1>0, <3>1, <4>1
      <3> QED
        BY <2>3, <3>1, <3>2 DEF Moving, LocusOf
    <2>8. CASE StartPass \/ SwapLog
      <3>1. /\ ppc # "join" /\ ppc' # "join" /\ locus' = locus /\ statisticdata' = statisticdata
        BY <2>8 DEF StartPass, BeginPass, SwapLog, files, shared
      <3> QED
        BY <2>3, <3>1 DEF Moving, LocusOf
    <2>9. CASE SwapMem
      <3>1. /\ ppc # "join" /\ ppc' = "join" /\ locus' = locus /\ statisticdata' = statisticdata
            /\ visited'["last"] = {} /\ visited'["locus"] = {}
        BY <1>0, <2>9 DEF SwapMem, files
      <3>2. /\ Moving("last", k) = 0 /\ Moving("locus", k) = 0
            /\ Moving("last", k)' = Moving("locus", k)' /\ LocusOf(k)' = LocusOf(k)
        BY <3>1 DEF Moving, LocusOf
      <3> QED
        BY <2>3, <2>4, <3>1, <3>2
    <2>10. CASE JoinAndTruncate
      <3>1. /\ ppc = "join" /\ ppc' = "wait" /\ locus' = locus /\ statisticdata' = statisticdata
            /\ must \subseteq visited["last"] /\ must \subseteq visited["locus"]
        BY <1>0, <2>2, <2>10 DEF JoinAndTruncate, ChildrenJoined, LastScanned, LocusScanned, shared
      <3>2. /\ Moving("last", k) = 0 /\ Moving("locus", k) = 0
        BY <1>0, <3>1, NothingMoving
      <3>3. Moving("last", k)' = 0 /\ Moving("locus", k)' = 0 /\ LocusOf(k)' = LocusOf(k)
        BY <3>1 DEF Moving, LocusOf
      <3> QED
        BY <2>3, <2>4, <3>1, <3>2, <3>3
    <2>11. ASSUME NEW l \in Keys, MemToLocusFile(l) PROVE Agree(k)'
      <3>1. /\ IsFiniteSet(LocusOf(k))'
            /\ Cardinality(LocusOf(k))' + Moving("locus", k)'
                 = Cardinality(LocusOf(k)) + Moving("locus", k)
        BY <1>0, <2>1, <2>3, <2>11, LocusVisitCounts
      <3>2. /\ ppc' = ppc /\ pmem' = pmem /\ mem' = mem /\ statisticdata' = statisticdata
            /\ visited'["last"] = visited["last"]
        BY <1>0, <2>11 DEF MemToLocusFile, Visit, persist
      <3>3. Moving("last", k)' = Moving("last", k)
        BY <3>2 DEF Moving
      <3> QED
        BY <2>3, <3>1, <3>2, <3>3
    <2>12. ASSUME NEW l \in Keys, MemToLast(l) PROVE Agree(k)'
      <3>1. /\ ppc' = ppc /\ pmem' = pmem /\ mem' = mem /\ locus' = locus
            /\ statisticdata' = [statisticdata EXCEPT ![l] = @ + Len(mem[pmem][l])]
            /\ visited'["last"] = visited["last"] \cup {l} /\ l \notin visited["last"]
            /\ visited'["locus"] = visited["locus"] /\ cpc["last"] = "scan"
        BY <1>0, <2>12 DEF MemToLast, Visit, CountMore, persist
      <3>2. ppc = "join" /\ Moving("locus", k)' = Moving("locus", k) /\ LocusOf(k)' = LocusOf(k)
        BY <1>0, <3>1 DEF Moving, LocusOf, StoreInv, Phases
      <3>3. statisticdata'[k] + Moving("last", k)' = statisticdata[k] + Moving("last", k)
        <4>1. CASE k = l
          <5>1. Moving("last", k) = Len(mem[pmem][k]) /\ Moving("last", k)' = 0
            BY <3>1, <3>2, <4>1 DEF Moving
          <5>2. statisticdata'[k] = statisticdata[k] + Moving("last", k)
            BY <1>0, <3>1, <4>1, <5>1
          <5> QED
            BY <2>4, <5>1, <5>2
        <4>2. CASE k # l
          BY <1>0, <3>1, <4>2 DEF Moving
        <4> QED
          BY <4>1, <4>2
      <3> QED
        BY <2>3, <3>2, <3>3
    <2>13. CASE AroundStep \/ FinishScan("locus") \/ OpenLastFiles \/ WriteEachFile \/ WriteLastFile
      <3>1. /\ ppc' = ppc /\ pmem' = pmem /\ mem' = mem /\ locus' = locus
            /\ statisticdata' = statisticdata
            /\ visited'["last"] = visited["last"] /\ visited'["locus"] = visited["locus"]
        BY <1>0, <2>13 DEF AroundStep, FinishScan, MemToAroundFile, Visit, OpenLastFiles,
           WriteEachFile, WriteLastFile, files, shared, persist
      <3> QED
        BY <2>3, <3>1 DEF Moving, LocusOf
    <2> HIDE DEF Agree
    <2> QED
      BY <1>2, <2>1, <2>5, <2>6, <2>7, <2>8, <2>9, <2>10, <2>11, <2>12, <2>13
      DEF Next, WriterStep, Core, LocusStep, LastStep
  <1> QED
    BY <1>1, <1>2

(* Between passes, if nothing was raced, killed or failed, the statistics, *)
(* in memory and in their file, count exactly the records of each device   *)
(* that are in the locus files, which another thread wrote from a map that *)
(* writers may still have reached.                                         *)
THEOREM StatisticsCount == Spec => []StatisticsMatchLocus
  <1> DEFINE Inv == /\ OnceInv /\ LastScanned /\ Moved /\ FirstStart /\ TotalsInv /\ LastInv
                    /\ LocusScanned /\ MapsNoRepeat /\ StatisticsInv
  <1>1. Init => Inv
    <2> SUFFICES ASSUME Init PROVE LastInv /\ LocusScanned /\ MapsNoRepeat /\ StatisticsInv
      BY OnceInit, SettledInit
    <2>1. LastInv /\ LocusScanned
      BY DEF Init, LastInv, LastFilesCurrent, LocusScanned, Children
    <2>2. MapsNoRepeat
      BY EmptySeq DEF Init, MapsNoRepeat, NoRepeat, Empty
    <2>3. StatisticsInv
      <3> SUFFICES ASSUME NEW k \in Keys
                   PROVE  /\ IsFiniteSet(LocusOf(k))
                          /\ statisticdata[k] + Moving("last", k)
                               = Cardinality(LocusOf(k)) + Moving("locus", k)
        BY DEF StatisticsInv
      <3>1. LocusOf(k) = {} /\ statisticdata[k] = 0 /\ Moving("last", k) = 0
            /\ Moving("locus", k) = 0
        BY DEF Init, LocusOf, Zero, Moving
      <3> QED
        BY <3>1, FS_EmptySet
    <2> QED
      BY <2>1, <2>2, <2>3
  <1>2. Inv /\ (TypeOK /\ StoreInv) /\ [Next]_vars => Inv'
    BY SettledNext, LastInvNext, LocusScannedNext, MapsNoRepeatNext, StatisticsNext
  <1>3. Inv /\ (TypeOK /\ StoreInv) => StatisticsMatchLocus
    <2> SUFFICES ASSUME Inv, TypeOK, StoreInv, exempt = {}, crashes = 0, fails = 0, ppc = "wait",
                        NEW k \in Keys
                 PROVE  statisticdata[k] = LocusCount(k) /\ eachFile[k] = LocusCount(k)
      BY DEF StatisticsMatchLocus
    <2>1. statisticdata[k] = LocusCount(k)
      <3>1. /\ Moving("last", k) = 0 /\ Moving("locus", k) = 0
            /\ LocusCount(k) = Cardinality(LocusOf(k)) /\ IsFiniteSet(LocusOf(k))
            /\ statisticdata[k] + Moving("last", k) = Cardinality(LocusOf(k)) + Moving("locus", k)
        BY DEF Moving, LocusCount, LocusOf, StatisticsInv
      <3>2. Cardinality(LocusOf(k)) \in Nat /\ statisticdata[k] \in Nat
        BY <3>1, FS_CardinalityType, PartsTyped
      <3> QED
        BY <3>1, <3>2
    <2>2. eachFile = statisticdata
      <3>1. CASE boot = "down"
        BY <3>1 DEF FirstStart, NothingYet
      <3>2. CASE boot # "down"
        BY <3>2 DEF LastInv, LastFilesCurrent, StoreInv, Phases, Children
      <3> QED
        BY <3>1, <3>2
    <2> QED
      BY <2>1, <2>2
  <1> HIDE DEF Inv
  <1> QED
    BY <1>1, <1>2, <1>3, InvCorrect, PTL DEF Spec
-----------------------------------------------------------------------------
==============================================================================
