--------------------------- MODULE LocusFileProofs ---------------------------
(* What holds of LocusFile for every set of devices and records, every     *)
(* clock and every number of kills and failed opens: index entries stand   *)
(* for whole segments, what the press filter drops is near what it kept,   *)
(* the rows of an answer are records of the device, in range, they are in  *)
(* the order in which the device has sent them, and what was in the files  *)
(* when the query began is among them.                                     *)
EXTENDS LocusFile, FiniteSetTheorems, SequenceTheorems, WellFoundedInduction, TLAPS

LEMMA BufferFacts ==
  /\ 1 \in Buffers /\ 2 \in Buffers
  /\ \A b \in Buffers : Other(b) \in Buffers /\ Other(b) # b /\ Other(Other(b)) = b
  BY DEF Buffers, Other

LEMMA EmptyTyped ==
  /\ Empty \in [Keys -> Seq(Records)]
  /\ \A k \in Keys : DOMAIN Empty[k] = {}
  BY DEF Empty

LEMMA FileFacts ==
  ASSUME NEW r \in Records
  PROVE  /\ FileOf(r) \in Files
         /\ FileOf(r)[1] % DayHours = HourOfDay(r)
  BY LocusAssumption DEF FileOf, Files, Hours, HourOfDay

LEMMA HourTyped ==
  ASSUME NEW r \in Records
  PROVE  HourOfDay(r) # NoHour
  <1>1. TimeOf[r] \in Nat /\ HourTicks \in Nat \ {0} /\ DayHours \in Nat \ {0}
    BY LocusAssumption
  <1>2. HourOf(TimeOf[r]) \in Nat
    BY <1>1 DEF HourOf
  <1>3. HourOfDay(r) \in Nat
    BY <1>1, <1>2 DEF HourOfDay
  <1> QED
    BY <1>3 DEF NoHour

LEMMA LineTyped ==
  ASSUME NEW r \in Records, NEW s \in Records
  PROVE  /\ Absolute(r) \in Lines /\ Absolute(r).rec = r
         /\ Relative(r, s) \in Lines /\ Relative(r, s).rec = r
  <1>1. /\ TimeOf[r] \in Int /\ PosOf[r] \in Int
        /\ TimeOf[s] \in Int /\ PosOf[s] \in Int
    BY LocusAssumption
  <1> QED
    BY <1>1 DEF Absolute, Relative, Lines

(* the record the child is at, and its line *)
LEMMA AtRecordFacts ==
  ASSUME TypeOK, OwnVectors, AtRecord
  PROVE  /\ key \in Keys
         /\ Vector \in Seq(Records)
         /\ Rec \in Records
         /\ KeyOf[Rec] = key
         /\ FileOf(Rec) \in Files
         /\ HourOfDay(Rec) = FileOf(Rec)[1] % DayHours
         /\ HourOfDay(Rec) # NoHour
  <1>1. key \in Keys
    BY DEF AtRecord, TypeOK
  <1>2. Other(active) \in Buffers
    BY BufferFacts DEF TypeOK
  <1>3. Vector \in Seq(Records)
    BY <1>1, <1>2 DEF TypeOK, Vector, Retired
  <1>4. usNum + 1 \in 1 .. Len(Vector)
    BY <1>3 DEF AtRecord, TypeOK
  <1>5. usNum + 1 \in DOMAIN Vector
    BY <1>3, <1>4
  <1>6. Rec \in Records
    BY <1>3, <1>5 DEF Rec
  <1>7. KeyOf[Rec] = key
    BY <1>1, <1>2, <1>5 DEF OwnVectors, Rec, Vector, Retired
  <1> QED
    BY <1>1, <1>3, <1>6, <1>7, FileFacts, HourTyped

(* a good segment stays good when its file only grows *)
LEMMA GoodStable ==
  ASSUME NEW f \in Files, NEW e \in Entries,
         locus \in [Files -> Seq(Lines)], locus' \in [Files -> Seq(Lines)],
         Len(locus[f]) <= Len(locus'[f]),
         \A i \in 1 .. Len(locus[f]) : locus'[f][i] = locus[f][i],
         GoodSegment(f, e)
  PROVE  GoodSegment(f, e)'
  <1> DEFINE n == Len(locus[f])
  <1>1. n \in Nat /\ Len(locus'[f]) \in Nat
    OBVIOUS
  <1>2. e.offset \in Nat /\ e.length \in Nat
    BY DEF Entries
  <1>3. e.offset + e.length <= n
    BY DEF GoodSegment
  <1>4. e.offset + e.length <= Len(locus'[f])
    BY <1>1, <1>2, <1>3
  <1>5. ASSUME NEW i \in e.offset + 1 .. e.offset + e.length
        PROVE  GoodLine(f, e, i)'
    <2>1. i \in 1 .. n /\ e.offset + 1 \in 1 .. n
      BY <1>1, <1>2, <1>3
    <2>2. locus'[f][i] = locus[f][i] /\ locus'[f][e.offset + 1] = locus[f][e.offset + 1]
      BY <2>1
    <2>3. GoodLine(f, e, i)
      BY DEF GoodSegment
    <2> QED
      BY <2>2, <2>3 DEF GoodLine
  <1> QED
    BY <1>4, <1>5 DEF GoodSegment

-----------------------------------------------------------------------------
(* The three kinds of step on the files.                                   *)

(* an index entry is written: every entry stays good, the new one is *)
LEMMA EntryWrittenGood ==
  ASSUME TypeOK, SegmentsWhole, OpenSegmentWhole,
         fdLocus # None => stLocusIndex.length > 0,
         index' = EntryWritten, locus' = locus
  PROVE  /\ index' \in [Files -> Seq(Entries)]
         /\ SegmentsWhole'
  <1>0. /\ locus \in [Files -> Seq(Lines)] /\ index \in [Files -> Seq(Entries)]
        /\ locus' \in [Files -> Seq(Lines)]
    BY DEF TypeOK
  <1>1. CASE fdLocus = None
    BY <1>0, <1>1 DEF EntryWritten, SegmentsWhole, GoodSegment, GoodLine
  <1>2. CASE fdLocus # None
    <2> DEFINE g == fdLocus
               e == stLocusIndex
               n == Len(index[g])
    <2>1. g \in Files /\ e \in Entries
      BY <1>2 DEF TypeOK
    <2>2. index[g] \in Seq(Entries) /\ n \in Nat
      BY <1>0, <2>1
    <2>3. index' = [index EXCEPT ![g] = Append(@, e)]
      BY <1>2 DEF EntryWritten
    <2>4. index' \in [Files -> Seq(Entries)]
      BY <1>0, <2>1, <2>2, <2>3
    <2>5. /\ DOMAIN index'[g] = 1 .. n + 1
          /\ \A j \in 1 .. n : index'[g][j] = index[g][j]
          /\ index'[g][n + 1] = e
      BY <1>0, <2>1, <2>2, <2>3
    <2>6. DOMAIN index[g] = 1 .. n
      BY <2>2
    <2>7. e.length > 0 /\ GoodSegment(g, e)
      BY <1>2 DEF OpenSegmentWhole
    <2>8. \A j \in 1 .. n : index[g][j].offset + index[g][j].length <= e.offset
      BY <1>2, <2>6 DEF OpenSegmentWhole
    <2>9. ASSUME NEW f \in Files, NEW j \in DOMAIN index'[f]
          PROVE  /\ index'[f][j].length > 0
                 /\ GoodSegment(f, index'[f][j])
                 /\ \A i \in 1 .. j - 1 :
                      index'[f][i].offset + index'[f][i].length <= index'[f][j].offset
      <3>1. CASE f # g
        <4>1. index'[f] = index[f]
          BY <1>0, <2>1, <2>3, <3>1
        <4> QED
          BY <4>1 DEF SegmentsWhole
      <3>2. CASE f = g /\ j \in 1 .. n
        <4>1. \A i \in 1 .. j - 1 : i \in 1 .. n
          BY <2>2, <3>2
        <4>2. index'[f][j] = index[g][j] /\ \A i \in 1 .. j - 1 : index'[f][i] = index[g][i]
          BY <2>5, <3>2, <4>1
        <4> QED
          BY <2>1, <2>6, <3>2, <4>2 DEF SegmentsWhole
      <3>3. CASE f = g /\ j = n + 1
        <4>1. \A i \in 1 .. j - 1 : i \in 1 .. n /\ index'[f][i] = index[g][i]
          BY <2>2, <2>5, <3>3
        <4> QED
          BY <2>5, <2>7, <2>8, <3>3, <4>1
      <3>4. f = g => j \in 1 .. n \/ j = n + 1
        BY <2>2, <2>5
      <3> QED
        BY <3>1, <3>2, <3>3, <3>4
    <2>10. \A f \in Files : \A e1 : GoodSegment(f, e1) => GoodSegment(f, e1)'
      BY DEF GoodSegment, GoodLine
    <2> QED
      BY <2>4, <2>9, <2>10 DEF SegmentsWhole, GoodSegment, GoodLine
  <1> QED
    BY <1>1, <1>2

(* a line is written: the segments stay good and the open one grows by it *)
LEMMA LineWrittenGood ==
  ASSUME TypeOK, OwnVectors, SegmentsWhole, OpenSegmentWhole, InSegment,
         NEW l \in Lines, WriteLine(l), l.rec = Rec,
         l = IF bFirstWirte THEN Absolute(Rec) ELSE Relative(Rec, Base),
         index' = index, key' = key, fdLocus' = fdLocus, iLChanged' = iLChanged,
         lPre' = PosOf[Rec]
  PROVE  /\ fdLocus # None
         /\ locus' \in [Files -> Seq(Lines)]
         /\ stLocusIndex' \in Entries
         /\ SegmentsWhole'
         /\ OpenSegmentWhole'
  <1> DEFINE g == fdLocus
             e == stLocusIndex
             n == Len(locus[g])
  <1>0. /\ AtRecord /\ iLChanged = HourOfDay(Rec)
        /\ Rec \in Records /\ KeyOf[Rec] = key /\ HourOfDay(Rec) # NoHour /\ key # None
    BY AtRecordFacts DEF InSegment, AtRecord
  <1>1. g # None
    BY <1>0 DEF TypeOK
  <1>2. /\ locus \in [Files -> Seq(Lines)] /\ index \in [Files -> Seq(Entries)]
        /\ g \in Files /\ e \in Entries
        /\ e.offset \in Nat /\ e.length \in Nat
    BY <1>1 DEF TypeOK, Entries
  <1>3. locus[g] \in Seq(Lines) /\ n \in Nat
    BY <1>2
  <1>4. locus' = [locus EXCEPT ![g] = Append(@, l)]
    BY DEF WriteLine
  <1>5. locus' \in [Files -> Seq(Lines)]
    BY <1>2, <1>3, <1>4
  <1>6. /\ Len(locus'[g]) = n + 1
        /\ \A i \in 1 .. n : locus'[g][i] = locus[g][i]
        /\ locus'[g][n + 1] = l
    BY <1>2, <1>3, <1>4
  <1>7. \A f \in Files : /\ Len(locus[f]) <= Len(locus'[f])
                         /\ \A i \in 1 .. Len(locus[f]) : locus'[f][i] = locus[f][i]
    <2>1. ASSUME NEW f \in Files
          PROVE  /\ Len(locus[f]) <= Len(locus'[f])
                 /\ \A i \in 1 .. Len(locus[f]) : locus'[f][i] = locus[f][i]
      <3>1. CASE f = g
        BY <1>3, <1>6, <3>1
      <3>2. CASE f # g
        BY <1>2, <1>4, <3>2
      <3> QED
        BY <3>1, <3>2
    <2> QED
      BY <2>1
  <1>8. stLocusIndex' = [e EXCEPT !.length = @ + 1]
    BY DEF WriteLine
  <1>9. /\ stLocusIndex' \in Entries
        /\ stLocusIndex'.key = e.key
        /\ stLocusIndex'.offset = e.offset
        /\ stLocusIndex'.length = e.length + 1
    <2>1. e = [key |-> e.key, offset |-> e.offset, length |-> e.length]
      BY <1>2 DEF Entries
    <2>2. stLocusIndex' = [key |-> e.key, offset |-> e.offset, length |-> e.length + 1]
      BY <1>8, <2>1
    <2>3. e.length + 1 \in Nat /\ e.key \in Keys
      BY <1>2 DEF Entries
    <2> QED
      BY <1>2, <2>2, <2>3 DEF Entries
  <1>10. SegmentsWhole'
    <2>1. ASSUME NEW f \in Files, NEW j \in DOMAIN index[f]
          PROVE  /\ GoodSegment(f, index[f][j])
                 /\ index[f][j] \in Entries
      <3>1. index[f][j] \in Entries
        BY <1>2
      <3> QED
        BY <3>1 DEF SegmentsWhole
    <2>2. ASSUME NEW f \in Files, NEW e1 \in Entries, GoodSegment(f, e1)
          PROVE  GoodSegment(f, e1)'
      BY <1>2, <1>5, <1>7, <2>2, GoodStable
    <2> QED
      BY <2>1, <2>2 DEF SegmentsWhole, GoodSegment, GoodLine
  <1>11. OpenSegmentWhole'
    <2>1. /\ e.key = key /\ iLChanged = g[1] % DayHours
          /\ e.offset + e.length = n
          /\ GoodSegment(g, e)
      BY <1>1 DEF OpenSegmentWhole
    <2>2. \A i \in e.offset + 1 .. n : GoodLine(g, e, i)
      BY <2>1 DEF GoodSegment
    <2>3. e.offset + 1 \in 1 .. n + 1 /\ (~bFirstWirte => e.offset + 1 \in 1 .. n)
      BY <1>2, <1>3, <2>1 DEF bFirstWirte
    <2>4. ASSUME NEW i \in e.offset + 1 .. n
          PROVE  GoodLine(g, stLocusIndex, i)'
      <3>1. GoodLine(g, e, i)
        BY <2>2
      <3>2. i \in 1 .. n /\ e.offset + 1 \in 1 .. n
        BY <1>2, <1>3
      <3>3. /\ locus'[g][i] = locus[g][i]
            /\ locus'[g][e.offset + 1] = locus[g][e.offset + 1]
        BY <1>6, <3>2
      <3> QED
        BY <1>9, <3>1, <3>3 DEF GoodLine
    <2>5. ASSUME NEW i, i = n + 1
          PROVE  GoodLine(g, stLocusIndex, i)'
      <3>1. KeyOf[l.rec] = e.key /\ HourOfDay(l.rec) = g[1] % DayHours
        BY <1>0, <2>1
      <3>2. locus'[g][i] = l
        BY <1>6, <2>5
      <3>3. CASE bFirstWirte
        <4>1. i = e.offset + 1
          BY <1>2, <1>3, <2>1, <2>5, <3>3 DEF bFirstWirte
        <4> QED
          BY <1>9, <3>1, <3>2, <3>3, <4>1 DEF GoodLine
      <3>4. CASE ~bFirstWirte
        <4>1. i # e.offset + 1
          BY <1>2, <1>3, <2>1, <2>5, <3>4 DEF bFirstWirte
        <4>2. locus'[g][e.offset + 1].rec = Base
          BY <1>6, <2>3, <3>4 DEF Base
        <4> QED
          BY <1>9, <3>1, <3>2, <3>4, <4>1, <4>2 DEF GoodLine
      <3> QED
        BY <3>3, <3>4
    <2>6. e.offset + (e.length + 1) = n + 1
      BY <1>2, <1>3, <2>1
    <2>7. GoodSegment(g, stLocusIndex)'
      <3>1. \A i \in e.offset + 1 .. n + 1 : i \in e.offset + 1 .. n \/ i = n + 1
        BY <1>2, <1>3
      <3>2. \A i \in e.offset + 1 .. n + 1 : GoodLine(g, stLocusIndex, i)'
        BY <2>4, <2>5, <3>1
      <3>3. stLocusIndex'.offset + stLocusIndex'.length = n + 1
        BY <1>9, <2>6
      <3>4. Len(locus'[g]) = n + 1 /\ n + 1 \in Nat
        BY <1>3, <1>6
      <3> QED
        BY <1>9, <3>2, <3>3, <3>4 DEF GoodSegment
    <2>8. Kept' = Rec
      BY <1>6 DEF Kept
    <2>9. stLocusIndex'.length > 0 /\ stLocusIndex'.length # 0
      BY <1>2, <1>9
    <2>10. \A j \in DOMAIN index[g] :
             index[g][j].offset + index[g][j].length <= stLocusIndex'.offset
      BY <1>1, <1>9 DEF OpenSegmentWhole
    <2> QED
      BY <1>6, <1>9, <2>1, <2>6, <2>7, <2>8, <2>9, <2>10 DEF OpenSegmentWhole
  <1> QED
    BY <1>1, <1>5, <1>9, <1>10, <1>11

(* a step that leaves the files and the open segment alone *)
LEMMA FilesUntouched ==
  ASSUME SegmentsWhole, OpenSegmentWhole, UNCHANGED <<locus, index>>,
         \/ fdLocus' = None
         \/ /\ UNCHANGED <<key, usNum, iLChanged, fdLocus, stLocusIndex, lPre>>
            /\ Retired' = Retired
  PROVE  SegmentsWhole' /\ OpenSegmentWhole'
  <1>1. \A f \in Files : \A e : GoodSegment(f, e) => GoodSegment(f, e)'
    BY DEF GoodSegment, GoodLine
  <1>2. SegmentsWhole'
    BY <1>1 DEF SegmentsWhole, GoodSegment, GoodLine
  <1>3. CASE fdLocus' = None
    BY <1>2, <1>3 DEF OpenSegmentWhole
  <1>4. CASE /\ UNCHANGED <<key, usNum, iLChanged, fdLocus, stLocusIndex, lPre>>
             /\ Retired' = Retired
    <2>1. InSegment' = InSegment
      BY <1>4 DEF InSegment, AtRecord, Vector, Rec, HourOfDay
    <2>2. GoodSegment(fdLocus, stLocusIndex) => GoodSegment(fdLocus, stLocusIndex)'
      BY <1>4 DEF GoodSegment, GoodLine
    <2>3. Kept' = Kept
      BY <1>4 DEF Kept
    <2> QED
      BY <1>2, <1>4, <2>1, <2>2, <2>3 DEF OpenSegmentWhole
  <1> QED
    BY <1>3, <1>4

-----------------------------------------------------------------------------
(* The invariant.                                                          *)

LEMMA InvInit == Init => LocusInv
  <1> SUFFICES ASSUME Init PROVE LocusInv
    OBVIOUS
  <1>1. TypeOK
    BY EmptyTyped, BufferFacts DEF Init, TypeOK
  <1>2. OwnVectors
    BY EmptyTyped DEF Init, OwnVectors
  <1>3. SegmentsWhole
    BY DEF Init, SegmentsWhole
  <1>4. OpenSegmentWhole
    BY DEF Init, OpenSegmentWhole
  <1> QED
    BY <1>1, <1>2, <1>3, <1>4 DEF LocusInv

LEMMA StoreInv ==
  ASSUME LocusInv, NEW r \in Records, Store(r)
  PROVE  LocusInv'
  <1> DEFINE k == KeyOf[r]
  <1>1. k \in Keys /\ active \in Buffers /\ Other(active) \in Buffers /\ Other(active) # active
    BY LocusAssumption, BufferFacts DEF LocusInv, TypeOK
  <1>2. /\ mem \in [Buffers -> [Keys -> Seq(Records)]]
        /\ log \in [Buffers -> [Keys -> Seq(Records)]]
    BY DEF LocusInv, TypeOK
  <1>3. mem[active][k] \in Seq(Records) /\ log[active][k] \in Seq(Records)
    BY <1>1, <1>2
  <1>4. /\ mem' = [mem EXCEPT ![active][k] = Append(@, r)]
        /\ log' = [log EXCEPT ![active][k] = Append(@, r)]
        /\ active' = active
    BY DEF Store
  <1>5. /\ Append(mem[active][k], r) \in Seq(Records)
        /\ Append(log[active][k], r) \in Seq(Records)
    BY <1>3
  <1>6. /\ mem' \in [Buffers -> [Keys -> Seq(Records)]]
        /\ log' \in [Buffers -> [Keys -> Seq(Records)]]
    BY <1>1, <1>2, <1>4, <1>5
  <1>7. TypeOK'
    BY <1>4, <1>6 DEF Store, LocusInv, TypeOK, files, child
  <1>8. OwnVectors'
    <2>1. ASSUME NEW v \in Seq(Records), \A i \in DOMAIN v : KeyOf[v[i]] = k,
                 NEW j \in DOMAIN Append(v, r)
          PROVE  KeyOf[Append(v, r)[j]] = k
      <3>1. j \in DOMAIN v \/ j = Len(v) + 1
        OBVIOUS
      <3> QED
        BY <2>1, <3>1
    <2>2. ASSUME NEW b \in Buffers, NEW c \in Keys
          PROVE  /\ \A i \in DOMAIN mem'[b][c] : KeyOf[mem'[b][c][i]] = c
                 /\ \A i \in DOMAIN log'[b][c] : KeyOf[log'[b][c][i]] = c
      <3>1. CASE b = active /\ c = k
        <4>1. /\ mem'[b][c] = Append(mem[active][k], r)
              /\ log'[b][c] = Append(log[active][k], r)
          BY <1>1, <1>2, <1>4, <3>1
        <4>2. /\ \A i \in DOMAIN mem[active][k] : KeyOf[mem[active][k][i]] = k
              /\ \A i \in DOMAIN log[active][k] : KeyOf[log[active][k][i]] = k
          BY <1>1 DEF LocusInv, OwnVectors
        <4> QED
          BY <1>3, <2>1, <3>1, <4>1, <4>2
      <3>2. CASE ~(b = active /\ c = k)
        <4>1. mem'[b][c] = mem[b][c] /\ log'[b][c] = log[b][c]
          BY <1>1, <1>2, <1>4, <3>2
        <4> QED
          BY <4>1 DEF LocusInv, OwnVectors
      <3> QED
        BY <3>1, <3>2
    <2> QED
      BY <2>2 DEF OwnVectors
  <1>9. Retired' = Retired
    BY <1>1, <1>2, <1>4 DEF Retired
  <1>10. SegmentsWhole' /\ OpenSegmentWhole'
    BY <1>9, FilesUntouched DEF Store, LocusInv, files, child
  <1> QED
    BY <1>7, <1>8, <1>10 DEF LocusInv

(* between passes no segment is open *)
LEMMA PassInv ==
  ASSUME LocusInv, BeginPass \/ EndPass \/ Kill
  PROVE  LocusInv'
  <1>1. /\ mem \in [Buffers -> [Keys -> Seq(Records)]]
        /\ log \in [Buffers -> [Keys -> Seq(Records)]]
        /\ active \in Buffers /\ Other(active) \in Buffers
    BY BufferFacts DEF LocusInv, TypeOK
  <1>2. fdLocus' = None /\ UNCHANGED <<locus, index>>
    BY DEF BeginPass, EndPass, Kill, LocusInv, TypeOK, files
  <1>3. SegmentsWhole' /\ OpenSegmentWhole'
    BY <1>2, FilesUntouched DEF LocusInv
  <1>4. CASE BeginPass
    <2>1. mem' = [mem EXCEPT ![Other(active)] = Empty]
      BY <1>4 DEF BeginPass, IdleMapCleared
    <2>2. TypeOK'
      BY <1>1, <1>4, <2>1, EmptyTyped DEF BeginPass, LocusInv, TypeOK, files
    <2>3. OwnVectors'
      BY <1>1, <1>4, <2>1, EmptyTyped DEF BeginPass, LocusInv, OwnVectors
    <2> QED
      BY <1>3, <2>2, <2>3 DEF LocusInv
  <1>5. CASE EndPass
    <2>1. log' = [log EXCEPT ![Other(active)] = Empty]
      BY <1>5 DEF EndPass
    <2>2. TypeOK'
      BY <1>1, <1>5, <2>1, EmptyTyped DEF EndPass, LocusInv, TypeOK, files
    <2>3. OwnVectors'
      BY <1>1, <1>5, <2>1, EmptyTyped DEF EndPass, LocusInv, OwnVectors
    <2> QED
      BY <1>3, <2>2, <2>3 DEF LocusInv
  <1>6. CASE Kill
    <2>1. RecoveredBuffer \in Buffers
      BY DEF RecoveredBuffer, Buffers
    <2>2. TypeOK'
      BY <1>1, <1>6, <2>1 DEF Kill, LocusInv, TypeOK, files
    <2>3. OwnVectors'
      BY <1>6 DEF Kill, LocusInv, OwnVectors
    <2> QED
      BY <1>3, <2>2, <2>3 DEF LocusInv
  <1> QED
    BY <1>4, <1>5, <1>6

(* the segment that is open has a line when its entry is written *)
LEMMA EntryNotEmpty ==
  ASSUME LocusInv, fdLocus # None, HourChanges \/ usNum >= Len(Vector)
  PROVE  stLocusIndex.length > 0
  <1>1. stLocusIndex.length \in Nat
    BY DEF LocusInv, TypeOK, Entries
  <1>2. stLocusIndex.length # 0
    <2>1. stLocusIndex.length = 0 => AtRecord /\ iLChanged = HourOfDay(Rec)
      BY DEF LocusInv, OpenSegmentWhole, InSegment
    <2>2. AtRecord => ~(usNum >= Len(Vector))
      <3>1. CASE AtRecord
        <4>1. Len(Vector) \in Nat /\ usNum \in Nat /\ usNum < Len(Vector)
          BY <3>1, AtRecordFacts DEF LocusInv, AtRecord, TypeOK
        <4> QED
          BY <4>1
      <3> QED
        BY <3>1
    <2> QED
      BY <2>1, <2>2 DEF HourChanges
  <1> QED
    BY <1>1, <1>2

LEMMA OpenInv ==
  ASSUME LocusInv, OpenSegment
  PROVE  LocusInv'
  <1> DEFINE g == FileOf(Rec)
  <1>1. /\ HourChanges /\ AtRecord /\ key \in Keys /\ Rec \in Records /\ g \in Files
        /\ HourOfDay(Rec) = g[1] % DayHours
    BY AtRecordFacts DEF OpenSegment, HourChanges, LocusInv
  <1>2. index' = EntryWritten /\ locus' = locus
    BY DEF OpenSegment
  <1>3. index' \in [Files -> Seq(Entries)] /\ SegmentsWhole'
    BY <1>1, <1>2, EntryNotEmpty, EntryWrittenGood DEF LocusInv
  <1>4. locus[g] \in Seq(Lines) /\ Len(locus[g]) \in Nat
    BY <1>1 DEF LocusInv, TypeOK
  <1>5. /\ stLocusIndex' = [key |-> key, offset |-> Len(locus[g]), length |-> 0]
        /\ fdLocus' = g /\ iLChanged' = HourOfDay(Rec)
        /\ UNCHANGED <<key, usNum, mem, active>>
    BY DEF OpenSegment, NewEntry, buffers
  <1>6. stLocusIndex' \in Entries
    BY <1>1, <1>4, <1>5 DEF Entries
  <1>7. fdLocus' # None
    BY <1>1, <1>5, NoFileAssumption
  <1>8. TypeOK'
    BY <1>1, <1>3, <1>5, <1>6, <1>7 DEF OpenSegment, LocusInv, TypeOK, buffers, AtRecord
  <1>9. OwnVectors'
    BY DEF OpenSegment, LocusInv, OwnVectors, buffers
  <1>10. InSegment'
    <2>1. AtRecord' /\ Rec' = Rec
      BY <1>1, <1>5 DEF AtRecord, Rec, Vector, Retired
    <2> QED
      BY <1>5, <2>1 DEF InSegment, HourOfDay
  <1>11. OpenSegmentWhole'
    <2>1. GoodSegment(fdLocus, stLocusIndex)'
      <3>1. /\ locus'[fdLocus'] = locus[g] /\ stLocusIndex'.offset = Len(locus[g])
            /\ stLocusIndex'.length = 0
        BY <1>2, <1>5
      <3> QED
        BY <1>4, <3>1 DEF GoodSegment
    <2>2. ASSUME NEW j \in DOMAIN index'[fdLocus']
          PROVE  index'[fdLocus'][j].offset + index'[fdLocus'][j].length
                   <= stLocusIndex'.offset
      <3>1. index'[fdLocus'][j].offset + index'[fdLocus'][j].length <= Len(locus'[fdLocus'])
        BY <1>1, <1>3, <1>5, <2>2 DEF SegmentsWhole, GoodSegment
      <3> QED
        BY <1>2, <1>5, <3>1
    <2>3. /\ stLocusIndex'.key = key' /\ stLocusIndex'.length = 0
          /\ stLocusIndex'.offset + stLocusIndex'.length = Len(locus'[fdLocus'])
          /\ iLChanged' = fdLocus'[1] % DayHours
      BY <1>1, <1>2, <1>4, <1>5
    <2> QED
      BY <1>10, <2>1, <2>2, <2>3 DEF OpenSegmentWhole
  <1> QED
    BY <1>3, <1>8, <1>9, <1>11 DEF LocusInv

(* the steps that write the last entry of a device, or give up on it *)
LEMMA CloseInv ==
  ASSUME LocusInv, FinishKey \/ OpenFails
  PROVE  LocusInv'
  <1>1. HourChanges \/ usNum >= Len(Vector)
    BY DEF FinishKey, OpenFails
  <1>2. /\ index' = EntryWritten /\ UNCHANGED <<locus, mem, log, active>>
        /\ key' = None /\ fdLocus' = None
    BY DEF FinishKey, OpenFails, buffers
  <1>3. index' \in [Files -> Seq(Entries)] /\ SegmentsWhole'
    BY <1>1, <1>2, EntryNotEmpty, EntryWrittenGood DEF LocusInv
  <1>4. TypeOK'
    BY <1>2, <1>3 DEF FinishKey, OpenFails, LocusInv, TypeOK, buffers
  <1>5. OwnVectors'
    BY <1>2 DEF LocusInv, OwnVectors
  <1>6. OpenSegmentWhole'
    BY <1>2 DEF OpenSegmentWhole
  <1> QED
    BY <1>3, <1>4, <1>5, <1>6 DEF LocusInv

LEMMA NextRecordTyped ==
  ASSUME TypeOK, NextRecord
  PROVE  usNum' \in Nat
  <1>1. usNum + 1 \in Nat /\ IndexRange \in Nat \ {0}
    BY LocusAssumption DEF TypeOK
  <1>2. (usNum + 1) % IndexRange \in Nat
    BY <1>1
  <1> QED
    BY <1>2 DEF NextRecord

LEMMA WriteInv ==
  ASSUME LocusInv, WriteBase \/ WriteDelta
  PROVE  LocusInv'
  <1>1. InSegment /\ AtRecord /\ Rec \in Records
    BY AtRecordFacts DEF WriteBase, WriteDelta, InSegment, LocusInv
  <1> DEFINE l == IF bFirstWirte THEN Absolute(Rec) ELSE Relative(Rec, Base)
  <1>2. ~bFirstWirte => Base \in Records
    <2> SUFFICES ASSUME ~bFirstWirte PROVE Base \in Records
      OBVIOUS
    <2>1. fdLocus # None
      BY <1>1, AtRecordFacts DEF LocusInv, TypeOK, InSegment, AtRecord
    <2>2. /\ locus[fdLocus] \in Seq(Lines)
          /\ stLocusIndex.offset \in Nat /\ stLocusIndex.length \in Nat
          /\ stLocusIndex.offset + stLocusIndex.length = Len(locus[fdLocus])
      BY <2>1 DEF LocusInv, TypeOK, Entries, OpenSegmentWhole
    <2>3. stLocusIndex.offset + 1 \in 1 .. Len(locus[fdLocus])
      BY <2>2 DEF bFirstWirte
    <2>4. locus[fdLocus][stLocusIndex.offset + 1] \in Lines
      BY <2>2, <2>3
    <2> QED
      BY <2>4 DEF Base, Lines
  <1>3. l \in Lines /\ l.rec = Rec
    BY <1>1, <1>2, LineTyped
  <1>4. WriteLine(l)
    BY DEF WriteBase, WriteDelta, RelativeLine
  <1>5. /\ UNCHANGED <<index, key, fdLocus, iLChanged, mem, log, active, ppc, todo>>
        /\ lPre' = PosOf[Rec]
    BY DEF WriteBase, WriteDelta, FilterMoved, buffers
  <1>6. /\ fdLocus # None
        /\ locus' \in [Files -> Seq(Lines)]
        /\ stLocusIndex' \in Entries
        /\ SegmentsWhole'
        /\ OpenSegmentWhole'
    <2> HIDE DEF l
    <2>1. l = IF bFirstWirte THEN Absolute(Rec) ELSE Relative(Rec, Base)
      BY DEF l
    <2> QED
      BY <1>1, <1>3, <1>4, <1>5, <2>1, LineWrittenGood DEF LocusInv
  <1>7. usNum' \in Nat
    BY NextRecordTyped DEF WriteBase, WriteDelta, LocusInv
  <1>8. TypeOK'
    BY <1>5, <1>6, <1>7 DEF LocusInv, TypeOK
  <1>9. OwnVectors'
    BY <1>5 DEF LocusInv, OwnVectors
  <1> QED
    BY <1>6, <1>8, <1>9 DEF LocusInv

(* a dropped record leaves a segment that has a line already *)
LEMMA PressInv ==
  ASSUME LocusInv, PressRecord
  PROVE  LocusInv'
  <1>1. /\ UNCHANGED <<mem, log, active, locus, index, ppc, todo, key, iLChanged,
                       fdLocus, stLocusIndex, lPre>>
        /\ stLocusIndex.length # 0
    BY DEF PressRecord, buffers, files, bFirstWirte
  <1>2. usNum' \in Nat
    BY NextRecordTyped DEF PressRecord, LocusInv
  <1>3. TypeOK' /\ OwnVectors'
    BY <1>1, <1>2 DEF LocusInv, TypeOK, OwnVectors
  <1>4. \A f \in Files : \A e : GoodSegment(f, e) => GoodSegment(f, e)'
    BY <1>1 DEF GoodSegment, GoodLine
  <1>5. SegmentsWhole'
    BY <1>1, <1>4 DEF LocusInv, SegmentsWhole, GoodSegment, GoodLine
  <1>6. OpenSegmentWhole'
    <2>1. GoodSegment(fdLocus, stLocusIndex) => GoodSegment(fdLocus, stLocusIndex)'
      BY <1>1 DEF GoodSegment, GoodLine
    <2>2. Kept' = Kept
      BY <1>1 DEF Kept
    <2> QED
      BY <1>1, <2>1, <2>2 DEF LocusInv, OpenSegmentWhole
  <1> QED
    BY <1>3, <1>5, <1>6 DEF LocusInv

LEMMA NextKeyInv ==
  ASSUME LocusInv, NEW k \in Keys, NextKey(k)
  PROVE  LocusInv'
  <1>1. /\ UNCHANGED <<mem, log, active, locus, index, ppc, todo>>
        /\ fdLocus' = None
    BY DEF NextKey, buffers, files
  <1>2. SegmentsWhole' /\ OpenSegmentWhole'
    BY <1>1, FilesUntouched DEF LocusInv
  <1>3. TypeOK' /\ OwnVectors'
    BY <1>1 DEF NextKey, LocusInv, TypeOK, OwnVectors
  <1> QED
    BY <1>2, <1>3 DEF LocusInv

LEMMA QueryInv ==
  ASSUME LocusInv, UNCHANGED <<buffers, files, child>>
  PROVE  LocusInv'
  <1>1. Retired' = Retired
    BY DEF Retired, buffers
  <1>2. SegmentsWhole' /\ OpenSegmentWhole'
    BY <1>1, FilesUntouched DEF LocusInv, files, child
  <1>3. TypeOK' /\ OwnVectors'
    BY DEF LocusInv, TypeOK, OwnVectors, buffers, files, child
  <1> QED
    BY <1>2, <1>3 DEF LocusInv

LEMMA InvNext == LocusInv /\ [Next]_vars => LocusInv'
  <1> SUFFICES ASSUME LocusInv, [Next]_vars PROVE LocusInv'
    OBVIOUS
  <1>1. CASE \E r \in Records : Store(r)
    BY <1>1, StoreInv
  <1>2. CASE BeginPass \/ EndPass \/ Kill
    BY <1>2, PassInv
  <1>3. CASE ChildStep
    BY <1>3, NextKeyInv, OpenInv, CloseInv, WriteInv, PressInv DEF ChildStep
  <1>4. CASE (\E q \in Queries : StartQuery(q)) \/ QueryStep
    <2>1. UNCHANGED <<buffers, files, child>>
      BY <1>4 DEF StartQuery, QueryStep, ReadHour, FindVector, ScanVector
    <2> QED
      BY <2>1, QueryInv
  <1>5. CASE UNCHANGED vars
    BY <1>5, QueryInv DEF vars
  <1> QED
    BY <1>1, <1>2, <1>3, <1>4, <1>5 DEF Next

(* Every index entry stands for a whole segment of its device, and the     *)
(* open segment ends its file, whatever kills and failed opens happen      *)
(* (MemToLocusFile).                                                       *)
THEOREM LocusCorrect == Spec => []LocusInv
  BY InvInit, InvNext, PTL DEF Spec

(* The part of it the history query relies on.                             *)
THEOREM EntriesWhole == Spec => []SegmentsWhole
  <1>1. LocusInv => SegmentsWhole
    BY DEF LocusInv
  <1> QED
    BY <1>1, LocusCorrect, PTL

(* Every dropped record is near the one of its segment kept last before it *)
(* (the press filter of MemToLocusFile).                                   *)
THEOREM PressIsBounded == Spec => []PressedNear
  <1>1. Init => PressedNear
    BY DEF Init, PressedNear
  <1>2. ASSUME LocusInv, PressedNear, [Next]_vars
        PROVE  PressedNear'
    <2>1. CASE PressRecord
      <3>1. fdLocus # None
        BY <1>2, <2>1, AtRecordFacts DEF PressRecord, LocusInv, TypeOK, InSegment, AtRecord
      <3>2. stLocusIndex.length \in Nat /\ stLocusIndex.length # 0
        BY <2>1, <3>1, <1>2 DEF PressRecord, bFirstWirte, LocusInv, TypeOK, Entries
      <3>3. lPre = PosOf[Kept]
        BY <1>2, <3>1, <3>2 DEF LocusInv, OpenSegmentWhole
      <3>4. Press /\ PosOf[Rec] - PosOf[Kept] \in -PressDist .. PressDist
        BY <2>1, <3>3 DEF PressRecord, Near
      <3>5. pressed' = pressed \cup {<<Rec, Kept>>}
        BY <2>1 DEF PressRecord
      <3> QED
        BY <1>2, <3>4, <3>5 DEF PressedNear
    <2>2. CASE ~PressRecord
      <3>1. pressed' = pressed
        BY <1>2, <2>2 DEF Next, ChildStep, QueryStep, Store, BeginPass, NextKey, OpenSegment,
           OpenFails, WriteBase, WriteDelta, FinishKey, EndPass, StartQuery, ReadHour,
           FindVector, ScanVector, Kill, history, vars
      <3> QED
        BY <1>2, <3>1 DEF PressedNear
    <2> QED
      BY <2>1, <2>2
  <1> QED
    BY <1>1, <1>2, LocusCorrect, PTL DEF Spec

-----------------------------------------------------------------------------
(* Folds over a sequence.  FoldLeft takes the greatest index of a set      *)
(* first, so it is defined for every set of indices; of these only the     *)
(* first ones, 1 .. i, matter.                                             *)
LEMMA SetInduction ==
  ASSUME NEW S, 0 \in S, \A n \in Nat : n \in S => n + 1 \in S
  PROVE  \A n \in Nat : n \in S
  <1> DEFINE less == OpToRel(<, Nat)
             out  == Nat \ S
  <1> SUFFICES ASSUME out # {} PROVE FALSE
    OBVIOUS
  <1>1. IsWellFoundedOn(less, Nat)
    BY NatLessThanWellFounded
  <1>2. PICK n \in out : \A m \in out : <<m, n>> \notin less
    <2> out \subseteq Nat
      OBVIOUS
    <2> HIDE DEF less, out
    <2> QED
      BY <1>1, WFMin
  <1>3. \A m \in out : ~(m < n)
    BY <1>2 DEF OpToRel
  <1>4. n \in Nat /\ n # 0
    BY <1>2
  <1>5. n - 1 \notin out /\ n - 1 \in Nat
    BY <1>3, <1>4
  <1>6. (n - 1) + 1 = n
    BY <1>4
  <1> QED
    BY <1>2, <1>5, <1>6

LEMMA IndexSets ==
  ASSUME NEW n \in Nat
  PROVE  /\ IsFiniteSet(1 .. n) /\ Cardinality(1 .. n) = n
         /\ \A S \in SUBSET (1 .. n) : IsFiniteSet(S) /\ Cardinality(S) \in 0 .. n
  <1>1. IsFiniteSet(1 .. n) /\ Cardinality(1 .. n) = n
    BY FS_Interval
  <1>2. ASSUME NEW S \in SUBSET (1 .. n) PROVE IsFiniteSet(S) /\ Cardinality(S) \in 0 .. n
    <2>1. IsFiniteSet(S) /\ Cardinality(S) <= n
      BY <1>1, FS_Subset
    <2>2. Cardinality(S) \in Nat
      BY <2>1, FS_CardinalityType
    <2> QED
      BY <2>1, <2>2
  <1> QED
    BY <1>1, <1>2

LEMMA Smaller ==
  ASSUME NEW n \in Nat, NEW S \in SUBSET (1 .. n), NEW k \in S
  PROVE  /\ S \ {k} \in SUBSET (1 .. n)
         /\ Cardinality(S \ {k}) = Cardinality(S) - 1
         /\ Cardinality(S) \in Nat /\ Cardinality(S) # 0
  <1>1. IsFiniteSet(S)
    BY IndexSets
  <1>2. Cardinality(S \ {k}) = Cardinality(S) - 1 /\ Cardinality(S \ {k}) \in Nat
        /\ Cardinality(S) \in Nat
    BY <1>1, FS_RemoveElement, FS_CardinalityType, IndexSets
  <1> QED
    BY <1>2

LEMMA PartsInduction ==
  ASSUME NEW n \in Nat, NEW X, {} \in X,
         \A S \in SUBSET (1 .. n) : S # {} /\ (\A k \in S : S \ {k} \in X) => S \in X
  PROVE  \A S \in SUBSET (1 .. n) : S \in X
  <1> DEFINE N == {m \in Nat : \A S \in SUBSET (1 .. n) : Cardinality(S) = m => S \in X}
  <1>1. 0 \in N
    <2>1. \A S \in SUBSET (1 .. n) : Cardinality(S) = 0 => S = {}
      BY IndexSets, FS_EmptySet
    <2> QED
      BY <2>1
  <1>2. ASSUME NEW m \in Nat, m \in N PROVE m + 1 \in N
    <2> SUFFICES ASSUME NEW S \in SUBSET (1 .. n), Cardinality(S) = m + 1 PROVE S \in X
      OBVIOUS
    <2>1. S # {}
      <3>1. Cardinality({}) = 0
        BY FS_EmptySet
      <3>2. Cardinality(S) # 0
        OBVIOUS
      <3> QED
        BY <3>1, <3>2, Zenon
    <2>2. ASSUME NEW k \in S PROVE S \ {k} \in X
      <3>1. S \ {k} \in SUBSET (1 .. n) /\ Cardinality(S \ {k}) = (m + 1) - 1
        BY Smaller
      <3> QED
        BY <1>2, <3>1
    <2> QED
      BY <2>1, <2>2
  <1> HIDE DEF N
  <1>3. \A m \in Nat : m \in N
    BY <1>1, <1>2, SetInduction
  <1> QED
    BY <1>3, IndexSets DEF N

LEMMA Greatest ==
  ASSUME NEW n \in Nat, NEW S \in SUBSET (1 .. n), S # {}
  PROVE  Max(S) \in S /\ \A k \in S : Max(S) >= k
  <1> DEFINE X == {T \in SUBSET (1 .. n) : T # {} => \E m \in T : \A k \in T : m >= k}
  <1>1. {} \in X
    OBVIOUS
  <1>2. ASSUME NEW T \in SUBSET (1 .. n), T # {}, \A k \in T : T \ {k} \in X
        PROVE  T \in X
    <2>1. PICK j \in T : TRUE
      BY <1>2
    <2>2. CASE T \ {j} = {}
      <3>1. \A k \in T : j >= k
        BY <2>2
      <3> QED
        BY <3>1
    <2>3. CASE T \ {j} # {}
      <3>1. PICK m \in T \ {j} : \A k \in T \ {j} : m >= k
        BY <1>2, <2>3
      <3>2. m \in Nat /\ j \in Nat /\ \A k \in T : k \in Nat
        OBVIOUS
      <3>3. CASE m >= j
        BY <3>1, <3>2, <3>3
      <3>4. CASE j >= m
        <4>1. \A k \in T : j >= k
          BY <3>1, <3>2, <3>4
        <4> QED
          BY <4>1
      <3> QED
        BY <3>2, <3>3, <3>4
    <2> QED
      BY <2>2, <2>3
  <1> HIDE DEF X
  <1>3. \A T \in SUBSET (1 .. n) : T \in X
    BY <1>1, <1>2, PartsInduction
  <1>4. \E m \in S : \A k \in S : m >= k
    BY <1>3 DEF X
  <1> QED
    BY <1>4 DEF Max

LEMMA LastIndex ==
  ASSUME NEW n \in Nat, NEW i \in 1 .. n
  PROVE  /\ 1 .. i \in SUBSET (1 .. n) /\ 1 .. i # {}
         /\ Max(1 .. i) = i /\ (1 .. i) \ {i} = 1 .. i - 1
  <1>1. 1 .. i \in SUBSET (1 .. n) /\ i \in 1 .. i
    OBVIOUS
  <1>2. Max(1 .. i) \in 1 .. i /\ Max(1 .. i) >= i
    BY <1>1, Greatest
  <1> QED
    BY <1>1, <1>2

UpTo(n, m) == {S \in SUBSET (1 .. n) : Cardinality(S) <= m}
IsFold(f, h, base, D) ==
  f = [S \in D |-> IF S = {} THEN base ELSE h[<<f[S \ {Max(S)}], Max(S)>>]]

LEMMA FoldExists ==
  ASSUME NEW n \in Nat, NEW G, NEW base \in G, NEW h \in [G \X (1 .. n) -> G]
  PROVE  \E f \in [SUBSET (1 .. n) -> G] : IsFold(f, h, base, SUBSET (1 .. n))
  <1> DEFINE N == {m \in Nat : \E f \in [UpTo(n, m) -> G] : IsFold(f, h, base, UpTo(n, m))}
  <1>1. 0 \in N
    <2>1. UpTo(n, 0) = {{}}
      BY IndexSets, FS_EmptySet DEF UpTo
    <2>2. /\ [S \in UpTo(n, 0) |-> base] \in [UpTo(n, 0) -> G]
          /\ IsFold([S \in UpTo(n, 0) |-> base], h, base, UpTo(n, 0))
      BY <2>1 DEF IsFold
    <2> QED
      BY <2>2
  <1>2. ASSUME NEW m \in Nat, m \in N PROVE m + 1 \in N
    <2>1. PICK f \in [UpTo(n, m) -> G] : IsFold(f, h, base, UpTo(n, m))
      BY <1>2
    <2> DEFINE g == [S \in UpTo(n, m + 1) |->
                       IF S \in UpTo(n, m) THEN f[S] ELSE h[<<f[S \ {Max(S)}], Max(S)>>]]
    <2>2. \A S \in UpTo(n, m) : f[S] = IF S = {} THEN base ELSE h[<<f[S \ {Max(S)}], Max(S)>>]
      BY <2>1 DEF IsFold
    <2>3. UpTo(n, m) \subseteq UpTo(n, m + 1) /\ {} \in UpTo(n, m)
      <3>1. Cardinality({}) = 0
        BY FS_EmptySet
      <3>2. \A S \in SUBSET (1 .. n) : Cardinality(S) \in Nat
        BY IndexSets
      <3>3. \A S \in SUBSET (1 .. n) : Cardinality(S) <= m => Cardinality(S) <= m + 1
        BY <3>2
      <3> QED
        BY <3>1, <3>3 DEF UpTo
    <2>4. ASSUME NEW S \in UpTo(n, m + 1), S # {}
          PROVE  S \ {Max(S)} \in UpTo(n, m) /\ Max(S) \in 1 .. n
      <3>1. S \in SUBSET (1 .. n) /\ Cardinality(S) <= m + 1
        BY DEF UpTo
      <3>2. Max(S) \in S
        BY <2>4, <3>1, Greatest
      <3>3. Cardinality(S \ {Max(S)}) = Cardinality(S) - 1 /\ Cardinality(S) \in Nat
            /\ S \ {Max(S)} \in SUBSET (1 .. n)
        BY <3>1, <3>2, Smaller
      <3>4. Cardinality(S \ {Max(S)}) <= m
        BY <3>1, <3>3
      <3> QED
        BY <3>1, <3>2, <3>3, <3>4 DEF UpTo
    <2>5. ASSUME NEW S \in UpTo(n, m + 1)
          PROVE  g[S] = IF S = {} THEN base ELSE h[<<g[S \ {Max(S)}], Max(S)>>]
      <3>1. CASE S = {}
        BY <2>2, <2>3, <3>1
      <3>2. CASE S # {}
        <4>1. g[S \ {Max(S)}] = f[S \ {Max(S)}]
          BY <2>3, <2>4, <3>2
        <4>2. g[S] = h[<<f[S \ {Max(S)}], Max(S)>>]
          BY <2>2, <3>2
        <4> QED
          BY <3>2, <4>1, <4>2
      <3> QED
        BY <3>1, <3>2
    <2>6. ASSUME NEW S \in UpTo(n, m + 1) PROVE g[S] \in G
      <3>1. CASE S \in UpTo(n, m)
        BY <3>1
      <3>2. CASE S \notin UpTo(n, m)
        <4>1. S # {}
          BY <2>3, <3>2
        <4>2. f[S \ {Max(S)}] \in G /\ Max(S) \in 1 .. n
          BY <2>4, <4>1
        <4>3. h[<<f[S \ {Max(S)}], Max(S)>>] \in G
          BY <4>2
        <4> QED
          BY <3>2, <4>3
      <3> QED
        BY <3>1, <3>2
    <2>7. g \in [UpTo(n, m + 1) -> G] /\ IsFold(g, h, base, UpTo(n, m + 1))
      <3>1. g = [S \in UpTo(n, m + 1) |-> g[S]]
        OBVIOUS
      <3> HIDE DEF g
      <3>2. g \in [UpTo(n, m + 1) -> G]
        BY <2>6, <3>1
      <3>3. IsFold(g, h, base, UpTo(n, m + 1))
        BY <2>5, <3>1, Zenon DEF IsFold
      <3> QED
        BY <3>2, <3>3
    <2>8. \E f1 \in [UpTo(n, m + 1) -> G] : IsFold(f1, h, base, UpTo(n, m + 1))
      <3> HIDE DEF g
      <3> QED
        BY <2>7
    <2> HIDE DEF g
    <2> QED
      BY <2>8
  <1> HIDE DEF N
  <1>3. n \in N
    BY <1>1, <1>2, SetInduction
  <1>4. UpTo(n, n) = SUBSET (1 .. n)
    BY IndexSets DEF UpTo
  <1> QED
    BY <1>3, <1>4 DEF N

-----------------------------------------------------------------------------
(* What the query collects.                                                *)

SoundRows(q) ==
  {row \in [rec : Records, time : Int, pos : Int, first : BOOLEAN] :
     /\ KeyOf[row.rec] = q.key
     /\ row.time = TimeOf[row.rec]
     /\ row.pos = PosOf[row.rec]}

RowsInRange(q) == {row \in SoundRows(q) : InRange(q, row.rec)}

Results(q) ==
  [check : BOOLEAN, count : Nat, rows : Seq(RowsInRange(q)), ended : BOOLEAN]

LEMMA TakeRowSound ==
  ASSUME NEW q \in Queries, NEW s \in Results(q), NEW row \in RowsInRange(q)
  PROVE  TakeRow(q, s, row) \in Results(q)
  <1> DEFINE n == s.count + 1
             rows == IF OnPage(q, n) THEN Append(s.rows, row) ELSE s.rows
             ended == n = page_max_size(q)
  <1>1. n \in Nat /\ ended \in BOOLEAN
    BY DEF Results
  <1>2. rows \in Seq(RowsInRange(q))
    BY DEF Results
  <1>3. TakeRow(q, s, row) = [s EXCEPT !.count = n, !.rows = rows, !.ended = ended]
    BY DEF TakeRow
  <1> HIDE DEF n, rows, ended
  <1> QED
    BY <1>1, <1>2, <1>3 DEF Results

LEMMA ReadRowSound ==
  ASSUME NEW q \in Queries, NEW s \in Results(q), NEW row \in SoundRows(q)
  PROVE  ReadRow(q, s, row) \in Results(q)
  <1>1. q.begin \in Nat /\ q.end \in Nat
    BY LocusAssumption
  <1>2. row.time \in Int /\ row.time = TimeOf[row.rec] /\ row.first \in BOOLEAN
        /\ s.ended \in BOOLEAN
    BY DEF SoundRows, Results
  <1>3. CASE s.ended \/ row.time < q.begin
    BY <1>3 DEF ReadRow
  <1>4. CASE ~(s.ended \/ row.time < q.begin) /\ row.time > q.end
    <2>1. ReadRow(q, s, row) = [s EXCEPT !.ended = ~row.first]
      BY <1>4 DEF ReadRow
    <2> QED
      BY <2>1, <1>2 DEF Results
  <1>5. CASE ~(s.ended \/ row.time < q.begin) /\ ~(row.time > q.end)
    <2>1. ReadRow(q, s, row) = TakeRow(q, s, row)
      BY <1>5 DEF ReadRow
    <2>2. row \in RowsInRange(q)
      BY <1>1, <1>2, <1>5 DEF RowsInRange, InRange
    <2> QED
      BY <2>1, <2>2, TakeRowSound
  <1> QED
    BY <1>3, <1>4, <1>5

LEMMA ReadRowsTurns ==
  ASSUME NEW q \in Queries, NEW s \in Results(q), NEW rows \in Seq(SoundRows(q))
  PROVE  \E p \in [0 .. Len(rows) -> Results(q)] :
           /\ p[0] = s /\ p[Len(rows)] = parse_file_gpsdata(q, s, rows)
           /\ \A i \in 1 .. Len(rows) : p[i] = ReadRow(q, p[i - 1], rows[i])
  <1> DEFINE n == Len(rows)
             Parts == SUBSET (1 .. n)
             G == Results(q)
             h == [p \in G \X (1 .. n) |-> ReadRow(q, p[1], rows[p[2]])]
             Turns(g) == g = [S \in Parts |->
                                IF S = {} THEN s ELSE ReadRow(q, g[S \ {Max(S)}], rows[Max(S)])]
             it == CHOOSE g : Turns(g)
  <1>1. n \in Nat /\ DOMAIN rows = 1 .. n /\ \A i \in 1 .. n : rows[i] \in SoundRows(q)
    OBVIOUS
  <1>2. parse_file_gpsdata(q, s, rows) = it[1 .. n]
    BY <1>1 DEF parse_file_gpsdata, FoldLeft, MapThenFoldSet
  <1>3. h \in [G \X (1 .. n) -> G]
    BY <1>1, ReadRowSound
  <1>4. \A p \in G, i \in 1 .. n : h[<<p, i>>] = ReadRow(q, p, rows[i])
    OBVIOUS
  <1> HIDE DEF h, n
  <1>5. PICK f \in [Parts -> G] : IsFold(f, h, s, Parts)
    BY <1>1, <1>3, FoldExists
  <1>6. \A S \in Parts : S # {} => S \ {Max(S)} \in Parts /\ Max(S) \in 1 .. n
    BY <1>1, Greatest
  <1>7. Turns(f)
    <2>1. \A S \in Parts : S # {} =>
            h[<<f[S \ {Max(S)}], Max(S)>>] = ReadRow(q, f[S \ {Max(S)}], rows[Max(S)])
      BY <1>4, <1>6
    <2>2. f = [S \in Parts |-> IF S = {} THEN s ELSE h[<<f[S \ {Max(S)}], Max(S)>>]]
      BY <1>5 DEF IsFold
    <2> QED
      BY <2>1, <2>2
  <1>8. Turns(it)
    BY <1>7
  <1> DEFINE X == {S \in Parts : it[S] \in G}
  <1>9. {} \in X
    BY <1>8
  <1>10. ASSUME NEW S \in Parts, S # {}, \A k \in S : S \ {k} \in X
         PROVE  S \in X
    <2>1. Max(S) \in S /\ Max(S) \in 1 .. n
      BY <1>1, <1>10, Greatest
    <2>2. it[S \ {Max(S)}] \in G
      BY <1>10, <2>1
    <2>3. it[S] = ReadRow(q, it[S \ {Max(S)}], rows[Max(S)])
      BY <1>8, <1>10
    <2>4. it[S] \in G
      BY <1>1, <2>1, <2>2, <2>3, ReadRowSound
    <2> QED
      BY <2>4
  <1> HIDE DEF X
  <1>11. \A S \in Parts : S \in X
    BY <1>1, <1>9, <1>10, PartsInduction
  <1> DEFINE p == [i \in 0 .. n |-> it[1 .. i]]
  <1>12. 1 .. 0 = {} /\ \A i \in 0 .. n : 1 .. i \in Parts
    BY <1>1
  <1>13. \A i \in 0 .. n : it[1 .. i] \in G
    BY <1>11, <1>12 DEF X
  <1>14. it[1 .. 0] = s
    BY <1>8, <1>12
  <1>15. ASSUME NEW i \in 1 .. n
         PROVE  it[1 .. i] = ReadRow(q, it[1 .. i - 1], rows[i])
    <2>1. /\ 1 .. i \in Parts /\ 1 .. i # {}
          /\ Max(1 .. i) = i /\ (1 .. i) \ {i} = 1 .. i - 1
      BY <1>1, LastIndex
    <2> HIDE DEF it
    <2> QED
      BY <1>8, <2>1
  <1> HIDE DEF it
  <1>16. p \in [0 .. n -> G] /\ p[0] = s /\ p[n] = it[1 .. n]
    BY <1>1, <1>13, <1>14
  <1>17. \A i \in 1 .. n : p[i] = ReadRow(q, p[i - 1], rows[i])
    BY <1>1, <1>15
  <1> HIDE DEF p
  <1> QED
    BY <1>2, <1>16, <1>17 DEF n

(* one turn of the scan of the map *)
LEMMA ScanRowSound ==
  ASSUME NEW q \in Queries, NEW s \in Results(q), NEW r \in Records, KeyOf[r] = q.key
  PROVE  ScanRow(q, s, r) \in Results(q)
  <1> DEFINE row == [rec |-> r, time |-> TimeOf[r], pos |-> PosOf[r], first |-> FALSE]
  <1>1. q.begin \in Nat /\ q.end \in Nat /\ TimeOf[r] \in Nat /\ PosOf[r] \in Int
    BY LocusAssumption
  <1>3. CASE ScanRow(q, s, r) = s
    BY <1>3
  <1>4. CASE ScanRow(q, s, r) = [s EXCEPT !.ended = TRUE]
    BY <1>4 DEF Results
  <1>5. CASE q.begin <= TimeOf[r] /\ TimeOf[r] <= q.end /\ ScanRow(q, s, r) = TakeRow(q, s, row)
    <2>1. row \in RowsInRange(q)
      BY <1>1, <1>5 DEF RowsInRange, SoundRows, InRange
    <2> QED
      BY <1>5, <2>1, TakeRowSound
  <1> QED
    BY <1>1, <1>3, <1>4, <1>5 DEF ScanRow

LEMMA ScanTurns ==
  ASSUME NEW q \in Queries, NEW s \in Results(q), NEW v \in Seq(Records),
         \A i \in DOMAIN v : KeyOf[v[i]] = q.key
  PROVE  \E p \in [0 .. Len(v) -> Results(q)] :
           /\ p[0] = s /\ p[Len(v)] = FoldLeft(LAMBDA acc, r : ScanRow(q, acc, r), s, v)
           /\ \A i \in 1 .. Len(v) : p[i] = ScanRow(q, p[i - 1], v[i])
  <1> DEFINE n == Len(v)
             Parts == SUBSET (1 .. n)
             G == Results(q)
             h == [p \in G \X (1 .. n) |-> ScanRow(q, p[1], v[p[2]])]
             Turns(g) == g = [S \in Parts |->
                                IF S = {} THEN s ELSE ScanRow(q, g[S \ {Max(S)}], v[Max(S)])]
             it == CHOOSE g : Turns(g)
  <1>1. n \in Nat /\ DOMAIN v = 1 .. n /\ \A i \in 1 .. n : v[i] \in Records /\ KeyOf[v[i]] = q.key
    OBVIOUS
  <1>2. FoldLeft(LAMBDA acc, r : ScanRow(q, acc, r), s, v) = it[1 .. n]
    BY <1>1 DEF FoldLeft, MapThenFoldSet
  <1>3. h \in [G \X (1 .. n) -> G]
    BY <1>1, ScanRowSound
  <1>4. \A p \in G, i \in 1 .. n : h[<<p, i>>] = ScanRow(q, p, v[i])
    OBVIOUS
  <1> HIDE DEF h, n
  <1>5. PICK f \in [Parts -> G] : IsFold(f, h, s, Parts)
    BY <1>1, <1>3, FoldExists
  <1>6. \A S \in Parts : S # {} => S \ {Max(S)} \in Parts /\ Max(S) \in 1 .. n
    BY <1>1, Greatest
  <1>7. Turns(f)
    <2>1. \A S \in Parts : S # {} =>
            h[<<f[S \ {Max(S)}], Max(S)>>] = ScanRow(q, f[S \ {Max(S)}], v[Max(S)])
      BY <1>4, <1>6
    <2>2. f = [S \in Parts |-> IF S = {} THEN s ELSE h[<<f[S \ {Max(S)}], Max(S)>>]]
      BY <1>5 DEF IsFold
    <2> QED
      BY <2>1, <2>2
  <1>8. Turns(it)
    BY <1>7
  <1> DEFINE X == {S \in Parts : it[S] \in G}
  <1>9. {} \in X
    BY <1>8
  <1>10. ASSUME NEW S \in Parts, S # {}, \A k \in S : S \ {k} \in X
         PROVE  S \in X
    <2>1. Max(S) \in S /\ Max(S) \in 1 .. n
      BY <1>1, <1>10, Greatest
    <2>2. it[S \ {Max(S)}] \in G
      BY <1>10, <2>1
    <2>3. it[S] = ScanRow(q, it[S \ {Max(S)}], v[Max(S)])
      BY <1>8, <1>10
    <2>4. it[S] \in G
      BY <1>1, <2>1, <2>2, <2>3, ScanRowSound
    <2> QED
      BY <2>4
  <1> HIDE DEF X
  <1>11. \A S \in Parts : S \in X
    BY <1>1, <1>9, <1>10, PartsInduction
  <1> DEFINE p == [i \in 0 .. n |-> it[1 .. i]]
  <1>12. 1 .. 0 = {} /\ \A i \in 0 .. n : 1 .. i \in Parts
    BY <1>1
  <1>13. \A i \in 0 .. n : it[1 .. i] \in G
    BY <1>11, <1>12 DEF X
  <1>14. it[1 .. 0] = s
    BY <1>8, <1>12
  <1>15. ASSUME NEW i \in 1 .. n
         PROVE  it[1 .. i] = ScanRow(q, it[1 .. i - 1], v[i])
    <2>1. /\ 1 .. i \in Parts /\ 1 .. i # {}
          /\ Max(1 .. i) = i /\ (1 .. i) \ {i} = 1 .. i - 1
      BY <1>1, LastIndex
    <2> HIDE DEF it
    <2> QED
      BY <1>8, <2>1
  <1> HIDE DEF it
  <1>16. p \in [0 .. n -> G] /\ p[0] = s /\ p[n] = it[1 .. n]
    BY <1>1, <1>13, <1>14
  <1>17. \A i \in 1 .. n : p[i] = ScanRow(q, p[i - 1], v[i])
    BY <1>1, <1>15
  <1> HIDE DEF p
  <1> QED
    BY <1>2, <1>16, <1>17 DEF n

(* the rows of a whole segment are those of its records *)
LEMMA DecodedRows ==
  ASSUME TypeOK, NEW q \in Queries, NEW f \in Files, NEW e \in Entries,
         GoodSegment(f, e), e.key = q.key
  PROVE  LET rows == Decoded(SubSeq(locus[f], e.offset + 1, e.offset + e.length)) IN
         /\ rows \in Seq(SoundRows(q))
         /\ Len(rows) = e.length
         /\ \A i \in 1 .. e.length : rows[i].rec = locus[f][e.offset + i].rec
  <1> DEFINE lines == SubSeq(locus[f], e.offset + 1, e.offset + e.length)
             rows == Decoded(lines)
  <1>1. locus[f] \in Seq(Lines) /\ e.offset \in Nat /\ e.length \in Nat
        /\ e.offset + e.length <= Len(locus[f])
    BY DEF TypeOK, Entries, GoodSegment
  <1>2. /\ lines \in Seq(Lines) /\ Len(lines) = e.length
        /\ \A i \in 1 .. e.length : lines[i] = locus[f][e.offset + i]
    <2>1. \A i \in e.offset + 1 .. e.offset + e.length : locus[f][i] \in Lines
      BY <1>1
    <2> DEFINE a == e.offset + 1
               b == e.offset + e.length
    <2>2. a \in Int /\ b \in Int /\ b - a + 1 = e.length /\ (a <= b <=> e.length # 0)
          /\ \A i \in Nat : a + i - 1 = e.offset + i
      BY <1>1
    <2> HIDE DEF a, b
    <2>3. /\ SubSeq(locus[f], a, b) \in Seq(Lines)
          /\ Len(SubSeq(locus[f], a, b)) = IF a <= b THEN b - a + 1 ELSE 0
          /\ \A i \in 1 .. b - a + 1 : SubSeq(locus[f], a, b)[i] = locus[f][a + i - 1]
      <3>1. \A i \in a .. b : locus[f][i] \in Lines
        BY <2>1 DEF a, b
      <3> QED
        BY <2>2, <3>1, SubSeqProperties
    <2>4. SubSeq(locus[f], a, b) = lines
      BY DEF a, b, lines
    <2> HIDE DEF lines
    <2>5. Len(lines) = e.length
      BY <1>1, <2>2, <2>3, <2>4
    <2>6. ASSUME NEW i \in 1 .. e.length PROVE lines[i] = locus[f][e.offset + i]
      <3>1. i \in Nat /\ i \in 1 .. b - a + 1
        BY <2>2
      <3>2. lines[i] = locus[f][a + i - 1]
        BY <2>3, <2>4, <3>1
      <3> QED
        BY <2>2, <3>1, <3>2
    <2> QED
      BY <2>3, <2>4, <2>5, <2>6
  <1> HIDE DEF lines
  <1>3. ASSUME NEW i \in 1 .. e.length
        PROVE  /\ lines[i] \in Lines /\ lines[i].rec \in Records
               /\ KeyOf[lines[i].rec] = q.key
               /\ lines[i] = IF i = 1 THEN Absolute(lines[i].rec)
                             ELSE Relative(lines[i].rec, lines[1].rec)
    <2>1. lines[i] \in Lines /\ lines[i].rec \in Records
      <3>1. i \in DOMAIN lines
        BY <1>1, <1>2
      <3>2. lines[i] \in Lines
        BY <1>2, <3>1
      <3> QED
        BY <3>2 DEF Lines
    <2>2. e.offset + i \in e.offset + 1 .. e.offset + e.length
      BY <1>1
    <2>3. GoodLine(f, e, e.offset + i)
      BY <2>2 DEF GoodSegment
    <2>4. lines[i] = locus[f][e.offset + i] /\ lines[1] = locus[f][e.offset + 1]
      BY <1>1, <1>2
    <2>5. e.offset + i = e.offset + 1 <=> i = 1
      BY <1>1
    <2> QED
      BY <2>1, <2>3, <2>4, <2>5 DEF GoodLine
  <1>4. ASSUME NEW i \in 1 .. e.length
        PROVE  rows[i] \in SoundRows(q)
    <2> DEFINE r == lines[i].rec
               b == lines[1].rec
    <2>1. 1 \in 1 .. e.length
      BY <1>1
    <2>2. r \in Records /\ b \in Records /\ KeyOf[r] = q.key /\ lines[1] = Absolute(b)
      BY <1>3, <2>1
    <2>3. TimeOf[r] \in Int /\ PosOf[r] \in Int /\ TimeOf[b] \in Int /\ PosOf[b] \in Int
      BY <2>2, LocusAssumption
    <2>4. rows[i] = [rec |-> r,
                     time |-> IF i = 1 THEN lines[1].time ELSE lines[1].time + lines[i].time,
                     pos |-> IF i = 1 THEN lines[1].pos ELSE lines[1].pos + lines[i].pos,
                     first |-> i = 1]
      BY <1>2 DEF Decoded
    <2>5. lines[1].time = TimeOf[b] /\ lines[1].pos = PosOf[b]
      BY <2>2 DEF Absolute
    <2>6. CASE i = 1
      BY <2>2, <2>3, <2>4, <2>5, <2>6 DEF SoundRows
    <2>7. CASE i # 1
      <3>1. lines[i].time = TimeOf[r] - TimeOf[b] /\ lines[i].pos = PosOf[r] - PosOf[b]
        <4>1. lines[i] = Relative(r, b)
          BY <1>3, <2>7
        <4> HIDE DEF r, b
        <4> QED
          BY <4>1 DEF Relative
      <3> HIDE DEF r, b, rows
      <3>2. rows[i] = [rec |-> r, time |-> TimeOf[r], pos |-> PosOf[r], first |-> i = 1]
        <4>1. lines[1].time + lines[i].time = TimeOf[r] /\ lines[1].pos + lines[i].pos = PosOf[r]
          BY <2>3, <2>5, <3>1
        <4> QED
          BY <2>4, <2>7, <4>1
      <3>3. rows[i] \in [rec : Records, time : Int, pos : Int, first : BOOLEAN]
        BY <2>2, <2>3, <3>2
      <3>4. rows[i].rec = r /\ rows[i].time = TimeOf[r] /\ rows[i].pos = PosOf[r]
        BY <3>2
      <3> QED
        BY <2>2, <3>3, <3>4 DEF SoundRows
    <2> QED
      BY <2>6, <2>7
  <1>5. rows = [i \in 1 .. e.length |-> rows[i]]
    BY <1>2 DEF Decoded
  <1>8. \A i \in 1 .. e.length : rows[i].rec = locus[f][e.offset + i].rec
    BY <1>2 DEF Decoded
  <1> HIDE DEF rows
  <1>6. rows \in [1 .. e.length -> SoundRows(q)]
    BY <1>4, <1>5
  <1>7. rows \in Seq(SoundRows(q)) /\ Len(rows) = e.length
    BY <1>1, <1>6
  <1> QED
    BY <1>7, <1>8 DEF rows, lines

(* one turn of the loop over the index entries *)
LEMMA ReadSegmentSound ==
  ASSUME TypeOK, NEW q \in Queries, NEW s \in Results(q), NEW f \in Files, NEW e \in Entries,
         GoodSegment(f, e), Owns(q, e)
  PROVE  ReadSegment(q, s, f, e) \in Results(q)
  <1> DEFINE rows == Decoded(SubSeq(locus[f], e.offset + 1, e.offset + e.length))
             t == [s EXCEPT !.check = FALSE]
  <1>1. rows \in Seq(SoundRows(q))
    BY DecodedRows DEF Owns
  <1>2. t \in Results(q)
    BY DEF Results
  <1>3. ReadSegment(q, s, f, e) = s \/ ReadSegment(q, s, f, e) = parse_file_gpsdata(q, t, rows)
    BY DEF ReadSegment
  <1> HIDE DEF rows, t
  <1>4. PICK p \in [0 .. Len(rows) -> Results(q)] :
          p[Len(rows)] = parse_file_gpsdata(q, t, rows)
    BY <1>1, <1>2, ReadRowsTurns
  <1>5. Len(rows) \in 0 .. Len(rows)
    BY <1>1
  <1> QED
    BY <1>3, <1>4, <1>5

LEMMA ReadFileTurns ==
  ASSUME TypeOK, SegmentsWhole, NEW q \in Queries, NEW s \in Results(q), NEW f \in Files
  PROVE  \E p \in [0 .. Len(index[f]) -> Results(q)] :
           /\ p[0] = s /\ p[Len(index[f])] = ReadFile(q, s, f)
           /\ \A i \in 1 .. Len(index[f]) :
                p[i] = IF Owns(q, index[f][i]) THEN ReadSegment(q, p[i - 1], f, index[f][i])
                       ELSE p[i - 1]
  <1> DEFINE n == Len(index[f])
             Parts == SUBSET (1 .. n)
             G == Results(q)
             Turn(acc, e) == IF Owns(q, e) THEN ReadSegment(q, acc, f, e) ELSE acc
             h == [p \in G \X (1 .. n) |-> Turn(p[1], index[f][p[2]])]
             Turns(g) == g = [S \in Parts |->
                                IF S = {} THEN s ELSE Turn(g[S \ {Max(S)}], index[f][Max(S)])]
             it == CHOOSE g : Turns(g)
  <1>1. /\ n \in Nat /\ DOMAIN index[f] = 1 .. n
        /\ \A i \in 1 .. n : index[f][i] \in Entries /\ GoodSegment(f, index[f][i])
    <2>1. index[f] \in Seq(Entries)
      BY DEF TypeOK
    <2> QED
      BY <2>1 DEF SegmentsWhole
  <1>2. ReadFile(q, s, f) = it[1 .. n]
    BY <1>1 DEF ReadFile, FoldLeft, MapThenFoldSet
  <1>3. \A p \in G, i \in 1 .. n : Turn(p, index[f][i]) \in G
    BY <1>1, ReadSegmentSound
  <1>4. h \in [G \X (1 .. n) -> G]
    <2> HIDE DEF Turn
    <2> QED
      BY <1>3
  <1>5. \A p \in G, i \in 1 .. n : h[<<p, i>>] = Turn(p, index[f][i])
    <2> HIDE DEF Turn
    <2> QED
      OBVIOUS
  <1> HIDE DEF h, n, Turn
  <1>6. PICK g \in [Parts -> G] : IsFold(g, h, s, Parts)
    BY <1>1, <1>4, FoldExists
  <1>7. \A S \in Parts : S # {} => S \ {Max(S)} \in Parts /\ Max(S) \in 1 .. n
    BY <1>1, Greatest
  <1>8. Turns(g)
    <2>1. \A S \in Parts : S # {} =>
            h[<<g[S \ {Max(S)}], Max(S)>>] = Turn(g[S \ {Max(S)}], index[f][Max(S)])
      BY <1>5, <1>7
    <2>2. g = [S \in Parts |-> IF S = {} THEN s ELSE h[<<g[S \ {Max(S)}], Max(S)>>]]
      BY <1>6 DEF IsFold
    <2> QED
      BY <2>1, <2>2
  <1>9. Turns(it)
    BY <1>8
  <1> DEFINE X == {S \in Parts : it[S] \in G}
  <1>10. {} \in X
    BY <1>9
  <1>11. ASSUME NEW S \in Parts, S # {}, \A k \in S : S \ {k} \in X
         PROVE  S \in X
    <2>1. Max(S) \in S /\ Max(S) \in 1 .. n
      BY <1>1, <1>11, Greatest
    <2>2. it[S \ {Max(S)}] \in G
      BY <1>11, <2>1
    <2>3. it[S] = Turn(it[S \ {Max(S)}], index[f][Max(S)])
      BY <1>9, <1>11
    <2>4. it[S] \in G
      BY <1>3, <2>1, <2>2, <2>3
    <2> QED
      BY <2>4
  <1> HIDE DEF X
  <1>12. \A S \in Parts : S \in X
    BY <1>1, <1>10, <1>11, PartsInduction
  <1> DEFINE p == [i \in 0 .. n |-> it[1 .. i]]
  <1>13. 1 .. 0 = {} /\ \A i \in 0 .. n : 1 .. i \in Parts
    BY <1>1
  <1>14. \A i \in 0 .. n : it[1 .. i] \in G
    BY <1>12, <1>13 DEF X
  <1>15. it[1 .. 0] = s
    BY <1>9, <1>13
  <1>16. ASSUME NEW i \in 1 .. n
         PROVE  it[1 .. i] = Turn(it[1 .. i - 1], index[f][i])
    <2>1. /\ 1 .. i \in Parts /\ 1 .. i # {}
          /\ Max(1 .. i) = i /\ (1 .. i) \ {i} = 1 .. i - 1
      BY <1>1, LastIndex
    <2> HIDE DEF it
    <2> QED
      BY <1>9, <2>1
  <1> HIDE DEF it
  <1>17. p \in [0 .. n -> G] /\ p[0] = s /\ p[n] = it[1 .. n]
    BY <1>1, <1>14, <1>15
  <1>18. \A i \in 1 .. n : p[i] = Turn(p[i - 1], index[f][i])
    BY <1>1, <1>16
  <1> HIDE DEF p
  <1> QED
    BY <1>2, <1>17, <1>18 DEF n, Turn

(* What the query has collected at every moment that counts: rows of       *)
(* records of the device, in range.  The map iterator points into one of   *)
(* the two maps.                                                           *)
AnswerInv ==
  /\ Answering => query \in Queries /\ result \in Results(query)
  /\ qpc = "scan" => found \in Buffers

LEMMA AnswerInvStep ==
  ASSUME LocusInv, AnswerInv, [Next]_vars
  PROVE  AnswerInv'
  <1>1. CASE \E q \in Queries : StartQuery(q)
    <2>1. PICK q \in Queries : StartQuery(q)
      BY <1>1
    <2>2. NoResult \in Results(q)
      BY DEF NoResult, Results
    <2>3. query' = q /\ result' = NoResult /\ qpc' = "files"
      BY <2>1 DEF StartQuery
    <2>4. result' \in Results(query')
      BY <2>2, <2>3
    <2> QED
      BY <2>3, <2>4 DEF AnswerInv, Results, RowsInRange, SoundRows, InRange
  <1>2. CASE ReadHour
    <2>1. query \in Queries /\ result \in Results(query) /\ query' = query
      BY <1>2 DEF AnswerInv, Answering, ReadHour
    <2>2. result' \in Results(query)
      <3> DEFINE f == <<hour, BucketOf[query.key]>>
      <3>1. result' = ReadFile(query, result, f)
        BY <1>2 DEF ReadHour
      <3>2. CASE f \notin Files
        BY <2>1, <3>1, <3>2 DEF ReadFile
      <3>3. CASE f \in Files
        <4> HIDE DEF f
        <4>1. PICK p \in [0 .. Len(index[f]) -> Results(query)] :
                p[Len(index[f])] = ReadFile(query, result, f)
          BY <2>1, <3>3, ReadFileTurns DEF LocusInv
        <4>2. Len(index[f]) \in 0 .. Len(index[f])
          BY <3>3 DEF LocusInv, TypeOK
        <4> QED
          BY <3>1, <4>1, <4>2
      <3> QED
        BY <3>2, <3>3
    <2>3. qpc' # "scan"
      BY <1>2 DEF ReadHour
    <2> QED
      BY <2>1, <2>2, <2>3 DEF AnswerInv, Results, RowsInRange, SoundRows, InRange
  <1>3. CASE FindVector
    <2>1. query \in Queries /\ result \in Results(query) /\ query' = query /\ result' = result
      BY <1>3 DEF AnswerInv, Answering, FindVector
    <2>2. found' \in Buffers
      BY <1>3 DEF FindVector, LocusInv, TypeOK
    <2> QED
      BY <2>1, <2>2 DEF AnswerInv, Results, RowsInRange, SoundRows, InRange
  <1>4. CASE ScanVector
    <2>1. query \in Queries /\ result \in Results(query) /\ query' = query /\ found \in Buffers
      BY <1>4 DEF AnswerInv, Answering, ScanVector
    <2>2. query.key \in Keys
      BY <2>1, LocusAssumption
    <2>3. /\ mem[found][query.key] \in Seq(Records)
          /\ \A i \in DOMAIN mem[found][query.key] : KeyOf[mem[found][query.key][i]] = query.key
      BY <2>1, <2>2 DEF LocusInv, TypeOK, OwnVectors
    <2>4. FoldLeft(LAMBDA acc, r : ScanRow(query, acc, r), result, mem[found][query.key])
            \in Results(query)
      <3> DEFINE v == mem[found][query.key]
      <3>1. v \in Seq(Records) /\ \A i \in DOMAIN v : KeyOf[v[i]] = query.key
        BY <2>3
      <3> HIDE DEF v
      <3>2. PICK p \in [0 .. Len(v) -> Results(query)] :
              p[Len(v)] = FoldLeft(LAMBDA acc, r : ScanRow(query, acc, r), result, v)
        BY <2>1, <3>1, ScanTurns
      <3>3. Len(v) \in 0 .. Len(v)
        BY <3>1
      <3> QED
        BY <3>2, <3>3 DEF v
    <2>5. result' \in Results(query) /\ qpc' = "done"
      BY <1>4, <2>4 DEF ScanVector
    <2> QED
      BY <2>1, <2>5 DEF AnswerInv, Results, RowsInRange, SoundRows, InRange
  <1>5. CASE Kill
    BY <1>5 DEF Kill, AnswerInv, Answering
  <1>6. CASE (\E r \in Records : Store(r)) \/ BeginPass \/ ChildStep \/ EndPass \/ UNCHANGED vars
    <2>1. (qpc' = qpc \/ qpc' = "undefined") /\ UNCHANGED <<query, result, found>>
      BY <1>6 DEF ChildStep, Store, BeginPass, NextKey, OpenSegment, OpenFails, WriteBase,
         WriteDelta, PressRecord, FinishKey, EndPass, reader, vars
    <2> QED
      BY <2>1 DEF AnswerInv, Answering, Results, RowsInRange, SoundRows, InRange
  <1> QED
    BY <1>1, <1>2, <1>3, <1>4, <1>5, <1>6 DEF Next, QueryStep

(* Whatever passes, kills and failures happen, a row of an answer decodes  *)
(* to time and position of a record of the device asked for, in range:     *)
(* what MemToLocusFile writes is what parse_file_gpsdata reads.            *)
THEOREM AnswersAreSound == Spec => []AnswerSound
  <1>1. Init => AnswerInv
    BY DEF Init, AnswerInv, Answering
  <1>2. LocusInv /\ AnswerInv /\ [Next]_vars => AnswerInv'
    BY AnswerInvStep
  <1>3. AnswerInv => AnswerSound
    <2> SUFFICES ASSUME AnswerInv, Answering, NEW row \in Held(result.rows)
                 PROVE  /\ KeyOf[row.rec] = query.key
                        /\ row.time = TimeOf[row.rec]
                        /\ row.pos = PosOf[row.rec]
                        /\ InRange(query, row.rec)
      BY DEF AnswerSound
    <2>1. result.rows \in Seq(RowsInRange(query))
      BY DEF AnswerInv, Results
    <2>2. row \in RowsInRange(query)
      BY <2>1 DEF Held
    <2> QED
      BY <2>2 DEF RowsInRange, SoundRows
  <1> QED
    BY <1>1, <1>2, <1>3, LocusCorrect, PTL DEF Spec

-----------------------------------------------------------------------------
(* Where the records of a device are: in a line of a file, dropped, still  *)
(* to be filed by the pass, or in the current map.                         *)

VectorsFit == \A b \in Buffers, k \in Keys : Len(mem[b][k]) < IndexRange

(* k sent r and then s *)
Before(k, r, s) ==
  \E m, n \in DOMAIN arrived[k] : m < n /\ arrived[k][m] = r /\ arrived[k][n] = s

Current(k) == mem[active][k]
Old(k)     == Retired[k]

LineOf(k, f, i) == f \in Files /\ i \in DOMAIN locus[f] /\ KeyOf[locus[f][i].rec] = k
LineRec(f, i)   == locus[f][i].rec

Filed(k)   == {r \in Records : KeyOf[r] = k /\ \E f \in Files : \E i \in DOMAIN locus[f] :
                                                 LineRec(f, i) = r}
Dropped(k) == {r \in Records : KeyOf[r] = k /\ (r \in lost \/ \E p \in pressed : p[1] = r)}
Pending(k) == {i \in DOMAIN Old(k) : k \in todo /\ (key = k => usNum < i)}
Waiting(k) == {Old(k)[i] : i \in Pending(k)}

(* the line is in a segment with an index entry *)
Covered(f, i) ==
  \E j \in DOMAIN index[f] : i \in index[f][j].offset + 1 .. index[f][j].offset + index[f][j].length

(* a line that stands before another in the order in which files are read  *)
Earlier(f, i, g, j) == f[1] < g[1] \/ (f = g /\ i < j)

-----------------------------------------------------------------------------
(* The two buffers, for a device that no kill has caught in a pass: its    *)
(* logs are its maps, but of a pass that has ended.                        *)
LogsMatch ==
  /\ ppc = "wait" => todo = {}
  /\ key # None => key \in todo
  /\ ppc = "wait" /\ active = 1 => log[2] = Empty
  /\ \A k \in Keys \ disturbed :
       /\ log[active][k] = Current(k)
       /\ log[Other(active)][k] = IF ppc = "filing" THEN Old(k) ELSE <<>>
       /\ k \in todo => Old(k) # <<>>

(* each record of the device is in one place, and the places are in order  *)
Placed(k) ==
  /\ Held(arrived[k]) = Filed(k) \cup Dropped(k) \cup Waiting(k) \cup Held(Current(k))
  /\ Filed(k) \cap Dropped(k) = {}
  /\ \A r \in Filed(k) \cup Dropped(k), s \in Waiting(k) \cup Held(Current(k)) : Before(k, r, s)
  /\ \A r \in Waiting(k), s \in Held(Current(k)) : Before(k, r, s)
  /\ \A i, j \in Pending(k) : i < j => Before(k, Old(k)[i], Old(k)[j])
  /\ \A i, j \in DOMAIN Current(k) : i < j => Before(k, Current(k)[i], Current(k)[j])

(* the lines of the device are in the order of the files                   *)
LinesPlaced(k) ==
  /\ \A f, g \in Files : \A i \in DOMAIN locus[f], j \in DOMAIN locus[g] :
       LineOf(k, f, i) /\ LineOf(k, g, j) /\ Earlier(f, i, g, j)
         => Before(k, LineRec(f, i), LineRec(g, j))
  /\ \A f \in Files : \A i \in DOMAIN locus[f] : LineOf(k, f, i) =>
       /\ f[2] = BucketOf[k]
       /\ f[1] <= HourOf(TimeOf[LineRec(f, i)])
       /\ Covered(f, i) \/ (fdLocus = f /\ key = k /\ i > stLocusIndex.offset)
  /\ key = k /\ fdLocus # None =>
       /\ fdLocus[2] = BucketOf[k]
       /\ \A f \in Files : \A i \in DOMAIN locus[f] : LineOf(k, f, i) => f[1] <= fdLocus[1]
       /\ \A i \in Pending(k) : fdLocus[1] <= HourOf(TimeOf[Old(k)[i]])

ArrivedOnce ==
  /\ arrived \in [Keys -> Seq(Records)]
  /\ \A k \in Keys : \A i, j \in DOMAIN arrived[k] : arrived[k][i] = arrived[k][j] => i = j
  /\ \A k \in Keys : \A r \in Held(arrived[k]) : KeyOf[r] = k

OrderInv ==
  /\ ArrivedOnce
  /\ LogsMatch
  /\ \A k \in Keys : Orderly(k) => Placed(k) /\ LinesPlaced(k)

-----------------------------------------------------------------------------
(* What sending in order says.                                             *)

LEMMA BeforeFacts ==
  ASSUME ArrivedOnce, NEW k \in Keys, NEW r, NEW s, Before(k, r, s)
  PROVE  /\ r \in Held(arrived[k]) /\ s \in Held(arrived[k])
         /\ r \in Records /\ s \in Records
         /\ r # s /\ ~Before(k, s, r)
  <1>1. arrived[k] \in Seq(Records)
    BY DEF ArrivedOnce
  <1>2. PICK m, n \in DOMAIN arrived[k] : m < n /\ arrived[k][m] = r /\ arrived[k][n] = s
    BY DEF Before
  <1>3. \A m1, n1 \in DOMAIN arrived[k] : arrived[k][m1] = arrived[k][n1] => m1 = n1
    BY DEF ArrivedOnce
  <1>4. r # s
    <2>1. m # n
      BY <1>1, <1>2
    <2> QED
      BY <1>2, <1>3, <2>1
  <1>5. ASSUME Before(k, s, r) PROVE FALSE
    <2>1. PICK m1, n1 \in DOMAIN arrived[k] : m1 < n1 /\ arrived[k][m1] = s /\ arrived[k][n1] = r
      BY <1>5 DEF Before
    <2>2. m1 = n /\ n1 = m
      BY <1>2, <1>3, <2>1, Zenon
    <2> QED
      BY <1>1, <1>2, <2>1, <2>2
  <1>6. r \in Held(arrived[k]) /\ s \in Held(arrived[k])
    BY <1>2 DEF Held
  <1>7. r \in Records /\ s \in Records
    BY <1>1, <1>2
  <1> QED
    BY <1>4, <1>5, <1>6, <1>7

(* k sends r, the last of its records *)
LEMMA SentLast ==
  ASSUME ArrivedOnce, NEW k \in Keys, NEW r \in Records,
         arrived'[k] = Append(arrived[k], r)
  PROVE  /\ Held(arrived[k])' = Held(arrived[k]) \cup {r}
         /\ \A s \in Held(arrived[k]) : Before(k, s, r)'
         /\ \A s, t : Before(k, s, t) => Before(k, s, t)'
  <1> DEFINE n == Len(arrived[k])
  <1>1. arrived[k] \in Seq(Records) /\ n \in Nat /\ DOMAIN arrived[k] = 1 .. n
    BY DEF ArrivedOnce
  <1>2. /\ DOMAIN arrived'[k] = 1 .. n + 1
        /\ \A i \in 1 .. n : arrived'[k][i] = arrived[k][i]
        /\ arrived'[k][n + 1] = r
    BY <1>1
  <1> HIDE DEF n
  <1>3. \A i \in 1 .. n : i \in 1 .. n + 1 /\ i < n + 1
    BY <1>1
  <1>4. n + 1 \in 1 .. n + 1 /\ \A i \in 1 .. n + 1 : i \in 1 .. n \/ i = n + 1
    BY <1>1
  <1>5. Held(arrived[k])' = Held(arrived[k]) \cup {r}
    <2>1. \A s \in Held(arrived[k])' : s \in Held(arrived[k]) \cup {r}
      BY <1>1, <1>2, <1>4, Zenon DEF Held
    <2>2. \A s \in Held(arrived[k]) \cup {r} : s \in Held(arrived[k])'
      BY <1>1, <1>2, <1>3, <1>4, Zenon DEF Held
    <2> QED
      BY <2>1, <2>2
  <1>6. ASSUME NEW s \in Held(arrived[k]) PROVE Before(k, s, r)'
    <2>1. PICK i \in 1 .. n : arrived[k][i] = s
      BY <1>1 DEF Held
    <2> QED
      BY <1>2, <1>3, <1>4, <2>1, Zenon DEF Before
  <1>7. ASSUME NEW s, NEW t, Before(k, s, t) PROVE Before(k, s, t)'
    <2>1. PICK i, j \in 1 .. n : i < j /\ arrived[k][i] = s /\ arrived[k][j] = t
      BY <1>1, <1>7 DEF Before
    <2> QED
      BY <1>2, <1>3, <2>1, Zenon DEF Before
  <1> QED
    BY <1>5, <1>6, <1>7

LEMMA BeforeTime ==
  ASSUME NEW k \in Keys, Orderly(k), NEW r, NEW s, Before(k, r, s)
  PROVE  TimeOf[r] <= TimeOf[s]
  BY DEF Orderly, InOrder, Before

LEMMA HourInOrder ==
  ASSUME NEW t \in Nat, NEW u \in Nat, t <= u
  PROVE  HourOf(t) <= HourOf(u) /\ HourOf(t) \in Nat /\ HourOf(u) \in Nat
  <1>1. HourTicks \in Nat /\ HourTicks > 0
    BY LocusAssumption
  <1> QED
    BY <1>1, SMTT(30) DEF HourOf

LEMMA BeforeHour ==
  ASSUME ArrivedOnce, NEW k \in Keys, Orderly(k), NEW r, NEW s, Before(k, r, s)
  PROVE  HourOf(TimeOf[r]) <= HourOf(TimeOf[s])
  <1>1. r \in Records /\ s \in Records
    BY BeforeFacts
  <1>2. TimeOf[r] \in Nat /\ TimeOf[s] \in Nat
    BY <1>1, LocusAssumption
  <1> QED
    BY <1>2, BeforeTime, HourInOrder

(* a device that is in order now has been so before *)
LEMMA ArrivedStep ==
  ASSUME [Next]_vars
  PROVE  \/ arrived' = arrived
         \/ \E r \in Records : Store(r)
  BY DEF Next, ChildStep, QueryStep, BeginPass, NextKey, OpenSegment, OpenFails, WriteBase,
     WriteDelta, PressRecord, FinishKey, EndPass, StartQuery, ReadHour, FindVector, ScanVector,
     Kill, history, vars

LEMMA StoreArrived ==
  ASSUME ArrivedOnce, NEW r \in Records, Store(r)
  PROVE  /\ KeyOf[r] \in Keys /\ r \notin Held(arrived[KeyOf[r]])
         /\ arrived'[KeyOf[r]] = Append(arrived[KeyOf[r]], r)
         /\ \A k \in Keys : k # KeyOf[r] => arrived'[k] = arrived[k]
         /\ arrived' \in [Keys -> Seq(Records)]
  <1>1. KeyOf[r] \in Keys
    BY LocusAssumption
  <1>2. arrived' = [arrived EXCEPT ![KeyOf[r]] = Append(@, r)] /\ r \notin Held(arrived[KeyOf[r]])
    BY DEF Store
  <1>3. arrived \in [Keys -> Seq(Records)]
    BY DEF ArrivedOnce
  <1>4. Append(arrived[KeyOf[r]], r) \in Seq(Records)
    BY <1>1, <1>3
  <1> QED
    BY <1>1, <1>2, <1>3, <1>4

LEMMA OrderlyBefore ==
  ASSUME ArrivedOnce, [Next]_vars, NEW k \in Keys, Orderly(k)'
  PROVE  Orderly(k)
  <1>1. disturbed \subseteq disturbed'
    BY DEF Next, ChildStep, QueryStep, Store, BeginPass, NextKey, OpenSegment, OpenFails, WriteBase,
     WriteDelta, PressRecord, FinishKey, EndPass, StartQuery, ReadHour, FindVector, ScanVector,
     Kill, history, vars
  <1>2. InOrder(k)
    <2>1. CASE arrived'[k] = arrived[k]
      BY <2>1 DEF Orderly, InOrder
    <2>2. ASSUME NEW r \in Records, arrived'[k] = Append(arrived[k], r)
          PROVE  InOrder(k)
      <3>1. arrived[k] \in Seq(Records)
        BY DEF ArrivedOnce
      <3>2. \A i \in DOMAIN arrived[k] : i \in DOMAIN arrived'[k] /\ arrived'[k][i] = arrived[k][i]
        BY <2>2, <3>1
      <3> QED
        BY <3>2 DEF Orderly, InOrder
    <2> QED
      BY <2>1, <2>2, ArrivedStep, StoreArrived
  <1> QED
    BY <1>1, <1>2 DEF Orderly

LEMMA ArrivedNext ==
  ASSUME ArrivedOnce, [Next]_vars
  PROVE  ArrivedOnce'
  <1>1. CASE arrived' = arrived
    BY <1>1 DEF ArrivedOnce
  <1>2. ASSUME NEW r \in Records, Store(r) PROVE ArrivedOnce'
    <2> DEFINE k == KeyOf[r]
    <2>1. /\ k \in Keys /\ r \notin Held(arrived[k])
          /\ arrived'[k] = Append(arrived[k], r)
          /\ \A k1 \in Keys : k1 # k => arrived'[k1] = arrived[k1]
          /\ arrived' \in [Keys -> Seq(Records)]
      BY <1>2, StoreArrived
    <2> HIDE DEF k
    <2>2. arrived[k] \in Seq(Records)
      BY <2>1 DEF ArrivedOnce
    <2>3. ASSUME NEW i \in DOMAIN arrived'[k], NEW j \in DOMAIN arrived'[k],
                 arrived'[k][i] = arrived'[k][j]
          PROVE  i = j
      <3>1. \A n \in DOMAIN arrived'[k] :
              \/ n \in DOMAIN arrived[k] /\ arrived'[k][n] = arrived[k][n]
              \/ n = Len(arrived[k]) + 1 /\ arrived'[k][n] = r
        BY <2>1, <2>2
      <3>2. \A n \in DOMAIN arrived[k] : arrived[k][n] # r
        BY <2>1 DEF Held
      <3> QED
        BY <2>1, <2>3, <3>1, <3>2 DEF ArrivedOnce
    <2>4. \A s \in Held(arrived'[k]) : KeyOf[s] = k
      <3>1. Held(arrived'[k]) = Held(arrived[k]) \cup {r}
        BY <2>1, SentLast
      <3> QED
        BY <2>1, <3>1 DEF ArrivedOnce, k
    <2> QED
      BY <2>1, <2>3, <2>4 DEF ArrivedOnce
  <1> QED
    BY <1>1, <1>2, ArrivedStep

-----------------------------------------------------------------------------
(* The logs match the maps.                                                *)

LEMMA MapFacts ==
  ASSUME TypeOK, OwnVectors, NEW k \in Keys
  PROVE  /\ active \in Buffers /\ Other(active) \in Buffers /\ Other(active) # active
         /\ Current(k) \in Seq(Records) /\ Old(k) \in Seq(Records)
         /\ \A i \in DOMAIN Current(k) : Current(k)[i] \in Records /\ KeyOf[Current(k)[i]] = k
         /\ \A i \in DOMAIN Old(k) : Old(k)[i] \in Records /\ KeyOf[Old(k)[i]] = k
         /\ Held(Current(k)) \subseteq Records
         /\ Pending(k) \subseteq DOMAIN Old(k) /\ Waiting(k) \subseteq Records
         /\ \A i \in Pending(k) : i \in Nat
  <1>1. active \in Buffers /\ Other(active) \in Buffers /\ Other(active) # active
    BY BufferFacts DEF TypeOK
  <1>2. Current(k) \in Seq(Records) /\ Old(k) \in Seq(Records)
    BY <1>1 DEF TypeOK, Current, Old, Retired
  <1>3. /\ \A i \in DOMAIN Current(k) : Current(k)[i] \in Records /\ KeyOf[Current(k)[i]] = k
        /\ \A i \in DOMAIN Old(k) : Old(k)[i] \in Records /\ KeyOf[Old(k)[i]] = k
    <2>1. /\ \A i \in DOMAIN Current(k) : KeyOf[Current(k)[i]] = k
          /\ \A i \in DOMAIN Old(k) : KeyOf[Old(k)[i]] = k
      BY <1>1 DEF OwnVectors, Current, Old, Retired
    <2>2. /\ \A i \in DOMAIN Current(k) : Current(k)[i] \in Records
          /\ \A i \in DOMAIN Old(k) : Old(k)[i] \in Records
      BY <1>2
    <2> QED
      BY <2>1, <2>2
  <1>4. Pending(k) \subseteq DOMAIN Old(k)
    BY DEF Pending
  <1>5. Held(Current(k)) \subseteq Records /\ Waiting(k) \subseteq Records
    BY <1>3, <1>4, Zenon DEF Held, Waiting
  <1>6. \A i \in Pending(k) : i \in Nat
    BY <1>2, <1>4
  <1> QED
    BY <1>1, <1>2, <1>3, <1>4, <1>5, <1>6

LEMMA StoreLogs ==
  ASSUME TypeOK, LogsMatch, NEW r \in Records, Store(r)
  PROVE  LogsMatch'
  <1> DEFINE a == active
             o == Other(active)
  <1>1. a \in Buffers /\ o \in Buffers /\ o # a
    BY BufferFacts DEF TypeOK
  <1>2. /\ mem \in [Buffers -> [Keys -> Seq(Records)]] /\ log \in [Buffers -> [Keys -> Seq(Records)]]
        /\ KeyOf[r] \in Keys
    BY LocusAssumption DEF TypeOK
  <1>3. /\ mem' = [mem EXCEPT ![a][KeyOf[r]] = Append(@, r)]
        /\ log' = [log EXCEPT ![a][KeyOf[r]] = Append(@, r)]
        /\ UNCHANGED <<active, ppc, todo, key, disturbed>>
    BY DEF Store, child
  <1>4. Other(active)' = o
    BY <1>3 DEF Other
  <1>5. log'[o] = log[o] /\ mem'[o] = mem[o]
    BY <1>1, <1>2, <1>3
  <1>6. ASSUME NEW k \in Keys, log[a][k] = mem[a][k] PROVE log'[a][k] = mem'[a][k]
    BY <1>1, <1>2, <1>3, <1>6
  <1>7. Retired' = Retired
    BY <1>4, <1>5 DEF Retired
  <1>8. /\ ppc' = "wait" => todo' = {}
        /\ key' # None => key' \in todo'
    BY <1>3 DEF LogsMatch
  <1>9. ppc' = "wait" /\ active' = 1 => log'[2] = Empty
    <2>1. a = 1 => o = 2
      BY DEF Other
    <2> QED
      BY <1>3, <1>5, <2>1 DEF LogsMatch
  <1>10. ASSUME NEW k \in Keys \ disturbed
         PROVE  /\ log'[a][k] = mem'[a][k]
                /\ log'[o][k] = IF ppc = "filing" THEN Retired[k] ELSE <<>>
                /\ k \in todo => Retired[k] # <<>>
    BY <1>5, <1>6 DEF LogsMatch, Current, Old
  <1> HIDE DEF a, o
  <1> QED
    BY <1>3, <1>4, <1>7, <1>8, <1>9, <1>10 DEF LogsMatch, Current, Old, a, o

LEMMA BeginLogs ==
  ASSUME TypeOK, LogsMatch, BeginPass
  PROVE  LogsMatch'
  <1> DEFINE a == active
             o == Other(active)
  <1>1. a \in Buffers /\ o \in Buffers /\ o # a /\ Other(o) = a
    BY BufferFacts DEF TypeOK
  <1>2. /\ mem' = [mem EXCEPT ![o] = Empty] /\ active' = o /\ log' = log
        /\ ppc = "wait" /\ ppc' = "filing" /\ todo' = {k \in Keys : mem[a][k] # <<>>}
        /\ key' = key /\ disturbed' = disturbed
    BY DEF BeginPass, IdleMapCleared, history
  <1>3. mem \in [Buffers -> [Keys -> Seq(Records)]] /\ key = None
    BY <1>2 DEF TypeOK
  <1>4. mem'[o] = Empty /\ mem'[a] = mem[a]
    BY <1>1, <1>2, <1>3
  <1>5. Other(active)' = a /\ Retired' = mem[a]
    BY <1>1, <1>2, <1>4 DEF Other, Retired
  <1>6. ASSUME NEW k \in Keys \ disturbed
        PROVE  log[o][k] = mem'[o][k] /\ log[a][k] = mem[a][k]
    <2>1. log[o][k] = <<>> /\ log[a][k] = mem[a][k]
      BY <1>2 DEF LogsMatch, Current
    <2>2. mem'[o][k] = <<>>
      BY <1>4 DEF Empty
    <2> QED
      BY <2>1, <2>2
  <1> HIDE DEF a, o
  <1> QED
    BY <1>2, <1>3, <1>5, <1>6 DEF LogsMatch, Current, Old

LEMMA EndLogs ==
  ASSUME TypeOK, LogsMatch, EndPass
  PROVE  LogsMatch'
  <1> DEFINE a == active
             o == Other(active)
  <1>1. a \in Buffers /\ o \in Buffers /\ o # a
    BY BufferFacts DEF TypeOK
  <1>2. /\ log' = [log EXCEPT ![o] = Empty] /\ ppc' = "wait"
        /\ UNCHANGED <<mem, active, todo, key, disturbed>>
        /\ todo = {} /\ key = None
    BY DEF EndPass, history
  <1>3. log \in [Buffers -> [Keys -> Seq(Records)]]
    BY DEF TypeOK
  <1>4. log'[o] = Empty /\ log'[a] = log[a]
    BY <1>1, <1>2, <1>3
  <1>5. Other(active)' = o /\ Retired' = Retired
    BY <1>2 DEF Other, Retired
  <1>6. a = 1 => o = 2
    BY DEF Other
  <1>7. \A k \in Keys : log'[o][k] = <<>>
    BY <1>4 DEF Empty
  <1> HIDE DEF a, o
  <1> QED
    BY <1>2, <1>4, <1>5, <1>6, <1>7 DEF LogsMatch, Current, Old, a

LEMMA KillLogs ==
  ASSUME TypeOK, LogsMatch, Kill
  PROVE  LogsMatch'
  <1>1. active \in Buffers /\ log \in [Buffers -> [Keys -> Seq(Records)]]
    BY DEF TypeOK
  <1>2. /\ mem' = log /\ log' = log /\ active' = RecoveredBuffer
        /\ ppc' = "wait" /\ todo' = {} /\ key' = None
        /\ disturbed' = IF ppc = "filing"
                        THEN disturbed \cup {k \in Keys : \E b \in Buffers : log[b][k] # <<>>}
                        ELSE disturbed
    BY DEF Kill
  <1>3. active' \in Buffers /\ Other(active)' \in Buffers /\ Other(active)' # active'
    BY <1>2 DEF RecoveredBuffer, Buffers, Other
  <1>4. active' = 1 => log[2] = Empty
    BY <1>2 DEF RecoveredBuffer
  <1>5. ASSUME NEW k \in Keys \ disturbed'
        PROVE  log[Other(active)'][k] = <<>>
    <2>1. CASE ppc = "filing"
      BY <1>2, <1>3, <2>1
    <2>2. CASE ppc # "filing"
      <3>1. ppc = "wait" /\ k \notin disturbed
        BY <1>2, <2>2 DEF TypeOK
      <3>2. log[Other(active)][k] = <<>>
        BY <3>1 DEF LogsMatch
      <3>3. CASE active' = active
        BY <3>2, <3>3 DEF Other
      <3>4. CASE active' = 1 /\ active = 2
        <4>1. Other(active)' = 2
          BY <3>4 DEF Other
        <4> QED
          BY <1>4, <3>4, <4>1 DEF Empty
      <3>5. CASE active' = 2 /\ active = 1
        BY <1>2, <3>1, <3>5 DEF LogsMatch, RecoveredBuffer
      <3> QED
        BY <1>1, <1>3, <3>3, <3>4, <3>5 DEF Buffers
    <2> QED
      BY <2>1, <2>2
  <1> QED
    BY <1>2, <1>4, <1>5 DEF LogsMatch, Current, Old, Retired

LEMMA LogsNext ==
  ASSUME TypeOK, LogsMatch, [Next]_vars
  PROVE  LogsMatch'
  <1>1. CASE /\ UNCHANGED <<mem, log, active, ppc, disturbed>>
             /\ todo' \subseteq todo /\ (ppc = "wait" => todo' = {})
             /\ key' # None => key' \in todo'
    <2>1. Retired' = Retired
      BY <1>1 DEF Retired, Other
    <2>2. Other(active)' = Other(active)
      BY <1>1 DEF Other
    <2> QED
      BY <1>1, <2>1, <2>2 DEF LogsMatch, Current, Old
  <1>2. CASE \E k \in Keys : NextKey(k)
    BY <1>1, <1>2 DEF NextKey, buffers, history, LogsMatch
  <1>3. CASE OpenSegment \/ WriteBase \/ WriteDelta \/ PressRecord
    BY <1>1, <1>3 DEF OpenSegment, WriteBase, WriteDelta, PressRecord, buffers, history, LogsMatch
  <1>4. CASE OpenFails
    BY <1>1, <1>4 DEF OpenFails, buffers, LogsMatch
  <1>5. CASE FinishKey
    BY <1>1, <1>5 DEF FinishKey, buffers, history, LogsMatch
  <1>6. CASE QueryStep \/ (\E q \in Queries : StartQuery(q)) \/ UNCHANGED vars
    <2>1. UNCHANGED <<mem, log, active, ppc, disturbed, todo, key>>
      BY <1>6 DEF QueryStep, ReadHour, FindVector, ScanVector, StartQuery, buffers, child,
         history, vars
    <2> QED
      BY <1>1, <2>1 DEF LogsMatch
  <1> QED
    BY <1>2, <1>3, <1>4, <1>5, <1>6, StoreLogs, BeginLogs, EndLogs, KillLogs DEF Next, ChildStep

-----------------------------------------------------------------------------
(* A record is in one place.                                               *)

LEMMA PlacedSame ==
  ASSUME NEW k \in Keys, Placed(k), arrived'[k] = arrived[k], Current(k)' = Current(k),
         Old(k)' = Old(k), Pending(k)' = Pending(k),
         Filed(k)' = Filed(k), Dropped(k)' = Dropped(k)
  PROVE  Placed(k)'
  <1>1. Waiting(k)' = Waiting(k)
    BY DEF Waiting
  <1>2. \A r, s : Before(k, r, s)' <=> Before(k, r, s)
    BY DEF Before
  <1> QED
    BY <1>1, <1>2, Zenon DEF Placed

(* the records at X leave the retired vector, before those that remain *)
LEMMA PlacedMoves ==
  ASSUME NEW k \in Keys, Placed(k), arrived'[k] = arrived[k], Current(k)' = Current(k),
         Old(k)' = Old(k), NEW X, X \subseteq Pending(k), Pending(k)' = Pending(k) \ X,
         \A i \in X, j \in Pending(k) \ X : i < j,
         Filed(k)' \cup Dropped(k)' = Filed(k) \cup Dropped(k) \cup {Old(k)[i] : i \in X},
         Filed(k)' \cap Dropped(k)' = {}
  PROVE  Placed(k)'
  <1> DEFINE M == {Old(k)[i] : i \in X}
             W == {Old(k)[i] : i \in Pending(k) \ X}
             G == Filed(k) \cup Dropped(k)
             C == Held(Current(k))
  <1>1. Waiting(k)' = W /\ Waiting(k) = M \cup W /\ Held(Current(k))' = C
    BY DEF Waiting
  <1>2. \A r, s : Before(k, r, s)' <=> Before(k, r, s)
    BY DEF Before
  <1>3. \A r \in M, s \in W : Before(k, r, s)
    BY DEF Placed
  <1>4. \A r \in G \cup M, s \in W \cup C : Before(k, r, s)
    BY <1>1, <1>3 DEF Placed
  <1>5. \A r \in W, s \in C : Before(k, r, s)
    BY <1>1 DEF Placed
  <1>6. \A i, j \in Pending(k) \ X : i < j => Before(k, Old(k)[i], Old(k)[j])
    BY DEF Placed
  <1>7. Held(arrived[k]) = G \cup M \cup W \cup C
    BY <1>1 DEF Placed
  <1>8. \A i, j \in DOMAIN Current(k) : i < j => Before(k, Current(k)[i], Current(k)[j])
    BY DEF Placed
  <1> HIDE DEF M, W, G, C
  <1>9. Filed(k)' \cup Dropped(k)' = G \cup M
    BY DEF G, M
  <1>10. Held(arrived[k])' = Filed(k)' \cup Dropped(k)' \cup Waiting(k)' \cup Held(Current(k))'
    BY <1>1, <1>7, <1>9 DEF Held
  <1>11. \A r \in Filed(k)' \cup Dropped(k)', s \in Waiting(k)' \cup Held(Current(k))' : Before(k, r, s)'
    BY <1>1, <1>2, <1>4, <1>9
  <1>12. \A r \in Waiting(k)', s \in Held(Current(k))' : Before(k, r, s)'
    BY <1>1, <1>2, <1>5
  <1>13. \A i, j \in Pending(k)' : i < j => Before(k, Old(k)[i], Old(k)[j])'
    BY <1>2, <1>6
  <1>14. \A i, j \in DOMAIN Current(k)' : i < j => Before(k, Current(k)[i], Current(k)[j])'
    BY <1>2, <1>8
  <1> QED
    BY <1>10, <1>11, <1>12, <1>13, <1>14 DEF Placed

LEMMA FiledSame ==
  ASSUME locus' = locus, NEW k
  PROVE  Filed(k)' = Filed(k)
  BY DEF Filed, LineRec

LEMMA StorePlaced ==
  ASSUME LocusInv, ArrivedOnce, NEW r \in Records, Store(r), NEW k \in Keys, Placed(k)
  PROVE  Placed(k)'
  <1> DEFINE c == KeyOf[r]
  <1>0. TypeOK /\ OwnVectors
    BY DEF LocusInv
  <1>1. /\ mem' = [mem EXCEPT ![active][c] = Append(@, r)]
        /\ UNCHANGED <<active, locus, lost, pressed, todo, key, usNum>>
    BY DEF Store, child, files
  <1>2. /\ active \in Buffers /\ Other(active) \in Buffers /\ Other(active) # active
        /\ mem \in [Buffers -> [Keys -> Seq(Records)]]
    BY <1>0, MapFacts DEF TypeOK
  <1>3. Other(active)' = Other(active) /\ Retired' = Retired
    <2>1. Other(active)' = Other(active)
      BY <1>1 DEF Other
    <2>2. mem'[Other(active)] = mem[Other(active)]
      BY <1>1, <1>2
    <2> QED
      BY <2>1, <2>2 DEF Retired
  <1>4. Old(k)' = Old(k) /\ Pending(k)' = Pending(k)
    BY <1>1, <1>3 DEF Old, Pending
  <1>5. Filed(k)' = Filed(k) /\ Dropped(k)' = Dropped(k)
    BY <1>1, FiledSame DEF Dropped
  <1>6. /\ c \in Keys /\ r \notin Held(arrived[c])
        /\ arrived'[c] = Append(arrived[c], r)
        /\ \A k1 \in Keys : k1 # c => arrived'[k1] = arrived[k1]
    BY StoreArrived
  <1> HIDE DEF c
  <1>7. CASE k # c
    <2>1. Current(k)' = Current(k)
      BY <1>1, <1>2, <1>7 DEF Current
    <2> QED
      BY <1>4, <1>5, <1>6, <1>7, <2>1, PlacedSame
  <1>8. CASE k = c
    <2> DEFINE v == Current(k)
    <2>1. v \in Seq(Records) /\ Current(k)' = Append(v, r)
      BY <1>0, <1>1, <1>2, <1>8, MapFacts DEF Current
    <2>2. /\ Held(arrived[k])' = Held(arrived[k]) \cup {r}
          /\ \A s \in Held(arrived[k]) : Before(k, s, r)'
          /\ \A s, t : Before(k, s, t) => Before(k, s, t)'
      BY <1>6, <1>8, SentLast
    <2>3. Waiting(k)' = Waiting(k)
      BY <1>4 DEF Waiting
    <2> DEFINE n == Len(v)
    <2>4. /\ DOMAIN v = 1 .. n /\ DOMAIN Current(k)' = 1 .. n + 1 /\ n \in Nat
          /\ \A i \in 1 .. n : Current(k)'[i] = v[i]
          /\ Current(k)'[n + 1] = r
      BY <2>1
    <2>5. Held(Current(k))' = Held(v) \cup {r}
      <3>1. \A i \in 1 .. n + 1 : i \in 1 .. n \/ i = n + 1
        BY <2>4
      <3>2. n + 1 \in 1 .. n + 1 /\ \A i \in 1 .. n : i \in 1 .. n + 1
        BY <2>4
      <3> HIDE DEF v, n
      <3>3. \A s \in Held(Current(k))' : s \in Held(v) \cup {r}
        BY <2>4, <3>1, Zenon DEF Held
      <3>4. \A s \in Held(v) \cup {r} : s \in Held(Current(k))'
        BY <2>4, <3>2, Zenon DEF Held
      <3> QED
        BY <3>3, <3>4
    <2>6. \A i, j \in DOMAIN Current(k)' : i < j => Before(k, Current(k)[i], Current(k)[j])'
      <3> SUFFICES ASSUME NEW i \in 1 .. n + 1, NEW j \in 1 .. n + 1, i < j
                   PROVE  Before(k, Current(k)[i], Current(k)[j])'
        BY <2>4
      <3>1. i \in 1 .. n
        BY <2>4
      <3>2. CASE j \in 1 .. n
        <4>1. Before(k, v[i], v[j])
          BY <2>4, <3>1, <3>2 DEF Placed
        <4> QED
          BY <2>2, <2>4, <3>1, <3>2, <4>1
      <3>3. CASE j = n + 1
        <4>1. v[i] \in Held(arrived[k])
          BY <2>4, <3>1 DEF Placed, Held
        <4> QED
          BY <2>2, <2>4, <3>1, <3>3, <4>1
      <3> QED
        BY <2>4, <3>2, <3>3
    <2> HIDE DEF v, n
    <2>7. Held(arrived[k])' = Filed(k)' \cup Dropped(k)' \cup Waiting(k)' \cup Held(Current(k))'
      BY <1>5, <2>2, <2>3, <2>5 DEF Placed, v
    <2>8. /\ \A s \in Filed(k) \cup Dropped(k) : s \in Held(arrived[k])
          /\ \A s \in Waiting(k) : s \in Held(arrived[k])
      BY DEF Placed
    <2>9. \A s \in Filed(k)' \cup Dropped(k)', t \in Waiting(k)' \cup Held(Current(k))' : Before(k, s, t)'
      BY <1>5, <2>2, <2>3, <2>5, <2>8 DEF Placed, v
    <2>10. \A s \in Waiting(k)', t \in Held(Current(k))' : Before(k, s, t)'
      BY <2>2, <2>3, <2>5, <2>8 DEF Placed, v
    <2>11. \A i, j \in Pending(k)' : i < j => Before(k, Old(k)[i], Old(k)[j])'
      BY <1>4, <2>2 DEF Placed
    <2>12. Filed(k)' \cap Dropped(k)' = {}
      BY <1>5 DEF Placed
    <2> QED
      BY <2>6, <2>7, <2>9, <2>10, <2>11, <2>12 DEF Placed
  <1> QED
    BY <1>7, <1>8

LEMMA BeginPlaced ==
  ASSUME LocusInv, BeginPass, NEW k \in Keys, Placed(k), LogsMatch
  PROVE  Placed(k)'
  <1>0. TypeOK /\ OwnVectors
    BY DEF LocusInv
  <1> DEFINE a == active
             o == Other(active)
             v == mem[a][k]
  <1>1. a \in Buffers /\ o \in Buffers /\ o # a /\ Other(o) = a
    BY <1>0, BufferFacts DEF TypeOK
  <1>2. /\ mem' = [mem EXCEPT ![o] = Empty] /\ active' = o
        /\ ppc = "wait" /\ todo' = {k1 \in Keys : mem[a][k1] # <<>>}
        /\ UNCHANGED <<key, locus, lost, pressed, arrived>>
    BY DEF BeginPass, IdleMapCleared, history, files
  <1>3. mem \in [Buffers -> [Keys -> Seq(Records)]] /\ key = None /\ key \notin Keys
    BY <1>0, <1>2, LocusAssumption DEF TypeOK
  <1>4. Old(k)' = v /\ Current(k)' = <<>>
    BY <1>1, <1>2, <1>3 DEF Other, Retired, Old, Current, Empty
  <1>5. v \in Seq(Records) /\ v = Current(k)
    BY <1>1, <1>3 DEF Current
  <1>6. Waiting(k) = {} /\ todo = {}
    BY <1>2 DEF LogsMatch, Waiting, Pending
  <1> HIDE DEF a, o
  <1>7. Pending(k)' = DOMAIN v
    <2>1. k \in todo' <=> v # <<>>
      BY <1>2
    <2>2. key' # k
      BY <1>2, <1>3
    <2>3. v = <<>> => DOMAIN v = {}
      OBVIOUS
    <2> HIDE DEF v
    <2>4. Pending(k)' = {i \in DOMAIN v : k \in todo'}
      BY <1>4, <2>2 DEF Pending
    <2> QED
      BY <2>1, <2>3, <2>4
  <1> HIDE DEF v
  <1>8. Waiting(k)' = Held(v) /\ Held(Current(k))' = {}
    BY <1>4, <1>7 DEF Waiting, Held
  <1>9. Filed(k)' = Filed(k) /\ Dropped(k)' = Dropped(k)
    BY <1>2, FiledSame DEF Dropped
  <1>10. \A r, s : Before(k, r, s)' <=> Before(k, r, s)
    BY <1>2 DEF Before
  <1>11. Held(arrived[k])' = Held(arrived[k])
    BY <1>2 DEF Held
  <1>12. Held(arrived[k]) = Filed(k) \cup Dropped(k) \cup Held(v)
    BY <1>5, <1>6 DEF Placed
  <1>13. \A r \in Filed(k) \cup Dropped(k), s \in Held(v) : Before(k, r, s)
    BY <1>5 DEF Placed
  <1>14. \A i, j \in DOMAIN v : i < j => Before(k, v[i], v[j])
    BY <1>5 DEF Placed
  <1>15. \A i, j \in Pending(k)' : i < j => Before(k, Old(k)[i], Old(k)[j])'
    BY <1>4, <1>7, <1>10, <1>14
  <1>16. DOMAIN Current(k)' = {}
    BY <1>4
  <1>17. /\ Held(arrived[k])' = Filed(k)' \cup Dropped(k)' \cup Waiting(k)' \cup Held(Current(k))'
         /\ Filed(k)' \cap Dropped(k)' = {}
    BY <1>8, <1>9, <1>11, <1>12 DEF Placed
  <1>18. \A r \in Filed(k)' \cup Dropped(k)', s \in Waiting(k)' \cup Held(Current(k))' : Before(k, r, s)'
    BY <1>8, <1>9, <1>10, <1>13
  <1>19. \A r \in Waiting(k)', s \in Held(Current(k))' : Before(k, r, s)'
    BY <1>8
  <1> QED
    BY <1>15, <1>16, <1>17, <1>18, <1>19 DEF Placed

LEMMA KillPlaced ==
  ASSUME LocusInv, Kill, NEW k \in Keys, Placed(k), LogsMatch, LogsMatch', k \notin disturbed'
  PROVE  Placed(k)'
  <1>0. TypeOK /\ OwnVectors
    BY DEF LocusInv
  <1>1. /\ mem' = log /\ log' = log /\ active' = RecoveredBuffer /\ todo' = {}
        /\ ppc' = "wait"
        /\ UNCHANGED <<locus, lost, pressed, arrived>>
        /\ disturbed' = IF ppc = "filing"
                        THEN disturbed \cup {k1 \in Keys : \E b \in Buffers : log[b][k1] # <<>>}
                        ELSE disturbed
    BY DEF Kill, files
  <1>2. active \in Buffers /\ active' \in Buffers /\ Other(active) \in Buffers
    BY <1>0, <1>1, MapFacts DEF RecoveredBuffer, Buffers
  <1>3. k \notin disturbed
    BY <1>1
  <1>4. Current(k)' = Current(k) /\ Waiting(k) = {}
    <2>1. CASE ppc = "filing"
      <3>1. \A b \in Buffers : log[b][k] = <<>>
        BY <1>1, <2>1
      <3>2. Current(k) = <<>> /\ Old(k) = <<>> /\ Current(k)' = <<>>
        BY <1>1, <1>2, <1>3, <2>1, <3>1 DEF LogsMatch, Current
      <3> QED
        BY <3>2 DEF Waiting, Pending
    <2>2. CASE ppc # "filing"
      <3>1. ppc = "wait"
        BY <1>0, <2>2 DEF TypeOK
      <3>2. todo = {} /\ Current(k) = log[active][k] /\ log[Other(active)][k] = <<>>
        BY <1>3, <3>1 DEF LogsMatch
      <3>3. Current(k)' = log[active'][k] /\ log[Other(active')][k] = <<>>
        <4>1. log[Other(active)'][k] = <<>>
          BY <1>1 DEF LogsMatch
        <4> QED
          BY <1>1, <4>1 DEF Current, Other
      <3>4. active' = active \/ (active' = Other(active) /\ Other(active') = active)
        <4>1. (active = 1 \/ active = 2) /\ (active' = 1 \/ active' = 2)
          BY <1>2 DEF Buffers
        <4>2. Other(1) = 2 /\ Other(2) = 1
          BY DEF Other
        <4> QED
          BY <4>1, <4>2, Zenon
      <3> QED
        BY <3>2, <3>3, <3>4 DEF Waiting, Pending
    <2> QED
      BY <2>1, <2>2
  <1>5. Pending(k)' = {} /\ Waiting(k)' = {}
    BY <1>1 DEF Pending, Waiting
  <1>6. Filed(k)' = Filed(k) /\ Dropped(k)' = Dropped(k)
    BY <1>1, FiledSame DEF Dropped
  <1>7. \A r, s : Before(k, r, s)' <=> Before(k, r, s)
    BY <1>1 DEF Before
  <1>8. Held(arrived[k])' = Held(arrived[k]) /\ Held(Current(k))' = Held(Current(k))
    BY <1>1, <1>4 DEF Held
  <1> QED
    BY <1>4, <1>5, <1>6, <1>7, <1>8 DEF Placed

(* a line is written, of the record the child is at *)
LEMMA FiledGrows ==
  ASSUME TypeOK, OwnVectors, AtRecord, fdLocus \in Files, NEW l \in Lines, l.rec = Rec, WriteLine(l)
  PROVE  /\ \A k \in Keys : Filed(k)' = IF k = key THEN Filed(k) \cup {Rec} ELSE Filed(k)
         /\ locus'[fdLocus][Len(locus[fdLocus]) + 1] = l
         /\ \A f \in Files : \A i \in DOMAIN locus[f] :
              i \in DOMAIN locus'[f] /\ locus'[f][i] = locus[f][i]
         /\ \A f \in Files : \A i \in DOMAIN locus'[f] :
              i \in DOMAIN locus[f] \/ (f = fdLocus /\ i = Len(locus[f]) + 1)
         /\ DOMAIN locus[fdLocus] = 1 .. Len(locus[fdLocus]) /\ Len(locus[fdLocus]) \in Nat
  <1>0. PICK g \in Files, c \in Keys, x \in Records : g = fdLocus /\ c = key /\ x = Rec
    BY AtRecordFacts
  <1>1. locus \in [Files -> Seq(Lines)] /\ locus[g] \in Seq(Lines)
        /\ locus' = [locus EXCEPT ![g] = Append(@, l)]
    BY <1>0 DEF TypeOK, WriteLine
  <1>2. PICK n \in Nat : n = Len(locus[g])
    BY <1>1
  <1>3. /\ DOMAIN locus[g] = 1 .. n /\ DOMAIN locus'[g] = 1 .. n + 1
        /\ \A i \in 1 .. n : locus'[g][i] = locus[g][i]
        /\ locus'[g][n + 1] = l
        /\ \A f \in Files : f # g => locus'[f] = locus[f]
    BY <1>0, <1>1, <1>2
  <1>4. /\ \A i \in 1 .. n + 1 : i \in 1 .. n \/ i = n + 1
        /\ \A i \in 1 .. n : i \in 1 .. n + 1
        /\ n + 1 \in 1 .. n + 1
    OBVIOUS
  <1>5. \A f \in Files : \A i \in DOMAIN locus[f] :
          i \in DOMAIN locus'[f] /\ locus'[f][i] = locus[f][i]
    BY <1>3, <1>4, Zenon
  <1>6. \A f \in Files : \A i \in DOMAIN locus'[f] :
          i \in DOMAIN locus[f] \/ (f = g /\ i = n + 1)
    BY <1>3, <1>4, Zenon
  <1>7. KeyOf[x] = c /\ l.rec = x
    BY <1>0, AtRecordFacts
  <1>8. ASSUME NEW k \in Keys, NEW r \in Filed(k)
        PROVE  r \in Filed(k)'
    <2>1. PICK f \in Files : \E i \in DOMAIN locus[f] : LineRec(f, i) = r
      BY <1>8 DEF Filed
    <2>2. PICK i \in DOMAIN locus[f] : LineRec(f, i) = r
      BY <2>1
    <2>3. i \in DOMAIN locus'[f] /\ LineRec(f, i)' = r
      BY <1>5, <2>2 DEF LineRec
    <2> QED
      BY <1>8, <2>3 DEF Filed
  <1>9. ASSUME NEW k \in Keys, NEW r \in Filed(k)'
        PROVE  r \in Filed(k) \/ r = x
    <2>1. PICK f \in Files : \E i \in DOMAIN locus'[f] : LineRec(f, i)' = r
      BY <1>9 DEF Filed
    <2>2. PICK i \in DOMAIN locus'[f] : LineRec(f, i)' = r
      BY <2>1
    <2>3. CASE i \in DOMAIN locus[f]
      <3>1. LineRec(f, i) = r
        BY <1>5, <2>2, <2>3 DEF LineRec
      <3> QED
        BY <1>9, <2>3, <3>1 DEF Filed
    <2>4. CASE f = g /\ i = n + 1
      BY <1>3, <1>7, <2>2, <2>4 DEF LineRec
    <2> QED
      BY <1>6, <2>3, <2>4
  <1>10. x \in Filed(c)'
    <2>1. n + 1 \in DOMAIN locus'[g] /\ LineRec(g, n + 1)' = x
      BY <1>3, <1>4, <1>7 DEF LineRec
    <2> QED
      BY <1>7, <2>1 DEF Filed
  <1>12. ASSUME NEW k \in Keys, k # c PROVE Filed(k)' = Filed(k)
    <2>1. x \notin Filed(k)'
      BY <1>7, <1>12 DEF Filed
    <2> QED
      BY <1>8, <1>9, <1>12, <2>1
  <1>13. Filed(c)' = Filed(c) \cup {x}
    BY <1>8, <1>9, <1>10
  <1>14. ASSUME NEW k \in Keys PROVE Filed(k)' = IF k = c THEN Filed(k) \cup {x} ELSE Filed(k)
    BY <1>12, <1>13
  <1> QED
    BY <1>0, <1>2, <1>3, <1>5, <1>6, <1>14

(* the record the child is at is the first that waits *)
LEMMA FirstWaits ==
  ASSUME LocusInv, LogsMatch, AtRecord
  PROVE  /\ key \in Keys /\ usNum + 1 \in Pending(key) /\ Old(key)[usNum + 1] = Rec
         /\ usNum \in Nat /\ Rec \in Waiting(key)
         /\ \A i \in Pending(key) : i \in Nat /\ (i = usNum + 1 \/ usNum + 1 < i)
  <1>0. TypeOK /\ OwnVectors
    BY DEF LocusInv
  <1>1. key \in Keys /\ Vector \in Seq(Records)
    BY <1>0, AtRecordFacts
  <1>2. usNum \in Nat /\ usNum < Len(Vector) /\ key # None
    BY <1>0 DEF AtRecord, TypeOK
  <1>3. Old(key) = Vector /\ Rec = Vector[usNum + 1]
    BY DEF Old, Vector, Rec
  <1>4. key \in todo
    BY <1>2 DEF LogsMatch
  <1>5. usNum + 1 \in DOMAIN Vector /\ usNum < usNum + 1
    BY <1>1, <1>2
  <1>6. Pending(key) = {i \in DOMAIN Vector : usNum < i}
    BY <1>3, <1>4 DEF Pending
  <1>7. \A i \in Pending(key) : i \in Nat /\ (i = usNum + 1 \/ usNum + 1 < i)
    BY <1>1, <1>2, <1>6
  <1>8. usNum + 1 \in Pending(key)
    BY <1>5, <1>6
  <1> QED
    BY <1>1, <1>2, <1>3, <1>7, <1>8 DEF Waiting

(* it waits no longer *)
LEMMA NextWaits ==
  ASSUME LocusInv, LogsMatch, VectorsFit, AtRecord, NextRecord,
         UNCHANGED <<mem, active, key, todo>>
  PROVE  /\ \A k \in Keys : Pending(k)' = IF k = key THEN Pending(k) \ {usNum + 1} ELSE Pending(k)
         /\ \A k \in Keys : Current(k)' = Current(k) /\ Old(k)' = Old(k)
         /\ usNum' = usNum + 1
  <1>1. /\ key \in Keys /\ usNum + 1 \in Pending(key) /\ usNum \in Nat
        /\ \A i \in Pending(key) : i \in Nat /\ (i = usNum + 1 \/ usNum + 1 < i)
    BY FirstWaits
  <1>2. Len(Vector) < IndexRange /\ Len(Vector) \in Nat
    <2>1. Other(active) \in Buffers /\ Old(key) \in Seq(Records)
      BY <1>1, MapFacts DEF LocusInv
    <2> QED
      BY <1>1, <2>1 DEF VectorsFit, Vector, Retired, Old
  <1>3. usNum' = usNum + 1
    <2>1. usNum + 1 < IndexRange /\ IndexRange \in Nat
      BY <1>1, <1>2, LocusAssumption DEF AtRecord
    <2> QED
      BY <1>1, <2>1 DEF NextRecord
  <1>4. Retired' = Retired
    BY DEF Retired, Other
  <1>5. \A k \in Keys : Current(k)' = Current(k) /\ Old(k)' = Old(k)
    BY <1>4 DEF Current, Old
  <1>6. \A k \in Keys : k # key => Pending(k)' = Pending(k)
    BY <1>5 DEF Pending
  <1>7. ASSUME NEW k \in Keys, k = key PROVE Pending(k)' = Pending(k) \ {usNum + 1}
    <2>1. Pending(k) = {i \in DOMAIN Old(k) : k \in todo /\ usNum < i}
      BY <1>7 DEF Pending
    <2>2. Pending(k)' = {i \in DOMAIN Old(k) : k \in todo /\ usNum + 1 < i}
      BY <1>1, <1>3, <1>5, <1>7 DEF Pending
    <2>3. \A i \in DOMAIN Old(k) : i \in Nat
      BY MapFacts DEF LocusInv
    <2>4. \A i \in DOMAIN Old(k) : usNum + 1 < i <=> (usNum < i /\ i # usNum + 1)
      BY <1>1, <2>3
    <2> QED
      BY <2>1, <2>2, <2>4
  <1> QED
    BY <1>3, <1>5, <1>6, <1>7

(* a record that waits is neither filed nor dropped *)
LEMMA WaitsOnly ==
  ASSUME ArrivedOnce, NEW k \in Keys, Placed(k), NEW r \in Waiting(k)
  PROVE  r \notin Filed(k) /\ r \notin Dropped(k)
  BY BeforeFacts DEF Placed

LEMMA WritePlaced ==
  ASSUME LocusInv, ArrivedOnce, LogsMatch, VectorsFit, InSegment, NextRecord,
         NEW l \in Lines, l.rec = Rec, WriteLine(l), fdLocus \in Files,
         UNCHANGED <<mem, active, key, todo, arrived, lost, pressed>>,
         NEW k \in Keys, Placed(k)
  PROVE  Placed(k)'
  <1>0. TypeOK /\ OwnVectors /\ AtRecord
    BY DEF LocusInv, InSegment
  <1>1. Filed(k)' = IF k = key THEN Filed(k) \cup {Rec} ELSE Filed(k)
    BY <1>0, FiledGrows
  <1>2. Dropped(k)' = Dropped(k)
    BY DEF Dropped
  <1>3. /\ Pending(k)' = IF k = key THEN Pending(k) \ {usNum + 1} ELSE Pending(k)
        /\ Current(k)' = Current(k) /\ Old(k)' = Old(k)
    BY <1>0, NextWaits
  <1>4. CASE k # key
    BY <1>1, <1>2, <1>3, <1>4, PlacedSame
  <1>5. CASE k = key
    <2>1. /\ usNum + 1 \in Pending(k) /\ Old(k)[usNum + 1] = Rec /\ Rec \in Waiting(k)
          /\ \A i \in Pending(k) : i = usNum + 1 \/ usNum + 1 < i
      BY <1>0, <1>5, FirstWaits
    <2>2. Rec \notin Dropped(k)
      BY <2>1, WaitsOnly
    <2>3. Filed(k)' \cap Dropped(k)' = {}
      BY <1>1, <1>2, <1>5, <2>2 DEF Placed
    <2> DEFINE X == {usNum + 1}
    <2>4. /\ X \subseteq Pending(k) /\ Pending(k)' = Pending(k) \ X
          /\ \A i \in X, j \in Pending(k) \ X : i < j
          /\ {Old(k)[i] : i \in X} = {Rec}
      BY <1>3, <1>5, <2>1
    <2> HIDE DEF X
    <2>5. Filed(k)' \cup Dropped(k)' = Filed(k) \cup Dropped(k) \cup {Old(k)[i] : i \in X}
      BY <1>1, <1>2, <1>5, <2>4
    <2> QED
      BY <1>3, <2>3, <2>4, <2>5, PlacedMoves
  <1> QED
    BY <1>4, <1>5

LEMMA PressPlaced ==
  ASSUME LocusInv, ArrivedOnce, LogsMatch, VectorsFit, PressRecord, NEW k \in Keys, Placed(k)
  PROVE  Placed(k)'
  <1>0. /\ TypeOK /\ OwnVectors /\ AtRecord /\ NextRecord
        /\ UNCHANGED <<mem, active, key, todo, arrived, locus, lost>>
        /\ pressed' = pressed \cup {<<Rec, Kept>>}
    BY DEF LocusInv, PressRecord, InSegment, buffers, files
  <1>1. PICK x \in Records, y \in {Kept} : x = Rec /\ y = Kept /\ KeyOf[x] = key
    BY <1>0, AtRecordFacts
  <1>2. Filed(k)' = Filed(k)
    BY <1>0, FiledSame
  <1>3. Dropped(k)' = IF k = key THEN Dropped(k) \cup {x} ELSE Dropped(k)
    <2>1. pressed' = pressed \cup {<<x, y>>} /\ lost' = lost
      BY <1>0, <1>1
    <2>2. <<x, y>>[1] = x
      OBVIOUS
    <2>3. ASSUME NEW r PROVE (\E p \in pressed' : p[1] = r) <=> (\E p \in pressed : p[1] = r) \/ r = x
      BY <2>1, <2>2
    <2>4. ASSUME NEW r PROVE r \in Dropped(k)' <=> r \in Dropped(k) \/ (r = x /\ k = key)
      <3>1. r \in Dropped(k)' <=> r \in Records /\ KeyOf[r] = k /\ (r \in lost \/ \E p \in pressed' : p[1] = r)
        BY <2>1 DEF Dropped
      <3>2. r \in Dropped(k) <=> r \in Records /\ KeyOf[r] = k /\ (r \in lost \/ \E p \in pressed : p[1] = r)
        BY DEF Dropped
      <3> QED
        BY <1>1, <2>3, <3>1, <3>2
    <2> QED
      BY <2>4
  <1>4. /\ Pending(k)' = IF k = key THEN Pending(k) \ {usNum + 1} ELSE Pending(k)
        /\ Current(k)' = Current(k) /\ Old(k)' = Old(k)
    BY <1>0, NextWaits
  <1>5. CASE k # key
    BY <1>0, <1>2, <1>3, <1>4, <1>5, PlacedSame
  <1>6. CASE k = key
    <2>1. /\ usNum + 1 \in Pending(k) /\ Old(k)[usNum + 1] = x /\ x \in Waiting(k)
          /\ \A i \in Pending(k) : i = usNum + 1 \/ usNum + 1 < i
      BY <1>0, <1>1, <1>6, FirstWaits
    <2>2. x \notin Filed(k)
      BY <2>1, WaitsOnly
    <2>3. Filed(k)' \cap Dropped(k)' = {}
      BY <1>2, <1>3, <1>6, <2>2 DEF Placed
    <2> DEFINE X == {usNum + 1}
    <2>4. /\ X \subseteq Pending(k) /\ Pending(k)' = Pending(k) \ X
          /\ \A i \in X, j \in Pending(k) \ X : i < j
          /\ {Old(k)[i] : i \in X} = {x}
      BY <1>4, <1>6, <2>1
    <2> HIDE DEF X
    <2>5. Filed(k)' \cup Dropped(k)' = Filed(k) \cup Dropped(k) \cup {Old(k)[i] : i \in X}
      BY <1>2, <1>3, <1>6, <2>4
    <2> QED
      BY <1>0, <1>4, <2>3, <2>4, <2>5, PlacedMoves
  <1> QED
    BY <1>5, <1>6

LEMMA FailsPlaced ==
  ASSUME LocusInv, ArrivedOnce, LogsMatch, OpenFails, NEW k \in Keys, Placed(k)
  PROVE  Placed(k)'
  <1>0. /\ TypeOK /\ OwnVectors /\ AtRecord
        /\ UNCHANGED <<mem, active, arrived, locus, pressed>> /\ todo' = {}
    BY DEF LocusInv, OpenFails, HourChanges, buffers
  <1> DEFINE A == UNION {Held(Retired[k1]) : k1 \in todo \ {key}}
             B == {Vector[i] : i \in usNum + 1 .. Len(Vector)}
  <1>15. lost' = lost \cup B \cup A
    BY Zenon DEF OpenFails
  <1> HIDE DEF A, B
  <1>1. /\ key \in Keys /\ key \in todo /\ usNum \in Nat
        /\ Vector = Old(key) /\ Vector \in Seq(Records)
    BY <1>0, FirstWaits, AtRecordFacts DEF Vector, Old, LogsMatch, AtRecord
  <1>2. Filed(k)' = Filed(k)
    BY <1>0, FiledSame
  <1>3. /\ Pending(k)' = {} /\ Old(k)' = Old(k) /\ Current(k)' = Current(k)
    BY <1>0 DEF Pending, Old, Current, Retired, Other
  <1>4. \A k1 \in Keys : \A i \in DOMAIN Old(k1) : Old(k1)[i] \in Records /\ KeyOf[Old(k1)[i]] = k1
    BY <1>0, MapFacts
  <1>5. todo \subseteq Keys
    BY <1>0 DEF TypeOK
  <1>6. \A i \in usNum + 1 .. Len(Vector) : i \in Pending(key)
    BY <1>1 DEF Pending
  <1>7. \A i \in Pending(key) : i \in usNum + 1 .. Len(Vector)
    <2>1. \A i \in Pending(key) : i \in DOMAIN Vector /\ usNum < i
      BY <1>1 DEF Pending
    <2> QED
      BY <1>1, <2>1
  <1>8. ASSUME NEW r \in Dropped(k)' PROVE r \in Dropped(k) \cup Waiting(k)
    <2>1. r \in Records /\ KeyOf[r] = k
      BY <1>8 DEF Dropped
    <2>2. CASE r \in lost \/ \E p \in pressed : p[1] = r
      BY <2>1, <2>2 DEF Dropped
    <2>3. CASE r \in A
      <3>1. PICK k1 \in todo \ {key} : r \in Held(Old(k1))
        BY <2>3 DEF Old, A
      <3>2. PICK i \in DOMAIN Old(k1) : r = Old(k1)[i]
        BY <3>1 DEF Held
      <3>3. k1 = k
        BY <1>4, <1>5, <2>1, <3>1, <3>2
      <3>4. i \in Pending(k)
        BY <3>1, <3>2, <3>3 DEF Pending
      <3> QED
        BY <3>2, <3>3, <3>4 DEF Waiting
    <2>4. CASE r \in B
      <3>1. PICK i \in usNum + 1 .. Len(Vector) : r = Vector[i]
        BY <2>4, Zenon DEF B
      <3>2. i \in Pending(key) /\ r = Old(key)[i]
        BY <1>1, <1>6, <3>1
      <3>3. key = k
        BY <1>1, <1>4, <2>1, <3>2 DEF Pending
      <3> QED
        BY <3>2, <3>3 DEF Waiting
    <2>5. r \in lost' \/ \E p \in pressed : p[1] = r
      BY <1>0, <1>8 DEF Dropped
    <2> QED
      BY <1>15, <2>2, <2>3, <2>4, <2>5
  <1>9. ASSUME NEW r \in Waiting(k) PROVE r \in Dropped(k)'
    <2>1. PICK i \in Pending(k) : r = Old(k)[i]
      BY <1>9 DEF Waiting
    <2>2. i \in DOMAIN Old(k) /\ k \in todo
      BY <2>1 DEF Pending
    <2>3. r \in Records /\ KeyOf[r] = k
      BY <1>4, <2>1, <2>2
    <2>4. r \in lost'
      <3>1. CASE k = key
        <4>1. i \in usNum + 1 .. Len(Vector) /\ r = Vector[i]
          BY <1>1, <1>7, <2>1, <3>1
        <4>2. r \in B
          BY <4>1, Zenon DEF B
        <4> QED
          BY <1>15, <4>2
      <3>2. CASE k # key
        <4>1. r \in Held(Retired[k]) /\ k \in todo \ {key}
          BY <2>1, <2>2, <3>2 DEF Held, Old
        <4>2. r \in A
          BY <4>1, Zenon DEF A
        <4> QED
          BY <1>15, <4>2
      <3> QED
        BY <3>1, <3>2
    <2> QED
      BY <2>3, <2>4 DEF Dropped
  <1>10. Dropped(k) \subseteq Dropped(k)'
    BY <1>0, <1>15 DEF Dropped
  <1>11. Dropped(k)' = Dropped(k) \cup Waiting(k)
    BY <1>8, <1>9, <1>10
  <1>12. Filed(k)' \cap Dropped(k)' = {}
    <2>1. \A r \in Waiting(k) : r \notin Filed(k)
      BY WaitsOnly
    <2> QED
      BY <1>2, <1>11, <2>1 DEF Placed
  <1> DEFINE X == Pending(k)
  <1>13. /\ X \subseteq Pending(k) /\ Pending(k)' = Pending(k) \ X
         /\ \A i \in X, j \in Pending(k) \ X : i < j
         /\ {Old(k)[i] : i \in X} = Waiting(k)
    BY <1>3 DEF Waiting
  <1> HIDE DEF X
  <1>14. Filed(k)' \cup Dropped(k)' = Filed(k) \cup Dropped(k) \cup {Old(k)[i] : i \in X}
    BY <1>2, <1>11, <1>13
  <1> QED
    BY <1>0, <1>3, <1>12, <1>13, <1>14, PlacedMoves

LEMMA BaseTyped ==
  ASSUME LocusInv, fdLocus \in Files, ~bFirstWirte
  PROVE  Base \in Records
  <1>1. /\ locus[fdLocus] \in Seq(Lines) /\ stLocusIndex \in Entries
        /\ fdLocus # None
    BY NoFileAssumption DEF LocusInv, TypeOK
  <1>2. stLocusIndex.offset \in Nat /\ stLocusIndex.length \in Nat /\ stLocusIndex.length # 0
    BY <1>1 DEF Entries, bFirstWirte
  <1>3. stLocusIndex.offset + stLocusIndex.length = Len(locus[fdLocus])
    BY <1>1 DEF LocusInv, OpenSegmentWhole
  <1>4. stLocusIndex.offset + 1 \in DOMAIN locus[fdLocus]
    BY <1>1, <1>2, <1>3
  <1>5. locus[fdLocus][stLocusIndex.offset + 1] \in Lines
    BY <1>1, <1>4
  <1> QED
    BY <1>5 DEF Base, Lines

LEMMA PlacedNext ==
  ASSUME LocusInv, ArrivedOnce, LogsMatch, LogsMatch', VectorsFit, [Next]_vars,
         NEW k \in Keys, k \notin disturbed', Placed(k)
  PROVE  Placed(k)'
  <1>0. TypeOK /\ OwnVectors
    BY DEF LocusInv
  <1>1. CASE UNCHANGED <<mem, active, arrived, locus, lost, pressed>> /\ Pending(k)' = Pending(k)
    <2>1. Filed(k)' = Filed(k)
      BY <1>1, FiledSame
    <2> QED
      BY <1>1, <2>1, PlacedSame DEF Dropped, Current, Old, Retired, Other
  <1>2. ASSUME NEW r \in Records, Store(r) PROVE Placed(k)'
    BY <1>2, StorePlaced
  <1>3. CASE BeginPass
    BY <1>3, BeginPlaced
  <1>4. ASSUME NEW k1 \in Keys, NextKey(k1) PROVE Placed(k)'
    <2>1. /\ UNCHANGED <<mem, active, arrived, locus, lost, pressed, todo>>
          /\ key = None /\ key' = k1 /\ usNum' = 0
      BY <1>4 DEF NextKey, buffers, files, history
    <2>2. key # k
      BY <2>1, LocusAssumption
    <2>3. \A i \in DOMAIN Old(k) : 0 < i
      <3>1. Old(k) \in Seq(Records)
        BY <1>0, MapFacts
      <3> QED
        BY <3>1
    <2>4. Old(k)' = Old(k)
      BY <2>1 DEF Old, Retired, Other
    <2>5. Pending(k)' = Pending(k)
      BY <2>1, <2>2, <2>3, <2>4 DEF Pending
    <2> QED
      BY <1>1, <2>1, <2>5
  <1>5. CASE OpenSegment
    <2>1. UNCHANGED <<mem, active, arrived, locus, lost, pressed, todo, key, usNum>>
      BY <1>5 DEF OpenSegment, buffers, history
    <2>2. Pending(k)' = Pending(k)
      BY <2>1 DEF Pending, Old, Retired, Other
    <2> QED
      BY <1>1, <2>1, <2>2
  <1>6. CASE OpenFails
    BY <1>6, FailsPlaced
  <1>7. CASE WriteBase
    <2>1. /\ InSegment /\ NextRecord /\ WriteLine(Absolute(Rec))
          /\ UNCHANGED <<mem, active, key, todo, arrived, lost, pressed>>
      BY <1>7 DEF WriteBase, buffers, history
    <2>2. Rec \in Records /\ fdLocus \in Files
      BY <1>0, <2>1, AtRecordFacts DEF TypeOK, InSegment, AtRecord
    <2>3. Absolute(Rec) \in Lines /\ Absolute(Rec).rec = Rec
      BY <2>2, LineTyped
    <2> QED
      BY <2>1, <2>2, <2>3, WritePlaced
  <1>8. CASE WriteDelta
    <2>1. /\ InSegment /\ NextRecord /\ WriteLine(Relative(Rec, Base)) /\ ~bFirstWirte
          /\ UNCHANGED <<mem, active, key, todo, arrived, lost, pressed>>
      BY <1>8 DEF WriteDelta, RelativeLine, buffers, history
    <2>2. Rec \in Records /\ fdLocus \in Files
      BY <1>0, <2>1, AtRecordFacts DEF TypeOK, InSegment, AtRecord
    <2>3. Base \in Records
      BY <2>1, <2>2, BaseTyped
    <2>4. Relative(Rec, Base) \in Lines /\ Relative(Rec, Base).rec = Rec
      BY <2>2, <2>3, LineTyped
    <2> QED
      BY <2>1, <2>2, <2>4, WritePlaced
  <1>9. CASE PressRecord
    BY <1>9, PressPlaced
  <1>10. CASE FinishKey
    <2>1. /\ UNCHANGED <<mem, active, arrived, locus, lost, pressed, usNum>>
          /\ key # None /\ usNum >= Len(Vector) /\ todo' = todo \ {key} /\ key' = None
      BY <1>10 DEF FinishKey, buffers, history
    <2>2. Old(k)' = Old(k) /\ Old(k) \in Seq(Records) /\ k # None /\ usNum \in Nat
      BY <1>0, <2>1, MapFacts, LocusAssumption DEF Old, Retired, Other, TypeOK
    <2>3. CASE k = key
      <3>1. \A i \in DOMAIN Old(k) : ~(usNum < i)
        BY <2>1, <2>2, <2>3 DEF Old, Vector
      <3> QED
        BY <1>1, <2>1, <2>3, <3>1 DEF Pending
    <2>4. CASE k # key
      <3>1. Pending(k)' = Pending(k)
        BY <2>1, <2>2, <2>4 DEF Pending
      <3> QED
        BY <1>1, <2>1, <3>1
    <2> QED
      BY <2>3, <2>4
  <1>11. CASE EndPass \/ QueryStep \/ (\E q \in Queries : StartQuery(q)) \/ UNCHANGED vars
    <2>1. UNCHANGED <<mem, active, arrived, locus, lost, pressed, todo, key, usNum>>
      BY <1>11 DEF EndPass, QueryStep, ReadHour, FindVector, ScanVector, StartQuery, buffers,
         files, child, history, vars
    <2>2. Pending(k)' = Pending(k)
      BY <2>1 DEF Pending, Old, Retired, Other
    <2> QED
      BY <1>1, <2>1, <2>2
  <1>12. CASE Kill
    BY <1>12, KillPlaced
  <1> QED
    BY <1>2, <1>3, <1>4, <1>5, <1>6, <1>7, <1>8, <1>9, <1>10, <1>11, <1>12 DEF Next, ChildStep

-----------------------------------------------------------------------------
(* The lines are in order.                                                 *)

LEMMA FileHour == \A f \in Files : f[1] \in Nat
  <1>1. \A r \in Records : TimeOf[r] \in Nat /\ HourTicks \in Nat \ {0}
    BY LocusAssumption
  <1>2. \A h \in Hours : h \in Nat
    BY <1>1 DEF Hours, HourOf
  <1> QED
    BY <1>2 DEF Files

(* what the lines of k need of the open segment *)
OpenPlaced(k) ==
  key = k /\ fdLocus # None =>
    /\ fdLocus[2] = BucketOf[k]
    /\ \A f \in Files : \A i \in DOMAIN locus[f] : LineOf(k, f, i) => f[1] <= fdLocus[1]
    /\ \A i \in Pending(k) : fdLocus[1] <= HourOf(TimeOf[Old(k)[i]])

InHand(k, f, i) == fdLocus = f /\ key = k /\ i > stLocusIndex.offset

LEMMA LinesKeep ==
  ASSUME NEW k \in Keys, LinesPlaced(k), locus' = locus,
         \A r, s : Before(k, r, s) => Before(k, r, s)',
         \A f \in Files : \A i \in DOMAIN locus[f] :
           LineOf(k, f, i) => Covered(f, i)' \/ InHand(k, f, i)',
         OpenPlaced(k)'
  PROVE  LinesPlaced(k)'
  <1>1. \A f, i : (LineOf(k, f, i)' <=> LineOf(k, f, i)) /\ LineRec(f, i)' = LineRec(f, i)
    BY DEF LineOf, LineRec
  <1>2. \A f, g \in Files : \A i \in DOMAIN locus[f], j \in DOMAIN locus[g] :
          LineOf(k, f, i)' /\ LineOf(k, g, j)' /\ Earlier(f, i, g, j)
            => Before(k, LineRec(f, i), LineRec(g, j))'
    BY <1>1 DEF LinesPlaced, LineRec
  <1>3. \A f \in Files : \A i \in DOMAIN locus[f] : LineOf(k, f, i)' =>
          /\ f[2] = BucketOf[k]
          /\ f[1] <= HourOf(TimeOf[LineRec(f, i)])'
          /\ Covered(f, i)' \/ InHand(k, f, i)'
    BY <1>1 DEF LinesPlaced, LineRec, HourOf
  <1>4. \A f \in Files : \A i \in DOMAIN locus'[f] : LineOf(k, f, i)' =>
          /\ f[2] = BucketOf[k]
          /\ f[1] <= HourOf(TimeOf[LineRec(f, i)])'
          /\ Covered(f, i)' \/ (fdLocus' = f /\ key' = k /\ i > stLocusIndex'.offset)
    BY <1>3 DEF InHand
  <1> QED
    BY <1>2, <1>4 DEF LinesPlaced, OpenPlaced

(* the segments have their entries once the open one is closed *)
LEMMA AllCovered ==
  ASSUME LocusInv, locus' = locus, index' = EntryWritten, NEW k \in Keys, LinesPlaced(k),
         NEW f \in Files, NEW i \in DOMAIN locus[f], LineOf(k, f, i)
  PROVE  Covered(f, i)'
  <1>0. TypeOK
    BY DEF LocusInv
  <1>1. CASE fdLocus = None
    <2>1. Covered(f, i)
      BY <1>1, NoFileAssumption DEF LinesPlaced
    <2> QED
      BY <1>1, <2>1 DEF Covered, EntryWritten
  <1>2. CASE fdLocus # None
    <2>1. fdLocus \in Files /\ stLocusIndex \in Entries /\ index \in [Files -> Seq(Entries)]
          /\ locus \in [Files -> Seq(Lines)]
      BY <1>0, <1>2 DEF TypeOK
    <2>2. index' = [index EXCEPT ![fdLocus] = Append(@, stLocusIndex)]
      BY <1>2 DEF EntryWritten
    <2>3. CASE Covered(f, i)
      <3>1. PICK j \in DOMAIN index[f] :
              i \in index[f][j].offset + 1 .. index[f][j].offset + index[f][j].length
        BY <2>3 DEF Covered
      <3>2. j \in DOMAIN index'[f] /\ index'[f][j] = index[f][j]
        BY <2>1, <2>2
      <3> QED
        BY <3>1, <3>2 DEF Covered
    <2>4. CASE fdLocus = f /\ i > stLocusIndex.offset
      <3>1. /\ stLocusIndex.offset + stLocusIndex.length = Len(locus[f])
            /\ stLocusIndex.offset \in Nat /\ stLocusIndex.length \in Nat
        BY <1>2, <2>1, <2>4 DEF LocusInv, OpenSegmentWhole, Entries
      <3>2. i \in stLocusIndex.offset + 1 .. stLocusIndex.offset + stLocusIndex.length
        BY <2>1, <2>4, <3>1
      <3>3. /\ Len(index[f]) + 1 \in DOMAIN index'[f]
            /\ index'[f][Len(index[f]) + 1] = stLocusIndex
        BY <2>1, <2>2, <2>4
      <3> QED
        BY <3>2, <3>3 DEF Covered
    <2> QED
      BY <2>3, <2>4 DEF LinesPlaced
  <1> QED
    BY <1>1, <1>2

(* a step that writes no line and no entry *)
LEMMA LinesStill ==
  ASSUME TypeOK, NEW k \in Keys, LinesPlaced(k), UNCHANGED <<locus, index>>,
         \A r, s : Before(k, r, s) => Before(k, r, s)',
         \/ /\ UNCHANGED <<key, fdLocus, stLocusIndex>>
            /\ Old(k)' = Old(k) /\ Pending(k)' \subseteq Pending(k)
         \/ fdLocus' = None /\ (fdLocus = None \/ key # k)
  PROVE  LinesPlaced(k)'
  <1>1. \A f, i : Covered(f, i)' <=> Covered(f, i)
    BY DEF Covered
  <1>2. CASE /\ UNCHANGED <<key, fdLocus, stLocusIndex>>
             /\ Old(k)' = Old(k) /\ Pending(k)' \subseteq Pending(k)
    <2>1. \A f, i : InHand(k, f, i)' <=> InHand(k, f, i)
      BY <1>2 DEF InHand
    <2>2. OpenPlaced(k)'
      <3>1. OpenPlaced(k)
        BY DEF LinesPlaced, OpenPlaced
      <3>2. \A f, i : LineOf(k, f, i)' <=> LineOf(k, f, i)
        BY DEF LineOf
      <3> QED
        BY <1>2, <3>1, <3>2 DEF OpenPlaced, HourOf
    <2>3. \A f \in Files : \A i \in DOMAIN locus[f] :
           LineOf(k, f, i) => Covered(f, i)' \/ InHand(k, f, i)'
      BY <1>1, <2>1 DEF LinesPlaced, InHand
    <2> QED
      BY <2>2, <2>3, LinesKeep
  <1>3. CASE fdLocus' = None /\ (fdLocus = None \/ key # k)
    <2>1. OpenPlaced(k)'
      BY <1>3 DEF OpenPlaced
    <2>2. \A f \in Files : fdLocus = None => fdLocus # f
      BY NoFileAssumption
    <2>3. \A f \in Files : \A i \in DOMAIN locus[f] :
           LineOf(k, f, i) => Covered(f, i)' \/ InHand(k, f, i)'
      BY <1>1, <1>3, <2>2 DEF LinesPlaced
    <2> QED
      BY <2>1, <2>3, LinesKeep
  <1> QED
    BY <1>2, <1>3

LEMMA OpenLines ==
  ASSUME LocusInv, ArrivedOnce, LogsMatch, OpenSegment, NEW k \in Keys, Orderly(k),
         Placed(k), LinesPlaced(k)
  PROVE  LinesPlaced(k)'
  <1>0. /\ TypeOK /\ OwnVectors /\ AtRecord
        /\ UNCHANGED <<mem, active, arrived, locus, todo, key, usNum>>
        /\ index' = EntryWritten /\ fdLocus' = FileOf(Rec)
    BY DEF LocusInv, OpenSegment, HourChanges, buffers, history
  <1>1. \A f \in Files : \A i \in DOMAIN locus[f] : LineOf(k, f, i) => Covered(f, i)'
    BY <1>0, AllCovered
  <1>2. \A r, s : Before(k, r, s) => Before(k, r, s)'
    BY <1>0 DEF Before
  <1>3. OpenPlaced(k)'
    <2> SUFFICES ASSUME key = k PROVE OpenPlaced(k)'
      BY <1>0 DEF OpenPlaced
    <2>1. PICK x \in Records : x = Rec
      BY <1>0, AtRecordFacts
    <2> DEFINE h == HourOf(TimeOf[x])
    <2>2. KeyOf[x] = k /\ fdLocus' = <<h, BucketOf[k]>> /\ h \in Nat
      <3>1. KeyOf[x] = k /\ fdLocus' = <<h, BucketOf[k]>>
        BY <1>0, <2>1, AtRecordFacts DEF FileOf
      <3>2. TimeOf[x] \in Nat
        BY LocusAssumption
      <3>3. TimeOf[x] <= TimeOf[x]
        BY <3>2
      <3> QED
        BY <3>1, <3>2, <3>3, HourInOrder
    <2> HIDE DEF h
    <2>3. /\ usNum + 1 \in Pending(k) /\ Old(k)[usNum + 1] = x /\ x \in Waiting(k)
          /\ \A i \in Pending(k) : i = usNum + 1 \/ usNum + 1 < i
      BY <1>0, <2>1, FirstWaits
    <2>4. ASSUME NEW f \in Files, NEW i \in DOMAIN locus[f], LineOf(k, f, i)
          PROVE  f[1] <= h
      <3>1. locus \in [Files -> Seq(Lines)]
        BY <1>0 DEF TypeOK
      <3>2. LineRec(f, i) \in Records
        <4>1. locus[f][i] \in Lines
          BY <3>1
        <4> QED
          BY <4>1 DEF LineRec, Lines
      <3>3. LineRec(f, i) \in Filed(k)
        BY <2>4, <3>2 DEF Filed, LineOf, LineRec
      <3>4. HourOf(TimeOf[LineRec(f, i)]) <= h
        BY <2>3, <3>3, BeforeHour DEF Placed, h
      <3>5. f[1] <= HourOf(TimeOf[LineRec(f, i)])
        BY <2>4 DEF LinesPlaced
      <3>6. HourOf(TimeOf[LineRec(f, i)]) \in Nat
        <4>1. TimeOf[LineRec(f, i)] \in Nat
          BY <3>2, LocusAssumption
        <4>2. TimeOf[LineRec(f, i)] <= TimeOf[LineRec(f, i)]
          BY <4>1
        <4> QED
          BY <4>1, <4>2, HourInOrder
      <3> QED
        BY <2>2, <3>4, <3>5, <3>6, FileHour
    <2>5. ASSUME NEW i \in Pending(k)
          PROVE  h <= HourOf(TimeOf[Old(k)[i]])
      <3>1. CASE i = usNum + 1
        BY <2>2, <2>3, <3>1 DEF h
      <3>2. CASE usNum + 1 < i
        <4>1. Before(k, Old(k)[usNum + 1], Old(k)[i])
          BY <2>3, <3>2 DEF Placed
        <4> QED
          BY <2>3, <4>1, BeforeHour DEF h
      <3> QED
        BY <2>3, <3>1, <3>2
    <2>6. Old(k)' = Old(k) /\ Pending(k)' = Pending(k)
      BY <1>0 DEF Pending, Old, Retired, Other
    <2>7. fdLocus'[1] = h /\ fdLocus'[2] = BucketOf[k]
      BY <2>2
    <2>8. \A f, i : LineOf(k, f, i)' <=> LineOf(k, f, i)
      BY <1>0 DEF LineOf
    <2> QED
      BY <1>0, <2>4, <2>5, <2>6, <2>7, <2>8 DEF OpenPlaced, HourOf
  <1> QED
    BY <1>0, <1>1, <1>2, <1>3, LinesKeep

LEMMA CloseLines ==
  ASSUME LocusInv, NEW k \in Keys, LinesPlaced(k), UNCHANGED <<locus, arrived>>,
         index' = EntryWritten, fdLocus' = None
  PROVE  LinesPlaced(k)'
  <1>1. \A f \in Files : \A i \in DOMAIN locus[f] : LineOf(k, f, i) => Covered(f, i)'
    BY AllCovered
  <1>2. \A r, s : Before(k, r, s) => Before(k, r, s)'
    BY DEF Before
  <1>3. OpenPlaced(k)'
    BY DEF OpenPlaced
  <1> QED
    BY <1>1, <1>2, <1>3, LinesKeep

LEMMA WriteLines ==
  ASSUME LocusInv, ArrivedOnce, LogsMatch, VectorsFit, InSegment, NextRecord,
         NEW l \in Lines, l.rec = Rec, WriteLine(l), fdLocus \in Files,
         UNCHANGED <<mem, active, key, todo, arrived, fdLocus, index>>,
         NEW k \in Keys, Placed(k), LinesPlaced(k)
  PROVE  LinesPlaced(k)'
  <1>0. TypeOK /\ OwnVectors /\ AtRecord
    BY DEF LocusInv, InSegment
  <1>1. PICK g \in Files, x \in Records, c \in Keys :
          g = fdLocus /\ x = Rec /\ c = key /\ KeyOf[x] = c
    BY <1>0, AtRecordFacts
  <1>2. /\ \A f \in Files : \A i \in DOMAIN locus[f] :
             i \in DOMAIN locus'[f] /\ locus'[f][i] = locus[f][i]
        /\ \A f \in Files : \A i \in DOMAIN locus'[f] :
             i \in DOMAIN locus[f] \/ (f = g /\ i = Len(locus[g]) + 1)
        /\ locus'[g][Len(locus[g]) + 1] = l
        /\ DOMAIN locus[g] = 1 .. Len(locus[g]) /\ Len(locus[g]) \in Nat
    BY <1>0, <1>1, FiledGrows
  <1>3. PICK n \in Nat : n = Len(locus[g])
    BY <1>2
  <1>4. l.rec = x /\ fdLocus' = g /\ key' = c
    BY <1>1
  <1>5. \A f \in Files : \A i \in DOMAIN locus[f] :
          (LineOf(k, f, i)' <=> LineOf(k, f, i)) /\ LineRec(f, i)' = LineRec(f, i)
    BY <1>2 DEF LineOf, LineRec
  <1>6. LineRec(g, n + 1)' = x
    BY <1>2, <1>3, <1>4 DEF LineRec
  <1>7. LineOf(k, g, n + 1)' => k = c
    BY <1>1, <1>6 DEF LineOf, LineRec
  <1>8. \A r, s : Before(k, r, s) <=> Before(k, r, s)'
    BY DEF Before
  <1>9. /\ stLocusIndex \in Entries /\ stLocusIndex.offset \in Nat
        /\ stLocusIndex'.offset = stLocusIndex.offset
        /\ stLocusIndex.offset <= n
    <2>1. fdLocus # None
      BY <1>1, NoFileAssumption
    <2>2. stLocusIndex \in Entries
      BY <1>0, <2>1 DEF TypeOK
    <2>3. stLocusIndex.offset \in Nat /\ stLocusIndex.length \in Nat
      BY <2>2 DEF Entries
    <2>4. stLocusIndex.offset + stLocusIndex.length = n
      BY <1>1, <1>3, <2>1 DEF LocusInv, OpenSegmentWhole
    <2>5. stLocusIndex'.offset = stLocusIndex.offset
      BY <2>2 DEF WriteLine, Entries
    <2> QED
      BY <2>2, <2>3, <2>4, <2>5
  <1>10. \A f, i : Covered(f, i) => Covered(f, i)'
    BY DEF Covered
  <1>11. \A f, i : InHand(k, f, i) => InHand(k, f, i)'
    BY <1>9 DEF InHand
  <1>12. k = c => /\ g[2] = BucketOf[k]
                  /\ \A f \in Files : \A i \in DOMAIN locus[f] : LineOf(k, f, i) => f[1] <= g[1]
                  /\ \A i \in Pending(k) : g[1] <= HourOf(TimeOf[Old(k)[i]])
                  /\ x \in Waiting(k) /\ g[1] <= HourOf(TimeOf[x])
    <2> SUFFICES ASSUME k = c
                 PROVE  /\ g[2] = BucketOf[k]
                        /\ \A f \in Files : \A i \in DOMAIN locus[f] : LineOf(k, f, i) => f[1] <= g[1]
                        /\ \A i \in Pending(k) : g[1] <= HourOf(TimeOf[Old(k)[i]])
                        /\ x \in Waiting(k) /\ g[1] <= HourOf(TimeOf[x])
      OBVIOUS
    <2>1. fdLocus # None
      BY <1>1, NoFileAssumption
    <2>2. /\ usNum + 1 \in Pending(k) /\ Old(k)[usNum + 1] = x /\ x \in Waiting(k)
      BY <1>0, <1>1, FirstWaits
    <2>3. /\ g[2] = BucketOf[k]
          /\ \A f \in Files : \A i \in DOMAIN locus[f] : LineOf(k, f, i) => f[1] <= g[1]
          /\ \A i \in Pending(k) : g[1] <= HourOf(TimeOf[Old(k)[i]])
      BY <1>1, <2>1 DEF LinesPlaced
    <2> QED
      BY <2>2, <2>3
  <1>13. ASSUME NEW f \in Files, NEW i \in DOMAIN locus[f], LineOf(k, f, i), k = c
         PROVE  Before(k, LineRec(f, i), x)
    <2>1. LineRec(f, i) \in Filed(k)
      <3>1. locus[f][i] \in Lines
        BY <1>0 DEF TypeOK
      <3>2. LineRec(f, i) \in Records
        BY <3>1 DEF LineRec, Lines
      <3> QED
        BY <1>13, <3>2 DEF Filed, LineOf, LineRec
    <2> QED
      BY <1>12, <1>13, <2>1 DEF Placed
  <1>14. ASSUME NEW f \in Files, NEW h \in Files, NEW i \in DOMAIN locus'[f], NEW j \in DOMAIN locus'[h],
                LineOf(k, f, i)', LineOf(k, h, j)', Earlier(f, i, h, j)
         PROVE  Before(k, LineRec(f, i), LineRec(h, j))'
    <2>1. CASE i \in DOMAIN locus[f] /\ j \in DOMAIN locus[h]
      <3>1. Before(k, LineRec(f, i), LineRec(h, j))
        BY <1>5, <1>14, <2>1 DEF LinesPlaced
      <3> QED
        BY <1>5, <1>8, <2>1, <3>1
    <2>2. CASE i \in DOMAIN locus[f] /\ h = g /\ j = n + 1
      <3>1. k = c /\ LineOf(k, f, i)
        BY <1>5, <1>7, <1>14, <2>2
      <3>2. Before(k, LineRec(f, i), x)
        BY <1>13, <2>2, <3>1
      <3> QED
        BY <1>5, <1>6, <1>8, <2>2, <3>2
    <2>3. CASE f = g /\ i = n + 1
      <3>1. k = c
        BY <1>7, <1>14, <2>3
      <3>2. CASE j \in DOMAIN locus[h]
        <4>1. h[1] <= g[1]
          BY <1>5, <1>12, <1>14, <3>1, <3>2
        <4>2. g[1] \in Nat /\ h[1] \in Nat
          BY FileHour
        <4>3. ASSUME f = h PROVE FALSE
          <5>1. n + 1 < j
            BY <1>14, <2>3, <4>2, <4>3 DEF Earlier
          <5>2. j \in 1 .. n
            BY <1>2, <1>3, <2>3, <3>2, <4>3
          <5> QED
            BY <5>1, <5>2
        <4> QED
          BY <1>14, <2>3, <4>1, <4>2, <4>3 DEF Earlier
      <3>3. CASE h = g /\ j = n + 1
        <4>1. g[1] \in Nat
          BY FileHour
        <4> QED
          BY <1>14, <2>3, <3>3, <4>1 DEF Earlier
      <3> QED
        BY <1>2, <1>3, <3>2, <3>3
    <2> QED
      BY <1>2, <1>3, <2>1, <2>2, <2>3
  <1>15. ASSUME NEW f \in Files, NEW i \in DOMAIN locus'[f], LineOf(k, f, i)'
         PROVE  /\ f[2] = BucketOf[k]
                /\ f[1] <= HourOf(TimeOf[LineRec(f, i)])'
                /\ Covered(f, i)' \/ InHand(k, f, i)'
    <2>1. CASE i \in DOMAIN locus[f]
      <3>1. LineOf(k, f, i) /\ LineRec(f, i)' = LineRec(f, i)
        BY <1>5, <1>15, <2>1
      <3>2. /\ f[2] = BucketOf[k] /\ f[1] <= HourOf(TimeOf[LineRec(f, i)])
            /\ Covered(f, i) \/ InHand(k, f, i)
        BY <2>1, <3>1 DEF LinesPlaced, InHand
      <3> QED
        BY <1>10, <1>11, <3>1, <3>2 DEF HourOf
    <2>2. CASE f = g /\ i = n + 1
      <3>1. k = c
        BY <1>7, <1>15, <2>2
      <3>2. InHand(k, f, i)'
        BY <1>1, <1>4, <1>9, <2>2, <3>1 DEF InHand
      <3> QED
        BY <1>6, <1>12, <2>2, <3>1, <3>2 DEF HourOf
    <2> QED
      BY <1>2, <1>3, <2>1, <2>2
  <1>16. OpenPlaced(k)'
    <2> SUFFICES ASSUME k = c PROVE OpenPlaced(k)'
      BY <1>4 DEF OpenPlaced
    <2>1. Pending(k)' \subseteq Pending(k) /\ Old(k)' = Old(k)
      BY <1>0, NextWaits
    <2>2. ASSUME NEW f \in Files, NEW i \in DOMAIN locus'[f], LineOf(k, f, i)'
          PROVE  f[1] <= g[1]
      <3>1. CASE i \in DOMAIN locus[f]
        BY <1>5, <1>12, <2>2, <3>1
      <3>2. CASE f = g
        BY <3>2, FileHour
      <3> QED
        BY <1>2, <3>1, <3>2
    <2>3. \A i \in Pending(k)' : g[1] <= HourOf(TimeOf[Old(k)[i]])'
      BY <1>12, <2>1 DEF HourOf
    <2> QED
      BY <1>4, <1>12, <2>2, <2>3 DEF OpenPlaced
  <1> QED
    BY <1>14, <1>15, <1>16 DEF LinesPlaced, OpenPlaced, InHand

LEMMA LinesNext ==
  ASSUME LocusInv, ArrivedOnce, LogsMatch, VectorsFit, [Next]_vars,
         NEW k \in Keys, Orderly(k), k \notin disturbed', Placed(k), LinesPlaced(k)
  PROVE  LinesPlaced(k)'
  <1>0. TypeOK /\ OwnVectors
    BY DEF LocusInv
  <1>1. CASE /\ UNCHANGED <<locus, index, arrived, key, fdLocus, stLocusIndex>>
             /\ Old(k)' = Old(k) /\ Pending(k)' \subseteq Pending(k)
    BY <1>0, <1>1, LinesStill DEF Before
  <1>2. CASE /\ UNCHANGED <<locus, index, arrived>>
             /\ fdLocus' = None /\ (fdLocus = None \/ key # k)
    BY <1>0, <1>2, LinesStill DEF Before
  <1>3. ASSUME NEW r \in Records, Store(r) PROVE LinesPlaced(k)'
    <2>1. \A s, t : Before(k, s, t) => Before(k, s, t)'
      <3>1. CASE k = KeyOf[r]
        BY <1>3, <3>1, StoreArrived, SentLast
      <3>2. CASE k # KeyOf[r]
        BY <1>3, <3>2, StoreArrived DEF Before
      <3> QED
        BY <3>1, <3>2
    <2>2. /\ mem' = [mem EXCEPT ![active][KeyOf[r]] = Append(@, r)]
          /\ UNCHANGED <<active, locus, index, todo, key, usNum, fdLocus, stLocusIndex>>
      BY <1>3 DEF Store, child, files
    <2>3. /\ active \in Buffers /\ Other(active) \in Buffers /\ Other(active) # active
          /\ mem \in [Buffers -> [Keys -> Seq(Records)]]
      BY <1>0, MapFacts DEF TypeOK
    <2>4. mem'[Other(active)] = mem[Other(active)] /\ Other(active)' = Other(active)
      BY <2>2, <2>3 DEF Other
    <2>5. Old(k)' = Old(k)
      BY <2>4 DEF Old, Retired
    <2>6. Pending(k)' = Pending(k)
      BY <2>2, <2>5 DEF Pending
    <2> QED
      BY <1>0, <2>1, <2>2, <2>5, <2>6, LinesStill
  <1>4. CASE BeginPass
    <2>1. /\ UNCHANGED <<locus, index, arrived, fdLocus>> /\ ppc = "wait"
      BY <1>4 DEF BeginPass, files, history
    <2>2. fdLocus = None
      BY <1>0, <2>1 DEF TypeOK
    <2> QED
      BY <1>2, <2>1, <2>2
  <1>5. ASSUME NEW k1 \in Keys, NextKey(k1) PROVE LinesPlaced(k)'
    <2>1. UNCHANGED <<locus, index, arrived>> /\ fdLocus' = None /\ key = None
      BY <1>5 DEF NextKey, files, history
    <2>2. fdLocus = None
      BY <1>0, <2>1 DEF TypeOK
    <2> QED
      BY <1>2, <2>1, <2>2
  <1>6. CASE OpenSegment
    BY <1>6, OpenLines
  <1>7. CASE OpenFails \/ FinishKey
    <2>1. UNCHANGED <<locus, arrived>> /\ index' = EntryWritten /\ fdLocus' = None
      BY <1>7 DEF OpenFails, FinishKey, history
    <2> QED
      BY <2>1, CloseLines
  <1>8. CASE WriteBase
    <2>1. /\ InSegment /\ NextRecord /\ WriteLine(Absolute(Rec))
          /\ UNCHANGED <<mem, active, key, todo, arrived, fdLocus, index>>
      BY <1>8 DEF WriteBase, buffers, history
    <2>2. Rec \in Records /\ fdLocus \in Files
      BY <1>0, <2>1, AtRecordFacts DEF TypeOK, InSegment, AtRecord
    <2>3. Absolute(Rec) \in Lines /\ Absolute(Rec).rec = Rec
      BY <2>2, LineTyped
    <2> QED
      BY <2>1, <2>2, <2>3, WriteLines
  <1>9. CASE WriteDelta
    <2>1. /\ InSegment /\ NextRecord /\ WriteLine(Relative(Rec, Base)) /\ ~bFirstWirte
          /\ UNCHANGED <<mem, active, key, todo, arrived, fdLocus, index>>
      BY <1>9 DEF WriteDelta, RelativeLine, buffers, history
    <2>2. Rec \in Records /\ fdLocus \in Files
      BY <1>0, <2>1, AtRecordFacts DEF TypeOK, InSegment, AtRecord
    <2>3. Base \in Records
      BY <2>1, <2>2, BaseTyped
    <2>4. Relative(Rec, Base) \in Lines /\ Relative(Rec, Base).rec = Rec
      BY <2>2, <2>3, LineTyped
    <2> QED
      BY <2>1, <2>2, <2>4, WriteLines
  <1>10. CASE PressRecord
    <2>1. /\ UNCHANGED <<locus, index, arrived, key, fdLocus, stLocusIndex, mem, active, todo>>
          /\ AtRecord /\ NextRecord
      BY <1>10 DEF PressRecord, InSegment, buffers, files
    <2>2. Old(k)' = Old(k) /\ Pending(k)' \subseteq Pending(k)
      BY <2>1, NextWaits
    <2> QED
      BY <1>1, <2>1, <2>2
  <1>11. CASE EndPass \/ QueryStep \/ (\E q \in Queries : StartQuery(q)) \/ UNCHANGED vars
    <2>1. UNCHANGED <<mem, active, arrived, locus, index, todo, key, usNum, fdLocus, stLocusIndex>>
      BY <1>11 DEF EndPass, QueryStep, ReadHour, FindVector, ScanVector, StartQuery, buffers,
         files, child, history, vars
    <2>2. Pending(k)' = Pending(k) /\ Old(k)' = Old(k)
      BY <2>1 DEF Pending, Old, Retired, Other
    <2> QED
      BY <1>1, <2>1, <2>2
  <1>12. CASE Kill
    <2>1. UNCHANGED <<locus, index, arrived>> /\ fdLocus' = None
      BY <1>12 DEF Kill, files
    <2>2. ASSUME fdLocus # None, key = k PROVE FALSE
      <3>1. ppc = "filing" /\ k \in todo
        BY <1>0, <2>2 DEF TypeOK, LogsMatch
      <3>2. k \notin disturbed
        BY DEF Orderly
      <3>3. log[Other(active)][k] # <<>>
        BY <3>1, <3>2 DEF LogsMatch
      <3>4. Other(active) \in Buffers
        BY <1>0, MapFacts
      <3> QED
        BY <1>12, <3>1, <3>3, <3>4 DEF Kill
    <2> QED
      BY <1>2, <2>1, <2>2
  <1> QED
    BY <1>3, <1>4, <1>5, <1>6, <1>7, <1>8, <1>9, <1>10, <1>11, <1>12 DEF Next, ChildStep

LEMMA OrderNext ==
  ASSUME LocusInv, VectorsFit, OrderInv, [Next]_vars
  PROVE  OrderInv'
  <1>1. ArrivedOnce' /\ LogsMatch'
    BY ArrivedNext, LogsNext DEF OrderInv, LocusInv
  <1>2. ASSUME NEW k \in Keys, Orderly(k)'
        PROVE  Placed(k)' /\ LinesPlaced(k)'
    <2>1. ArrivedOnce /\ LogsMatch
      BY DEF OrderInv
    <2>2. Orderly(k)
      BY <1>2, <2>1, OrderlyBefore
    <2>3. Placed(k) /\ LinesPlaced(k) /\ k \notin disturbed'
      BY <1>2, <2>2 DEF OrderInv, Orderly
    <2> QED
      BY <1>1, <2>1, <2>2, <2>3, PlacedNext, LinesNext
  <1> QED
    BY <1>1, <1>2 DEF OrderInv

LEMMA OrderInit == Init => OrderInv
  <1> SUFFICES ASSUME Init PROVE OrderInv
    OBVIOUS
  <1>1. /\ mem = [b \in Buffers |-> Empty] /\ log = [b \in Buffers |-> Empty] /\ active = 1
        /\ locus = [f \in Files |-> <<>>] /\ ppc = "wait" /\ todo = {} /\ key = None
        /\ fdLocus = None /\ arrived = Empty /\ lost = {} /\ pressed = {} /\ disturbed = {}
    BY DEF Init
  <1>2. Other(active) = 2 /\ 1 \in Buffers /\ 2 \in Buffers
    BY <1>1 DEF Other, Buffers
  <1>3. \A k \in Keys : Empty[k] = <<>> /\ DOMAIN Empty[k] = {} /\ Held(Empty[k]) = {}
    BY DEF Empty, Held
  <1>4. ArrivedOnce
    BY <1>1, <1>3, EmptyTyped DEF ArrivedOnce
  <1>5. LogsMatch
    BY <1>1, <1>2, <1>3 DEF LogsMatch, Current
  <1>6. ASSUME NEW k \in Keys PROVE Placed(k) /\ LinesPlaced(k)
    <2>1. Current(k) = Empty[k] /\ Old(k) = Empty[k]
      BY <1>1, <1>2 DEF Current, Old, Retired
    <2>2. \A f \in Files : DOMAIN locus[f] = {}
      BY <1>1
    <2>3. Filed(k) = {} /\ Dropped(k) = {} /\ Pending(k) = {} /\ Waiting(k) = {}
      BY <1>1, <2>2 DEF Filed, Dropped, Pending, Waiting
    <2>4. Placed(k)
      BY <1>1, <1>3, <2>1, <2>3 DEF Placed
    <2>5. LinesPlaced(k)
      BY <1>1, <2>2 DEF LinesPlaced
    <2> QED
      BY <2>4, <2>5
  <1> QED
    BY <1>4, <1>5, <1>6 DEF OrderInv

(* As long as no device has as many records in a map as usNum can count,   *)
(* each record is in one place, and the places are in the order in which   *)
(* the device has sent.                                                    *)
THEOREM RecordsPlaced == Spec /\ []VectorsFit => []OrderInv
  <1>1. LocusInv /\ VectorsFit /\ OrderInv /\ [Next]_vars => OrderInv'
    BY OrderNext
  <1> QED
    BY <1>1, OrderInit, LocusCorrect, PTL DEF Spec

-----------------------------------------------------------------------------
(* What the query has made of the records of D, taken in the order in which *)
(* they arrived.  t lists what it has counted: records of D in range and in *)
(* that order, the rows of the answer are those of the page in t, and a     *)
(* record in range that is not in t came after all of it when the page was  *)
(* full.  A query that has not ended has room on its page, and one that has *)
(* ended is full or has seen a record past its range.                       *)
Counted(q, s, D, t) ==
  /\ Len(t) = s.count /\ s.count <= page_max_size(q)
  /\ \A i, j \in DOMAIN t : i < j => Before(q.key, t[i], t[j])
  /\ \A i \in DOMAIN t : t[i] \in D /\ InRange(q, t[i])
  /\ Len(s.rows) = IF s.count <= page_min_size(q) THEN 0 ELSE s.count - page_min_size(q)
  /\ \A i \in DOMAIN s.rows : s.rows[i].rec = t[page_min_size(q) + i]
  /\ \A x \in D : InRange(q, x) =>
       \/ \E i \in DOMAIN t : t[i] = x
       \/ s.count = page_max_size(q) /\ \A i \in DOMAIN t : Before(q.key, t[i], x)

EndSeen(q, s, D) ==
  IF s.ended THEN s.count = page_max_size(q) \/ \E x \in D : TimeOf[x] > q.end
  ELSE s.count < page_max_size(q)

Met(q, s, D) ==
  /\ \E t \in Seq(Records) : Counted(q, s, D, t)
  /\ EndSeen(q, s, D)

LEMMA TurnInduction ==
  ASSUME NEW n \in Nat, NEW X, 0 \in X, \A i \in 1 .. n : i - 1 \in X => i \in X
  PROVE  \A i \in 0 .. n : i \in X
  <1> DEFINE S == {i \in Nat : i <= n => i \in X}
  <1>1. 0 \in S
    OBVIOUS
  <1>2. ASSUME NEW i \in Nat, i \in S PROVE i + 1 \in S
    <2> SUFFICES ASSUME i + 1 <= n PROVE i + 1 \in X
      OBVIOUS
    <2>1. i \in X
      BY <1>2
    <2>2. i + 1 \in 1 .. n /\ (i + 1) - 1 = i
      OBVIOUS
    <2> QED
      BY <2>1, <2>2
  <1> HIDE DEF S
  <1>3. \A i \in Nat : i \in S
    BY <1>1, <1>2, SetInduction
  <1> QED
    BY <1>3 DEF S

LEMMA QueryTyped ==
  ASSUME NEW q \in Queries
  PROVE  /\ q.key \in Keys /\ q.begin \in Nat /\ q.end \in Nat
         /\ q.cur_page \in Nat \ {0} /\ q.page_size \in Nat \ {0}
  BY LocusAssumption

(* a page holds at least one row *)
LEMMA PageBounds ==
  ASSUME NEW q \in Queries
  PROVE  /\ page_min_size(q) \in Nat /\ page_max_size(q) \in Nat
         /\ page_min_size(q) < page_max_size(q)
         /\ q.cur_page = 1 => page_min_size(q) = 0 /\ page_max_size(q) = q.page_size
  <1>1. PICK c \in Nat, n \in Nat : c = q.cur_page /\ n = q.page_size /\ c # 0 /\ n # 0
    BY QueryTyped
  <1>2. PICK d \in Nat : c = d + 1
    <2>1. c - 1 \in Nat /\ c = (c - 1) + 1
      BY <1>1
    <2> QED
      BY <2>1
  <1>3. PICK p \in Nat : p = d * n
    BY SMT
  <1>4. c * n = p + n
    BY <1>2, <1>3
  <1>5. c = 1 => p = 0
    BY <1>2, <1>3
  <1> QED
    BY <1>1, <1>4, <1>5 DEF page_min_size, page_max_size

(* the rows are in the order of arrival, and while the first page has room  *)
(* every record in range is one of them                                     *)
LEMMA MetSays ==
  ASSUME NEW q \in Queries, NEW s \in Results(q), NEW D, Met(q, s, D)
  PROVE  /\ \A i, j \in DOMAIN s.rows : i < j => Before(q.key, s.rows[i].rec, s.rows[j].rec)
         /\ q.cur_page = 1 /\ s.count < q.page_size =>
              /\ \A x \in D : InRange(q, x) => \E i \in DOMAIN s.rows : s.rows[i].rec = x
              /\ s.ended => \E x \in D : TimeOf[x] > q.end
  <1>1. PICK t \in Seq(Records) : Counted(q, s, D, t)
    BY DEF Met
  <1>2. PICK a \in Nat, c \in Nat : a = page_min_size(q) /\ c = page_max_size(q)
    BY PageBounds
  <1>3. PICK n \in Nat, m \in Nat : n = s.count /\ m = Len(s.rows) /\ DOMAIN s.rows = 1 .. m
    BY DEF Results
  <1>4. DOMAIN t = 1 .. n /\ m = (IF n <= a THEN 0 ELSE n - a)
    BY <1>1, <1>2, <1>3 DEF Counted
  <1>5. \A i \in 1 .. m : a + i \in 1 .. n /\ s.rows[i].rec = t[a + i]
    <2>1. \A i \in 1 .. m : a + i \in 1 .. n
      BY <1>4
    <2>2. \A i \in 1 .. m : s.rows[i].rec = t[a + i]
      BY <1>1, <1>2, <1>3 DEF Counted
    <2> QED
      BY <2>1, <2>2
  <1>6. ASSUME NEW i \in 1 .. m, NEW j \in 1 .. m, i < j
        PROVE  Before(q.key, s.rows[i].rec, s.rows[j].rec)
    <2>1. a + i < a + j
      BY <1>6
    <2>2. Before(q.key, t[a + i], t[a + j])
      BY <1>1, <1>4, <1>5, <2>1 DEF Counted
    <2> QED
      BY <1>5, <2>2
  <1>7. ASSUME q.cur_page = 1, s.count < q.page_size, NEW x \in D, InRange(q, x)
        PROVE  \E i \in DOMAIN s.rows : s.rows[i].rec = x
    <2>1. a = 0 /\ n < c /\ m = n
      BY <1>2, <1>3, <1>4, <1>7, PageBounds
    <2>2. PICK i \in 1 .. n : t[i] = x
      BY <1>1, <1>2, <1>3, <1>4, <1>7, <2>1 DEF Counted
    <2>3. a + i = i
      BY <2>1
    <2> QED
      BY <1>3, <1>5, <2>1, <2>2, <2>3
  <1>8. ASSUME q.cur_page = 1, s.count < q.page_size, s.ended PROVE \E x \in D : TimeOf[x] > q.end
    <2>1. s.count # page_max_size(q)
      BY <1>3, <1>8, PageBounds, QueryTyped
    <2> QED
      BY <1>8, <2>1 DEF Met, EndSeen
  <1> QED
    BY <1>3, <1>6, <1>7, <1>8

(* records that are out of range change nothing *)
LEMMA MetSkips ==
  ASSUME NEW q \in Queries, NEW s, NEW D, Met(q, s, D), NEW E, \A x \in E : ~InRange(q, x)
  PROVE  Met(q, s, D \cup E)
  <1>1. \A x \in D \cup E : InRange(q, x) => x \in D
    OBVIOUS
  <1>2. \A x \in D : x \in D \cup E
    OBVIOUS
  <1>3. PICK t \in Seq(Records) : Counted(q, s, D, t)
    BY DEF Met
  <1>4. Counted(q, s, D \cup E, t)
    BY <1>1, <1>2, <1>3 DEF Counted
  <1>5. EndSeen(q, s, D \cup E)
    BY <1>2 DEF Met, EndSeen
  <1> QED
    BY <1>4, <1>5 DEF Met

(* nor do records that arrived after one past the range, or after the page  *)
(* was full                                                                 *)
LEMMA MetEnded ==
  ASSUME NEW q \in Queries, Orderly(q.key), NEW s, s.ended, NEW D, D \subseteq Records,
         Met(q, s, D), NEW E, E \subseteq Records, \A x \in D, y \in E : Before(q.key, x, y)
  PROVE  Met(q, s, D \cup E)
  <1>1. CASE \E x \in D : TimeOf[x] > q.end
    <2>1. PICK x \in D : TimeOf[x] > q.end
      BY <1>1
    <2>2. ASSUME NEW y \in E PROVE ~InRange(q, y)
      <3>1. TimeOf[x] <= TimeOf[y]
        BY BeforeTime, QueryTyped
      <3>2. TimeOf[x] \in Nat /\ TimeOf[y] \in Nat /\ q.end \in Nat
        BY LocusAssumption, QueryTyped
      <3> QED
        BY <2>1, <3>1, <3>2 DEF InRange
    <2> QED
      BY <2>2, MetSkips
  <1>2. CASE s.count = page_max_size(q)
    <2>1. PICK t \in Seq(Records) : Counted(q, s, D, t)
      BY DEF Met
    <2>2. \A y \in E : \A i \in DOMAIN t : Before(q.key, t[i], y)
      BY <2>1 DEF Counted
    <2>3. Counted(q, s, D \cup E, t)
      BY <1>2, <2>1, <2>2 DEF Counted
    <2>4. EndSeen(q, s, D \cup E)
      BY <1>2 DEF EndSeen
    <2> QED
      BY <2>3, <2>4 DEF Met
  <1> QED
    BY <1>1, <1>2 DEF Met, EndSeen

(* a record past the range ends the query, or changes nothing *)
LEMMA MetLate ==
  ASSUME NEW q \in Queries, NEW s \in Results(q), NEW D, Met(q, s, D), ~s.ended,
         NEW r \in Records, TimeOf[r] > q.end, NEW b \in BOOLEAN, NEW t, t = [s EXCEPT !.ended = b]
  PROVE  Met(q, t, D \cup {r})
  <1>1. t.rows = s.rows /\ t.count = s.count /\ t.ended = b
    BY DEF Results
  <1>2. ~InRange(q, r)
    <2>1. TimeOf[r] \in Nat /\ q.end \in Nat
      BY LocusAssumption, QueryTyped
    <2> QED
      BY <2>1 DEF InRange
  <1>3. Met(q, s, D \cup {r})
    BY <1>2, MetSkips
  <1>4. \E x \in D \cup {r} : TimeOf[x] > q.end
    OBVIOUS
  <1>5. PICK w \in Seq(Records) : Counted(q, s, D \cup {r}, w)
    BY <1>3 DEF Met
  <1>6. Counted(q, t, D \cup {r}, w)
    BY <1>1, <1>5 DEF Counted
  <1>7. EndSeen(q, t, D \cup {r})
    BY <1>1, <1>3, <1>4 DEF EndSeen, Met
  <1> QED
    BY <1>6, <1>7 DEF Met

(* a record in range is counted, and on its page it becomes a row *)
LEMMA MetTaken ==
  ASSUME NEW q \in Queries, NEW s \in Results(q), ~s.ended, NEW D, Met(q, s, D),
         NEW row \in RowsInRange(q), \A x \in D : Before(q.key, x, row.rec)
  PROVE  Met(q, TakeRow(q, s, row), D \cup {row.rec})
  <1> DEFINE u == TakeRow(q, s, row)
  <1>1. PICK a \in Nat, c \in Nat : a = page_min_size(q) /\ c = page_max_size(q) /\ a < c
    BY PageBounds
  <1>2. PICK n \in Nat, m \in Nat : n = s.count /\ m = Len(s.rows)
    BY DEF Results
  <1>3. /\ u.count = n + 1 /\ u.ended = (n + 1 = c)
        /\ u.rows = IF n + 1 > a THEN Append(s.rows, row) ELSE s.rows
    BY <1>1, <1>2 DEF TakeRow, Results, OnPage
  <1> HIDE DEF u
  <1>4. PICK r \in Records : r = row.rec /\ InRange(q, r)
    BY DEF RowsInRange, SoundRows
  <1>5. PICK t \in Seq(Records) : Counted(q, s, D, t)
    BY DEF Met
  <1>6. /\ DOMAIN t = 1 .. n /\ Len(t) = n /\ n < c
        /\ m = IF n <= a THEN 0 ELSE n - a
    BY <1>1, <1>2, <1>5 DEF Counted, Met, EndSeen
  <1>7. s.rows \in Seq(RowsInRange(q)) /\ DOMAIN s.rows = 1 .. m
    BY <1>2 DEF Results
  <1>8. PICK w \in Seq(Records) : w = Append(t, r)
    <2>1. Append(t, r) \in Seq(Records)
      OBVIOUS
    <2> QED
      BY <2>1
  <1>9. /\ DOMAIN w = 1 .. n + 1 /\ Len(w) = n + 1 /\ w[n + 1] = r
        /\ \A i \in 1 .. n : i \in 1 .. n + 1 /\ w[i] = t[i]
        /\ \A i \in 1 .. n + 1 : i \in 1 .. n \/ i = n + 1
    BY <1>6, <1>8
  <1>10. \A i, j \in DOMAIN w : i < j => Before(q.key, w[i], w[j])
    <2> SUFFICES ASSUME NEW i \in 1 .. n + 1, NEW j \in 1 .. n + 1, i < j
                 PROVE  Before(q.key, w[i], w[j])
      BY <1>9
    <2>1. i \in 1 .. n
      OBVIOUS
    <2>2. t[i] \in D /\ w[i] = t[i]
      BY <1>5, <1>6, <1>9, <2>1 DEF Counted
    <2>3. CASE j \in 1 .. n
      BY <1>5, <1>6, <1>9, <2>1, <2>3 DEF Counted
    <2>4. CASE j = n + 1
      BY <1>4, <1>9, <2>2, <2>4
    <2> QED
      BY <1>9, <2>3, <2>4
  <1>11. \A i \in DOMAIN w : w[i] \in D \cup {r} /\ InRange(q, w[i])
    BY <1>4, <1>5, <1>6, <1>9 DEF Counted
  <1>12. /\ Len(u.rows) = IF u.count <= a THEN 0 ELSE u.count - a
         /\ \A i \in DOMAIN u.rows : u.rows[i].rec = w[a + i]
    <2>1. \A i \in 1 .. m : a + i \in 1 .. n /\ s.rows[i].rec = w[a + i]
      <3>1. \A i \in 1 .. m : a + i \in 1 .. n
        BY <1>6
      <3>2. \A i \in 1 .. m : s.rows[i].rec = t[a + i]
        BY <1>1, <1>5, <1>7 DEF Counted
      <3> QED
        BY <1>9, <3>1, <3>2
    <2>2. CASE n + 1 > a
      <3>1. /\ DOMAIN u.rows = 1 .. m + 1 /\ Len(u.rows) = m + 1 /\ u.rows[m + 1] = row
            /\ \A i \in 1 .. m : u.rows[i] = s.rows[i]
        BY <1>2, <1>3, <1>7, <2>2
      <3>2. m + 1 = (n + 1) - a /\ a + (m + 1) = n + 1
        BY <1>6, <2>2
      <3>3. \A i \in 1 .. m + 1 : i \in 1 .. m \/ i = m + 1
        OBVIOUS
      <3>4. ASSUME NEW i \in 1 .. m + 1 PROVE u.rows[i].rec = w[a + i]
        <4>1. CASE i \in 1 .. m
          BY <2>1, <3>1, <4>1
        <4>2. CASE i = m + 1
          <5>1. u.rows[i] = row /\ a + i = n + 1
            BY <3>1, <3>2, <4>2
          <5> QED
            BY <1>4, <1>9, <5>1
        <4> QED
          BY <3>3, <4>1, <4>2
      <3>5. u.count = n + 1 /\ ~(u.count <= a) /\ Len(u.rows) = u.count - a
        <4>1. u.count = n + 1 /\ Len(u.rows) = m + 1
          BY <1>3, <3>1
        <4>2. ~(n + 1 <= a)
          BY <2>2
        <4> QED
          BY <3>2, <4>1, <4>2
      <3>6. \A i \in DOMAIN u.rows : u.rows[i].rec = w[a + i]
        BY <3>1, <3>4
      <3> QED
        BY <3>5, <3>6
    <2>3. CASE ~(n + 1 > a)
      BY <1>2, <1>3, <1>6, <1>7, <2>1, <2>3
    <2> QED
      BY <2>2, <2>3
  <1>13. \A x \in D \cup {r} : InRange(q, x) => \E i \in DOMAIN w : w[i] = x
    <2> SUFFICES ASSUME NEW x \in D \cup {r}, InRange(q, x) PROVE \E i \in 1 .. n + 1 : w[i] = x
      BY <1>9
    <2>1. CASE x = r
      BY <1>9, <2>1
    <2>2. CASE x \in D
      <3>1. s.count # page_max_size(q)
        BY <1>1, <1>2, <1>6
      <3>2. PICK i \in 1 .. n : t[i] = x
        BY <1>5, <1>6, <2>2, <3>1 DEF Counted
      <3> QED
        BY <1>9, <3>2
    <2> QED
      BY <2>1, <2>2
  <1>14. Counted(q, u, D \cup {r}, w)
    <2>1. u.count <= c /\ Len(w) = u.count
      BY <1>3, <1>6, <1>9
    <2> QED
      BY <1>1, <1>10, <1>11, <1>12, <1>13, <2>1 DEF Counted
  <1>15. EndSeen(q, u, D \cup {r})
    <2>1. CASE n + 1 = c
      BY <1>1, <1>3, <2>1 DEF EndSeen
    <2>2. CASE n + 1 # c
      <3>1. n + 1 < c
        BY <1>6, <2>2
      <3> QED
        BY <1>1, <1>3, <2>2, <3>1 DEF EndSeen
    <2> QED
      BY <2>1, <2>2
  <1> QED
    BY <1>4, <1>14, <1>15 DEF Met, u

LEMMA MetReadRow ==
  ASSUME NEW q \in Queries, Orderly(q.key), NEW s \in Results(q), NEW D, D \subseteq Records,
         Met(q, s, D), NEW row \in SoundRows(q), \A x \in D : Before(q.key, x, row.rec)
  PROVE  Met(q, ReadRow(q, s, row), D \cup {row.rec})
  <1>1. /\ row.rec \in Records /\ row.time = TimeOf[row.rec] /\ row.first \in BOOLEAN
        /\ TimeOf[row.rec] \in Nat /\ q.begin \in Nat /\ q.end \in Nat /\ s.ended \in BOOLEAN
    BY LocusAssumption, QueryTyped DEF SoundRows, Results
  <1>2. CASE s.ended
    <2>1. ReadRow(q, s, row) = s
      BY <1>2 DEF ReadRow
    <2> QED
      BY <1>1, <1>2, <2>1, MetEnded
  <1>3. CASE row.time < q.begin
    <2>1. ReadRow(q, s, row) = s
      BY <1>3 DEF ReadRow
    <2>2. ~InRange(q, row.rec)
      BY <1>1, <1>3 DEF InRange
    <2> QED
      BY <2>1, <2>2, MetSkips
  <1>4. CASE ~s.ended /\ ~(row.time < q.begin) /\ row.time > q.end
    <2> DEFINE b == ~row.first
    <2>1. ReadRow(q, s, row) = [s EXCEPT !.ended = b] /\ b \in BOOLEAN
      BY <1>1, <1>4 DEF ReadRow
    <2> HIDE DEF b
    <2> QED
      BY <1>1, <1>4, <2>1, MetLate
  <1>5. CASE ~s.ended /\ ~(row.time < q.begin) /\ ~(row.time > q.end)
    <2>1. ReadRow(q, s, row) = TakeRow(q, s, row)
      BY <1>5 DEF ReadRow
    <2>2. row \in RowsInRange(q)
      BY <1>1, <1>5 DEF RowsInRange, InRange
    <2> QED
      BY <1>5, <2>1, <2>2, MetTaken
  <1> QED
    BY <1>2, <1>3, <1>4, <1>5

LEMMA MetScanRow ==
  ASSUME NEW q \in Queries, Orderly(q.key), NEW s \in Results(q), NEW D, D \subseteq Records,
         Met(q, s, D), NEW r \in Records, KeyOf[r] = q.key, \A x \in D : Before(q.key, x, r)
  PROVE  Met(q, ScanRow(q, s, r), D \cup {r})
  <1> DEFINE row == [rec |-> r, time |-> TimeOf[r], pos |-> PosOf[r], first |-> FALSE]
  <1>1. /\ TimeOf[r] \in Nat /\ PosOf[r] \in Int /\ q.begin \in Nat /\ q.end \in Nat
        /\ s.ended \in BOOLEAN
    BY LocusAssumption, QueryTyped DEF Results
  <1>2. CASE s.ended
    <2>1. ScanRow(q, s, r) = s
      BY <1>2 DEF ScanRow
    <2> QED
      BY <1>1, <1>2, <2>1, MetEnded
  <1>3. CASE ~s.ended /\ TimeOf[r] > q.end
    <2>1. ScanRow(q, s, r) = [s EXCEPT !.ended = TRUE]
      BY <1>3 DEF ScanRow
    <2> QED
      BY <1>1, <1>3, <2>1, MetLate
  <1>4. CASE ~s.ended /\ ~(TimeOf[r] > q.end) /\ TimeOf[r] < q.begin
    <2>1. ScanRow(q, s, r) = s
      BY <1>4 DEF ScanRow
    <2>2. ~InRange(q, r)
      BY <1>1, <1>4 DEF InRange
    <2> QED
      BY <2>1, <2>2, MetSkips
  <1>5. CASE ~s.ended /\ ~(TimeOf[r] > q.end) /\ ~(TimeOf[r] < q.begin)
    <2>1. ScanRow(q, s, r) = TakeRow(q, s, row)
      BY <1>5 DEF ScanRow
    <2>2. row \in RowsInRange(q) /\ row.rec = r
      BY <1>1, <1>5 DEF RowsInRange, SoundRows, InRange
    <2> HIDE DEF row
    <2> QED
      BY <1>5, <2>1, <2>2, MetTaken
  <1> QED
    BY <1>2, <1>3, <1>4, <1>5

(* the rows of a segment, in order and after all that was read before *)
LEMMA MetReadRows ==
  ASSUME NEW q \in Queries, Orderly(q.key), NEW s \in Results(q), NEW D, D \subseteq Records,
         Met(q, s, D), NEW rows \in Seq(SoundRows(q)),
         \A x \in D : \A i \in 1 .. Len(rows) : Before(q.key, x, rows[i].rec),
         \A i, j \in 1 .. Len(rows) : i < j => Before(q.key, rows[i].rec, rows[j].rec)
  PROVE  Met(q, parse_file_gpsdata(q, s, rows), D \cup {rows[i].rec : i \in 1 .. Len(rows)})
  <1> DEFINE n == Len(rows)
             Seen(i) == D \cup {rows[j].rec : j \in 1 .. i}
  <1>1. n \in Nat /\ \A i \in 1 .. n : rows[i] \in SoundRows(q) /\ rows[i].rec \in Records
    BY DEF SoundRows
  <1>2. PICK p \in [0 .. n -> Results(q)] :
          /\ p[0] = s /\ p[n] = parse_file_gpsdata(q, s, rows)
          /\ \A i \in 1 .. n : p[i] = ReadRow(q, p[i - 1], rows[i])
    BY ReadRowsTurns
  <1> DEFINE X == {i \in 0 .. n : Met(q, p[i], Seen(i))}
  <1>3. 0 \in X
    <2>1. Seen(0) = D
      OBVIOUS
    <2> HIDE DEF Seen
    <2> QED
      BY <1>1, <1>2, <2>1
  <1>4. ASSUME NEW i \in 1 .. n, i - 1 \in X PROVE i \in X
    <2>1. Seen(i) = Seen(i - 1) \cup {rows[i].rec}
      <3>1. 1 .. i = (1 .. i - 1) \cup {i}
        BY <1>1
      <3> HIDE DEF n
      <3> QED
        BY <3>1
    <2>2. Seen(i - 1) \subseteq Records
      BY <1>1
    <2>3. \A x \in Seen(i - 1) : Before(q.key, x, rows[i].rec)
      <3>1. \A j \in 1 .. i - 1 : j \in 1 .. n /\ j < i
        BY <1>1
      <3> QED
        BY <3>1
    <2>4. i - 1 \in 0 .. n /\ p[i - 1] \in Results(q) /\ p[i] = ReadRow(q, p[i - 1], rows[i])
          /\ rows[i] \in SoundRows(q)
      BY <1>1, <1>2
    <2>5. Met(q, p[i - 1], Seen(i - 1))
      BY <1>4
    <2> HIDE DEF Seen, n
    <2>6. Met(q, ReadRow(q, p[i - 1], rows[i]), Seen(i - 1) \cup {rows[i].rec})
      BY <2>2, <2>3, <2>4, <2>5, MetReadRow
    <2>7. i \in 0 .. n
      BY <1>1
    <2> QED
      BY <2>1, <2>4, <2>6, <2>7
  <1> HIDE DEF X
  <1>5. \A i \in 0 .. n : i \in X
    BY <1>1, <1>3, <1>4, TurnInduction
  <1>6. Met(q, p[n], Seen(n))
    BY <1>1, <1>5 DEF X
  <1> QED
    BY <1>2, <1>6

LEMMA MetScan ==
  ASSUME NEW q \in Queries, Orderly(q.key), NEW s \in Results(q), NEW D, D \subseteq Records,
         Met(q, s, D), NEW v \in Seq(Records), \A i \in DOMAIN v : KeyOf[v[i]] = q.key,
         \A x \in D : \A i \in 1 .. Len(v) : Before(q.key, x, v[i]),
         \A i, j \in 1 .. Len(v) : i < j => Before(q.key, v[i], v[j])
  PROVE  Met(q, FoldLeft(LAMBDA acc, r : ScanRow(q, acc, r), s, v),
             D \cup {v[i] : i \in 1 .. Len(v)})
  <1> DEFINE n == Len(v)
             Seen(i) == D \cup {v[j] : j \in 1 .. i}
             all == FoldLeft(LAMBDA acc, r : ScanRow(q, acc, r), s, v)
  <1>1. n \in Nat /\ \A i \in 1 .. n : v[i] \in Records /\ KeyOf[v[i]] = q.key
    OBVIOUS
  <1>2. PICK p \in [0 .. n -> Results(q)] :
          /\ p[0] = s /\ p[n] = all
          /\ \A i \in 1 .. n : p[i] = ScanRow(q, p[i - 1], v[i])
    BY ScanTurns
  <1> HIDE DEF all
  <1> DEFINE X == {i \in 0 .. n : Met(q, p[i], Seen(i))}
  <1>3. 0 \in X
    <2>1. Seen(0) = D
      OBVIOUS
    <2> HIDE DEF Seen
    <2> QED
      BY <1>1, <1>2, <2>1
  <1>4. ASSUME NEW i \in 1 .. n, i - 1 \in X PROVE i \in X
    <2>1. Seen(i) = Seen(i - 1) \cup {v[i]}
      <3>1. 1 .. i = (1 .. i - 1) \cup {i}
        BY <1>1
      <3> HIDE DEF n
      <3> QED
        BY <3>1, Zenon
    <2>2. Seen(i - 1) \subseteq Records
      BY <1>1
    <2>3. \A x \in Seen(i - 1) : Before(q.key, x, v[i])
      <3>1. \A j \in 1 .. i - 1 : j \in 1 .. n /\ j < i
        BY <1>1
      <3> QED
        BY <3>1
    <2>4. i - 1 \in 0 .. n /\ p[i - 1] \in Results(q) /\ p[i] = ScanRow(q, p[i - 1], v[i])
          /\ v[i] \in Records /\ KeyOf[v[i]] = q.key
      BY <1>1, <1>2
    <2>5. Met(q, p[i - 1], Seen(i - 1))
      BY <1>4
    <2> HIDE DEF Seen, n
    <2>6. Met(q, ScanRow(q, p[i - 1], v[i]), Seen(i - 1) \cup {v[i]})
      BY <2>2, <2>3, <2>4, <2>5, MetScanRow
    <2>7. i \in 0 .. n
      BY <1>1
    <2> QED
      BY <2>1, <2>4, <2>6, <2>7
  <1> HIDE DEF X
  <1>5. \A i \in 0 .. n : i \in X
    BY <1>1, <1>3, <1>4, TurnInduction
  <1>6. Met(q, p[n], Seen(n))
    BY <1>1, <1>5 DEF X
  <1> QED
    BY <1>2, <1>6, Zenon DEF all

SegmentRecs(f, e) == {LineRec(f, i) : i \in e.offset + 1 .. e.offset + e.length}

LEMMA MetSegment ==
  ASSUME TypeOK, NEW q \in Queries, Orderly(q.key), NEW s \in Results(q), NEW f \in Files,
         NEW e \in Entries, GoodSegment(f, e), e.length > 0, Owns(q, e),
         NEW D, D \subseteq Records, Met(q, s, D),
         \A x \in D : \A i \in e.offset + 1 .. e.offset + e.length :
           Before(q.key, x, LineRec(f, i)),
         \A i, j \in e.offset + 1 .. e.offset + e.length :
           i < j => Before(q.key, LineRec(f, i), LineRec(f, j))
  PROVE  Met(q, ReadSegment(q, s, f, e), D \cup SegmentRecs(f, e))
  <1> DEFINE rows == Decoded(SubSeq(locus[f], e.offset + 1, e.offset + e.length))
             n == e.length
             E == {rows[i].rec : i \in 1 .. n}
             t == [s EXCEPT !.check = FALSE]
  <1>1. /\ rows \in Seq(SoundRows(q)) /\ Len(rows) = n
        /\ \A i \in 1 .. n : rows[i].rec = locus[f][e.offset + i].rec
    BY DecodedRows DEF Owns
  <1>2. ReadSegment(q, s, f, e) = IF s.ended \/ (s.check /\ BeforeQuery(q, rows)) THEN s
                                  ELSE parse_file_gpsdata(q, t, rows)
    BY DEF ReadSegment
  <1>3. n \in Nat /\ e.offset \in Nat /\ n > 0
    BY DEF Entries
  <1> HIDE DEF rows, n
  <1>4. \A i \in 1 .. n : e.offset + i \in e.offset + 1 .. e.offset + e.length
                          /\ rows[i].rec = LineRec(f, e.offset + i)
                          /\ rows[i] \in SoundRows(q) /\ rows[i].rec \in Records
    <2> SUFFICES ASSUME NEW i \in 1 .. n
                 PROVE  /\ e.offset + i \in e.offset + 1 .. e.offset + e.length
                        /\ rows[i].rec = LineRec(f, e.offset + i)
                        /\ rows[i] \in SoundRows(q) /\ rows[i].rec \in Records
      OBVIOUS
    <2>1. e.offset + i \in e.offset + 1 .. e.offset + e.length
      BY <1>3 DEF n
    <2>2. rows[i].rec = LineRec(f, e.offset + i)
      BY <1>1 DEF LineRec
    <2>3. rows[i] \in SoundRows(q)
      <3>1. i \in DOMAIN rows
        BY <1>1, <1>3
      <3> QED
        BY <1>1, <3>1
    <2>4. rows[i].rec \in Records
      BY <2>3 DEF SoundRows
    <2> QED
      BY <2>1, <2>2, <2>3, <2>4
  <1>5. E = SegmentRecs(f, e)
    <2>1. ASSUME NEW i \in e.offset + 1 .. e.offset + e.length
          PROVE  \E j \in 1 .. n : rows[j].rec = LineRec(f, i)
      <3>1. i - e.offset \in 1 .. n /\ e.offset + (i - e.offset) = i
        BY <1>3 DEF n
      <3> QED
        BY <1>4, <3>1
    <2>2. E \subseteq SegmentRecs(f, e)
      BY <1>4 DEF SegmentRecs
    <2>3. SegmentRecs(f, e) \subseteq E
      BY <2>1 DEF SegmentRecs
    <2> QED
      BY <2>2, <2>3
  <1>6. \A x \in D : \A i \in 1 .. n : Before(q.key, x, rows[i].rec)
    BY <1>4
  <1>7. \A i, j \in 1 .. n : i < j => Before(q.key, rows[i].rec, rows[j].rec)
    <2>1. \A i, j \in 1 .. n : i < j => e.offset + i < e.offset + j
      BY <1>3
    <2> QED
      BY <1>4, <2>1
  <1>8. E \subseteq Records /\ \A x \in D, y \in E : Before(q.key, x, y)
    BY <1>4, <1>6
  <1>9. CASE s.ended
    <2>1. Met(q, s, D \cup E)
      BY <1>8, <1>9, MetEnded
    <2> QED
      BY <1>2, <1>5, <1>9, <2>1
  <1>10. CASE ~s.ended /\ s.check /\ BeforeQuery(q, rows)
    <2>1. rows[n].time < q.begin /\ n \in 1 .. n
      BY <1>1, <1>3, <1>10 DEF BeforeQuery
    <2>2. ASSUME NEW i \in 1 .. n PROVE ~InRange(q, rows[i].rec)
      <3>1. rows[n].time = TimeOf[rows[n].rec] /\ TimeOf[rows[n].rec] \in Nat
            /\ TimeOf[rows[i].rec] \in Nat /\ q.begin \in Nat
        BY <1>4, <2>1, LocusAssumption, QueryTyped DEF SoundRows
      <3>2. TimeOf[rows[i].rec] <= TimeOf[rows[n].rec]
        <4>1. CASE i = n
          BY <3>1, <4>1
        <4>2. CASE i # n
          <5>1. i < n
            BY <1>3, <4>2
          <5>2. Before(q.key, rows[i].rec, rows[n].rec)
            BY <1>7, <2>1, <5>1
          <5> QED
            BY <5>2, BeforeTime, QueryTyped
        <4> QED
          BY <4>1, <4>2
      <3> QED
        BY <2>1, <3>1, <3>2 DEF InRange
    <2>3. \A x \in E : ~InRange(q, x)
      BY <2>2
    <2>4. Met(q, s, D \cup E)
      BY <2>3, MetSkips
    <2> QED
      BY <1>2, <1>5, <1>10, <2>4
  <1>11. CASE ~(s.ended \/ (s.check /\ BeforeQuery(q, rows)))
    <2>1. t \in Results(q) /\ t.rows = s.rows /\ t.count = s.count /\ t.ended = s.ended
      BY DEF Results
    <2> HIDE DEF t
    <2>2. Met(q, t, D)
      <3>1. PICK w \in Seq(Records) : Counted(q, s, D, w)
        BY DEF Met
      <3>2. Counted(q, t, D, w)
        BY <2>1, <3>1 DEF Counted
      <3>3. EndSeen(q, t, D)
        BY <2>1 DEF Met, EndSeen
      <3> QED
        BY <3>2, <3>3 DEF Met
    <2>3. Met(q, parse_file_gpsdata(q, t, rows), D \cup {rows[i].rec : i \in 1 .. Len(rows)})
      BY <1>1, <1>6, <1>7, <2>1, <2>2, MetReadRows
    <2> QED
      BY <1>1, <1>2, <1>5, <1>11, <2>3
  <1> QED
    BY <1>9, <1>10, <1>11

(* the records of the first m entries of a file that the query reads *)
FileRecs(q, f, m) ==
  {r \in Records : \E j \in 1 .. m : Owns(q, index[f][j]) /\ r \in SegmentRecs(f, index[f][j])}

(* an entry the query reads stands for lines of its device *)
LEMMA EntryLines ==
  ASSUME TypeOK, SegmentsWhole, NEW q \in Queries, NEW f \in Files, NEW j \in DOMAIN index[f],
         Owns(q, index[f][j]),
         NEW i \in index[f][j].offset + 1 .. index[f][j].offset + index[f][j].length
  PROVE  i \in DOMAIN locus[f] /\ LineOf(q.key, f, i) /\ LineRec(f, i) \in Records
  <1> DEFINE e == index[f][j]
  <1>1. locus[f] \in Seq(Lines) /\ index[f] \in Seq(Entries)
    BY DEF TypeOK
  <1>2. e \in Entries /\ GoodSegment(f, e) /\ Owns(q, e)
        /\ i \in e.offset + 1 .. e.offset + e.length
    BY <1>1 DEF SegmentsWhole
  <1> HIDE DEF e
  <1>3. e.offset \in Nat /\ e.length \in Nat /\ e.offset + e.length <= Len(locus[f])
        /\ GoodLine(f, e, i)
    BY <1>2 DEF GoodSegment, Entries
  <1>4. i \in DOMAIN locus[f] /\ locus[f][i] \in Lines
    BY <1>1, <1>2, <1>3
  <1>5. KeyOf[locus[f][i].rec] = q.key
    BY <1>2, <1>3 DEF GoodLine, Owns
  <1> QED
    BY <1>4, <1>5 DEF LineOf, LineRec, Lines

LEMMA MetFile ==
  ASSUME TypeOK, SegmentsWhole, NEW q \in Queries, Orderly(q.key), NEW s \in Results(q),
         NEW f \in Files, NEW D, D \subseteq Records, Met(q, s, D),
         \A x \in D : \A i \in DOMAIN locus[f] :
           LineOf(q.key, f, i) => Before(q.key, x, LineRec(f, i)),
         \A i, j \in DOMAIN locus[f] :
           LineOf(q.key, f, i) /\ LineOf(q.key, f, j) /\ i < j
             => Before(q.key, LineRec(f, i), LineRec(f, j))
  PROVE  Met(q, ReadFile(q, s, f), D \cup FileRecs(q, f, Len(index[f])))
  <1> DEFINE n == Len(index[f])
             Seen(m) == D \cup FileRecs(q, f, m)
  <1>1. /\ n \in Nat /\ DOMAIN index[f] = 1 .. n
        /\ \A i \in 1 .. n : /\ index[f][i] \in Entries /\ GoodSegment(f, index[f][i])
                             /\ index[f][i].length > 0
        /\ \A i \in 1 .. n : \A j \in 1 .. i - 1 :
             index[f][j].offset + index[f][j].length <= index[f][i].offset
    <2>1. index[f] \in Seq(Entries)
      BY DEF TypeOK
    <2> QED
      BY <2>1 DEF SegmentsWhole
  <1>2. PICK p \in [0 .. n -> Results(q)] :
          /\ p[0] = s /\ p[n] = ReadFile(q, s, f)
          /\ \A i \in 1 .. n :
               p[i] = IF Owns(q, index[f][i]) THEN ReadSegment(q, p[i - 1], f, index[f][i])
                      ELSE p[i - 1]
    BY ReadFileTurns
  <1>3. ASSUME NEW j \in 1 .. n, Owns(q, index[f][j]),
               NEW i \in index[f][j].offset + 1 .. index[f][j].offset + index[f][j].length
        PROVE  i \in DOMAIN locus[f] /\ LineOf(q.key, f, i) /\ LineRec(f, i) \in Records
    BY <1>1, <1>3, EntryLines
  <1> HIDE DEF n
  <1> DEFINE X == {m \in 0 .. n : Met(q, p[m], Seen(m))}
  <1>4. 0 \in X
    <2>1. Seen(0) = D
      BY DEF FileRecs
    <2> HIDE DEF Seen
    <2> QED
      BY <1>1, <1>2, <2>1
  <1>5. ASSUME NEW m \in 1 .. n, m - 1 \in X PROVE m \in X
    <2> DEFINE e == index[f][m]
    <2>1. m - 1 \in 0 .. n /\ m \in 0 .. n /\ 1 .. m = (1 .. m - 1) \cup {m}
          /\ \A j \in 1 .. m - 1 : j \in 1 .. n
      BY <1>1
    <2>2. /\ p[m - 1] \in Results(q) /\ e \in Entries /\ GoodSegment(f, e) /\ e.length > 0
          /\ p[m] = IF Owns(q, e) THEN ReadSegment(q, p[m - 1], f, e) ELSE p[m - 1]
      BY <1>1, <1>2, <2>1
    <2>3. Met(q, p[m - 1], Seen(m - 1))
      BY <1>5
    <2>4. CASE ~Owns(q, e)
      <3>1. FileRecs(q, f, m) = FileRecs(q, f, m - 1)
        BY <2>1, <2>4 DEF FileRecs
      <3> QED
        BY <2>1, <2>2, <2>3, <2>4, <3>1
    <2>5. CASE Owns(q, e)
      <3>1. FileRecs(q, f, m) = FileRecs(q, f, m - 1) \cup SegmentRecs(f, e)
        <4>1. SegmentRecs(f, e) \subseteq Records
          BY <1>3, <2>5 DEF SegmentRecs
        <4> QED
          BY <2>1, <2>5, <4>1 DEF FileRecs
      <3>2. Seen(m) = Seen(m - 1) \cup SegmentRecs(f, e)
        BY <3>1
      <3>3. Seen(m - 1) \subseteq Records
        BY DEF FileRecs
      <3>4. ASSUME NEW x \in Seen(m - 1), NEW i \in e.offset + 1 .. e.offset + e.length
            PROVE  Before(q.key, x, LineRec(f, i))
        <4>1. i \in DOMAIN locus[f] /\ LineOf(q.key, f, i)
          BY <1>3, <2>5
        <4>2. CASE x \in D
          BY <4>1, <4>2
        <4>3. CASE x \in FileRecs(q, f, m - 1)
          <5>1. PICK j \in 1 .. m - 1 : Owns(q, index[f][j]) /\ x \in SegmentRecs(f, index[f][j])
            BY <4>3 DEF FileRecs
          <5>2. PICK l \in index[f][j].offset + 1 .. index[f][j].offset + index[f][j].length :
                  x = LineRec(f, l)
            BY <5>1 DEF SegmentRecs
          <5>3. j \in 1 .. n /\ index[f][j].offset + index[f][j].length <= e.offset
            BY <1>1, <2>1
          <5>4. l \in DOMAIN locus[f] /\ LineOf(q.key, f, l)
            BY <1>3, <5>1, <5>2, <5>3
          <5>5. l < i
            <6>1. index[f][j].offset \in Nat /\ index[f][j].length \in Nat
                  /\ e.offset \in Nat /\ e.length \in Nat
              BY <1>1, <2>2, <5>3 DEF Entries
            <6> DEFINE c == index[f][j]
            <6>2. c.offset \in Nat /\ c.length \in Nat /\ l \in c.offset + 1 .. c.offset + c.length
                  /\ c.offset + c.length <= e.offset /\ e.offset \in Nat /\ e.length \in Nat
                  /\ i \in e.offset + 1 .. e.offset + e.length
              BY <5>2, <5>3, <6>1
            <6> HIDE DEF c, e
            <6> QED
              BY <6>2
          <5> QED
            BY <4>1, <5>2, <5>4, <5>5
        <4> QED
          BY <4>2, <4>3
      <3>5. ASSUME NEW i \in e.offset + 1 .. e.offset + e.length,
                   NEW j \in e.offset + 1 .. e.offset + e.length, i < j
            PROVE  Before(q.key, LineRec(f, i), LineRec(f, j))
        BY <1>3, <2>5, <3>5
      <3> HIDE DEF e, Seen
      <3>6. Met(q, ReadSegment(q, p[m - 1], f, e), Seen(m - 1) \cup SegmentRecs(f, e))
        BY <2>2, <2>3, <2>5, <3>3, <3>4, <3>5, MetSegment
      <3> QED
        BY <2>1, <2>2, <2>5, <3>2, <3>6
    <2> QED
      BY <2>4, <2>5
  <1> HIDE DEF X
  <1>6. \A m \in 0 .. n : m \in X
    BY <1>1, <1>4, <1>5, TurnInduction
  <1>7. Met(q, p[n], Seen(n))
    BY <1>1, <1>6 DEF X
  <1> QED
    BY <1>2, <1>7 DEF n

-----------------------------------------------------------------------------
(* What the query has read.                                                 *)

(* x is in a line of an hour of the query that it has left behind *)
ReadFrom(q, h, x) ==
  \E f \in Files : \E i \in DOMAIN locus[f] :
    LineOf(q.key, f, i) /\ LineRec(f, i) = x /\ f[1] < h /\ HourOf(q.begin) <= f[1]

(* r is in a segment of an hour the query has yet to read *)
ToRead(h, r) ==
  \E f \in Files : \E i \in DOMAIN locus[f] : LineRec(f, i) = r /\ Covered(f, i) /\ f[1] >= h

(* between two hours *)
FilesMet(q, s, h, D) ==
  /\ Met(q, s, D)
  /\ HourOf(q.begin) <= h
  /\ \A x \in D : ReadFrom(q, h, x)
  /\ \A r \in owed : KeyOf[r] = q.key => r \in D \/ ToRead(h, r)

(* before the vector of map b is scanned *)
VectorMet(q, s, b, D) ==
  /\ Met(q, s, D)
  /\ \A i, j \in DOMAIN mem[b][q.key] : i < j => Before(q.key, mem[b][q.key][i], mem[b][q.key][j])
  /\ \A x \in D : \A y \in Held(mem[b][q.key]) : Before(q.key, x, y)
  /\ \A r \in owed : KeyOf[r] = q.key /\ InRange(q, r) => r \in D
  /\ \A x \in D : \E h \in Nat : ReadFrom(q, h, x)

RowsOrdered(q, s) ==
  \A i, j \in DOMAIN s.rows : i < j => Before(q.key, s.rows[i].rec, s.rows[j].rec)

PageMet(q, s) ==
  q.cur_page = 1 /\ s.count < q.page_size =>
    \A r \in owed : KeyOf[r] = q.key /\ InRange(q, r) => \E i \in DOMAIN s.rows : s.rows[i].rec = r

CollectInv ==
  Answering /\ Orderly(query.key) =>
    /\ RowsOrdered(query, result)
    /\ qpc = "files" => hour \in Nat /\ \E D \in SUBSET Records : FilesMet(query, result, hour, D)
    /\ qpc = "scan" => \E D \in SUBSET Records : VectorMet(query, result, found, D)
    /\ qpc = "done" => PageMet(query, result)

(* no step takes anything out of the files or changes who sent what first *)
LEMMA BeforeKept ==
  ASSUME ArrivedOnce, [Next]_vars, NEW k \in Keys, NEW r, NEW s, Before(k, r, s)
  PROVE  Before(k, r, s)'
  <1>1. CASE arrived' = arrived
    BY <1>1 DEF Before
  <1>2. ASSUME NEW t \in Records, Store(t) PROVE Before(k, r, s)'
    <2>1. CASE k = KeyOf[t]
      BY <1>2, <2>1, StoreArrived, SentLast
    <2>2. CASE k # KeyOf[t]
      BY <1>2, <2>2, StoreArrived DEF Before
    <2> QED
      BY <2>1, <2>2
  <1> QED
    BY <1>1, <1>2, ArrivedStep

LEMMA FilesGrow ==
  ASSUME TypeOK, [Next]_vars, NEW f \in Files, NEW i \in DOMAIN locus[f]
  PROVE  /\ i \in DOMAIN locus'[f] /\ locus'[f][i] = locus[f][i]
         /\ Covered(f, i) => Covered(f, i)'
  <1>1. \/ locus' = locus
        \/ \E l : locus' = [locus EXCEPT ![fdLocus] = Append(@, l)]
    BY DEF Next, ChildStep, QueryStep, Store, BeginPass, NextKey, OpenSegment, OpenFails, WriteBase,
       WriteDelta, WriteLine, PressRecord, FinishKey, EndPass, StartQuery, ReadHour, FindVector,
       ScanVector, Kill, files, vars
  <1>2. index' = index \/ index' = EntryWritten
    BY DEF Next, ChildStep, QueryStep, Store, BeginPass, NextKey, OpenSegment, OpenFails, WriteBase,
       WriteDelta, WriteLine, PressRecord, FinishKey, EndPass, StartQuery, ReadHour, FindVector,
       ScanVector, Kill, files, vars
  <1>3. /\ locus \in [Files -> Seq(Lines)] /\ locus[f] \in Seq(Lines)
        /\ index \in [Files -> Seq(Entries)] /\ index[f] \in Seq(Entries)
    BY DEF TypeOK
  <1>4. i \in DOMAIN locus'[f] /\ locus'[f][i] = locus[f][i]
    <2>1. CASE locus' = locus
      BY <2>1
    <2>2. ASSUME NEW l, locus' = [locus EXCEPT ![fdLocus] = Append(@, l)]
          PROVE  i \in DOMAIN locus'[f] /\ locus'[f][i] = locus[f][i]
      <3>1. locus'[f] = locus[f] \/ locus'[f] = Append(locus[f], l)
        BY <1>3, <2>2
      <3>2. DOMAIN locus[f] = 1 .. Len(locus[f]) /\ Len(locus[f]) \in Nat
            /\ i \in DOMAIN Append(locus[f], l) /\ Append(locus[f], l)[i] = locus[f][i]
        BY <1>3
      <3> QED
        BY <3>1, <3>2
    <2> QED
      BY <1>1, <2>1, <2>2
  <1>5. ASSUME Covered(f, i) PROVE Covered(f, i)'
    <2>1. PICK j \in DOMAIN index[f] :
            i \in index[f][j].offset + 1 .. index[f][j].offset + index[f][j].length
      BY <1>5 DEF Covered
    <2>2. index'[f] = index[f] \/ index'[f] = Append(index[f], stLocusIndex)
      BY <1>2, <1>3 DEF EntryWritten
    <2>3. j \in DOMAIN Append(index[f], stLocusIndex)
          /\ Append(index[f], stLocusIndex)[j] = index[f][j]
      BY <1>3
    <2>4. j \in DOMAIN index'[f] /\ index'[f][j] = index[f][j]
      BY <2>2, <2>3
    <2> QED
      BY <2>1, <2>4 DEF Covered
  <1> QED
    BY <1>4, <1>5

LEMMA MetKept ==
  ASSUME ArrivedOnce, [Next]_vars, NEW q \in Queries, NEW s, NEW D, Met(q, s, D)
  PROVE  Met(q, s, D)'
  <1>1. \A r, t : Before(q.key, r, t) => Before(q.key, r, t)'
    BY BeforeKept, QueryTyped
  <1>2. PICK t \in Seq(Records) : Counted(q, s, D, t)
    BY DEF Met
  <1>3. Counted(q, s, D, t)'
    BY <1>1, <1>2 DEF Counted, InRange, page_min_size, page_max_size
  <1>4. EndSeen(q, s, D)'
    BY DEF Met, EndSeen, page_max_size
  <1> QED
    BY <1>3, <1>4 DEF Met

LEMMA ReadFromKept ==
  ASSUME TypeOK, [Next]_vars, NEW q \in Queries, NEW h, NEW x, ReadFrom(q, h, x)
  PROVE  ReadFrom(q, h, x)'
  <1>1. PICK f \in Files : \E i \in DOMAIN locus[f] :
          LineOf(q.key, f, i) /\ LineRec(f, i) = x /\ f[1] < h /\ HourOf(q.begin) <= f[1]
    BY DEF ReadFrom
  <1>2. PICK i \in DOMAIN locus[f] :
          LineOf(q.key, f, i) /\ LineRec(f, i) = x /\ f[1] < h /\ HourOf(q.begin) <= f[1]
    BY <1>1
  <1>3. i \in DOMAIN locus'[f] /\ locus'[f][i] = locus[f][i]
    BY FilesGrow
  <1>4. HourOf(q.begin)' = HourOf(q.begin)
    BY DEF HourOf
  <1> QED
    BY <1>2, <1>3, <1>4 DEF ReadFrom, LineOf, LineRec

LEMMA ToReadKept ==
  ASSUME TypeOK, [Next]_vars, NEW h, NEW r, ToRead(h, r)
  PROVE  ToRead(h, r)'
  <1>1. PICK f \in Files : \E i \in DOMAIN locus[f] : LineRec(f, i) = r /\ Covered(f, i) /\ f[1] >= h
    BY DEF ToRead
  <1>2. PICK i \in DOMAIN locus[f] : LineRec(f, i) = r /\ Covered(f, i) /\ f[1] >= h
    BY <1>1
  <1>3. i \in DOMAIN locus'[f] /\ locus'[f][i] = locus[f][i] /\ Covered(f, i)'
    BY <1>2, FilesGrow
  <1> QED
    BY <1>2, <1>3 DEF ToRead, LineRec

LEMMA RowsKept ==
  ASSUME ArrivedOnce, [Next]_vars, NEW q \in Queries, NEW s, RowsOrdered(q, s)
  PROVE  RowsOrdered(q, s)'
  BY BeforeKept, QueryTyped DEF RowsOrdered

LEMMA FilesMetKept ==
  ASSUME TypeOK, ArrivedOnce, [Next]_vars, owed' = owed, NEW q \in Queries, NEW s, NEW h, NEW D,
         FilesMet(q, s, h, D)
  PROVE  FilesMet(q, s, h, D)'
  <1>1. Met(q, s, D)'
    BY MetKept DEF FilesMet
  <1>2. \A x \in D : ReadFrom(q, h, x)'
    BY ReadFromKept DEF FilesMet
  <1>3. \A r \in owed : KeyOf[r] = q.key => r \in D \/ ToRead(h, r)'
    BY ToReadKept DEF FilesMet
  <1>4. HourOf(q.begin)' = HourOf(q.begin)
    BY DEF HourOf
  <1> QED
    BY <1>1, <1>2, <1>3, <1>4 DEF FilesMet

LEMMA VectorMetKept ==
  ASSUME TypeOK, ArrivedOnce, [Next]_vars, owed' = owed, NEW q \in Queries, NEW s, NEW b, NEW D,
         mem'[b][q.key] = mem[b][q.key], VectorMet(q, s, b, D)
  PROVE  VectorMet(q, s, b, D)'
  <1>1. Met(q, s, D)'
    BY MetKept DEF VectorMet
  <1>2. \A r, t : Before(q.key, r, t) => Before(q.key, r, t)'
    BY BeforeKept, QueryTyped
  <1>3. \A x \in D : \E h \in Nat : ReadFrom(q, h, x)'
    BY ReadFromKept DEF VectorMet
  <1> QED
    BY <1>1, <1>2, <1>3 DEF VectorMet, Held, InRange

(* a step that is not one of the query *)
LEMMA OthersCollect ==
  ASSUME LocusInv, AnswerInv, ArrivedOnce, CollectInv, [Next]_vars,
         UNCHANGED <<query, result, hour, found, owed>>, qpc' = qpc \/ ~Answering',
         qpc' = "scan" => mem'[found][query.key] = mem[found][query.key]
  PROVE  CollectInv'
  <1> SUFFICES ASSUME Answering', Orderly(query.key)'
               PROVE  /\ RowsOrdered(query, result)'
                      /\ qpc' = "files" => hour' \in Nat /\ \E D \in SUBSET Records : FilesMet(query, result, hour, D)'
                      /\ qpc' = "scan" => \E D \in SUBSET Records : VectorMet(query, result, found, D)'
                      /\ qpc' = "done" => PageMet(query, result)'
    BY DEF CollectInv
  <1>1. qpc' = qpc /\ Answering /\ query \in Queries /\ TypeOK
    BY DEF Answering, AnswerInv, LocusInv
  <1>2. PICK q \in Queries : q = query
    BY <1>1
  <1>3. PICK s, h, b : s = result /\ h = hour /\ b = found
    OBVIOUS
  <1>4. q.key \in Keys /\ Orderly(q.key)'
    BY <1>2, QueryTyped
  <1>5. Orderly(query.key)
    BY <1>2, <1>4, OrderlyBefore
  <1>6. RowsOrdered(query, result)'
    <2>1. RowsOrdered(q, s)
      BY <1>1, <1>2, <1>3, <1>5 DEF CollectInv
    <2>2. RowsOrdered(q, s)'
      BY <2>1, RowsKept
    <2> QED
      BY <1>2, <1>3, <2>2
  <1>7. ASSUME qpc' = "files"
        PROVE  hour' \in Nat /\ \E D \in SUBSET Records : FilesMet(query, result, hour, D)'
    <2>1. hour \in Nat /\ \E D \in SUBSET Records : FilesMet(query, result, hour, D)
      BY <1>1, <1>5, <1>7 DEF CollectInv
    <2>2. PICK D \in SUBSET Records : FilesMet(q, s, h, D)
      BY <1>2, <1>3, <2>1
    <2>3. FilesMet(q, s, h, D)'
      BY <1>1, <2>2, FilesMetKept
    <2>4. FilesMet(query, result, hour, D)'
      BY <1>2, <1>3, <2>3
    <2> QED
      BY <2>1, <2>4
  <1>8. ASSUME qpc' = "scan" PROVE \E D \in SUBSET Records : VectorMet(query, result, found, D)'
    <2>1. \E D \in SUBSET Records : VectorMet(query, result, found, D)
      BY <1>1, <1>5, <1>8 DEF CollectInv
    <2>2. PICK D \in SUBSET Records : VectorMet(q, s, b, D)
      BY <1>2, <1>3, <2>1
    <2>3. mem'[b][q.key] = mem[b][q.key]
      BY <1>2, <1>3, <1>8
    <2>4. VectorMet(q, s, b, D)'
      BY <1>1, <2>2, <2>3, VectorMetKept
    <2>5. VectorMet(query, result, found, D)'
      BY <1>2, <1>3, <2>4
    <2> QED
      BY <2>5
  <1>9. ASSUME qpc' = "done" PROVE PageMet(query, result)'
    <2>1. PageMet(query, result)
      BY <1>1, <1>5, <1>9 DEF CollectInv
    <2> QED
      BY <2>1 DEF PageMet, InRange
  <1> QED
    BY <1>6, <1>7, <1>8, <1>9

LEMMA StartCollects ==
  ASSUME LocusInv, NEW q \in Queries, StartQuery(q), NEW D, D = {}, NEW s, s = NoResult
  PROVE  FilesMet(q, s, HourOf(q.begin), D)'
  <1>1. /\ owed' = UNION {Indexed(f) : f \in {g \in Files : HourOf(q.begin) <= g[1]}}
        /\ UNCHANGED <<locus, index, arrived>>
    BY DEF StartQuery, files, history
  <1>2. Met(q, s, D)'
    <2>1. s.rows = <<>> /\ s.ended = FALSE /\ s.count = 0
      BY DEF NoResult
    <2>2. DOMAIN s.rows = {} /\ Len(s.rows) = 0
      BY <2>1
    <2>3. PICK t \in Seq(Records) : t = <<>> /\ DOMAIN t = {} /\ Len(t) = 0
      <3>1. <<>> \in Seq(Records) /\ DOMAIN <<>> = {} /\ Len(<<>>) = 0
        OBVIOUS
      <3> QED
        BY <3>1
    <2>4. Counted(q, s, D, t)
      BY <2>1, <2>2, <2>3, PageBounds DEF Counted
    <2>5. EndSeen(q, s, D)
      BY <2>1, PageBounds DEF EndSeen
    <2> QED
      BY <1>1, <2>4, <2>5 DEF Met, Counted, EndSeen, InRange, Before, page_min_size, page_max_size
  <1>3. ASSUME NEW r \in owed' PROVE ToRead(HourOf(q.begin), r)'
    <2>1. PICK f \in Files : HourOf(q.begin) <= f[1] /\ r \in Indexed(f)
      BY <1>1, <1>3
    <2>2. PICK e \in Held(index[f]) :
            r \in {locus[f][i].rec : i \in e.offset + 1 .. e.offset + e.length}
      BY <2>1 DEF Indexed
    <2>3. PICK j \in DOMAIN index[f] : e = index[f][j]
      BY <2>2 DEF Held
    <2>4. PICK i \in e.offset + 1 .. e.offset + e.length : r = LineRec(f, i)
      BY <2>2 DEF LineRec
    <2>5. i \in DOMAIN locus[f]
      <3>1. locus[f] \in Seq(Lines) /\ index[f] \in Seq(Entries)
        BY DEF LocusInv, TypeOK
      <3>2. e.offset + e.length <= Len(locus[f]) /\ e.offset \in Nat /\ e.length \in Nat
        <4>1. GoodSegment(f, index[f][j]) /\ index[f][j] \in Entries
          BY <2>3, <3>1 DEF LocusInv, SegmentsWhole
        <4>2. GoodSegment(f, e) /\ e \in Entries
          BY <2>3, <4>1
        <4> QED
          BY <4>2 DEF GoodSegment, Entries
      <3>3. i \in 1 .. Len(locus[f])
        <4>1. Len(locus[f]) \in Nat
          BY <3>1
        <4> QED
          BY <3>2, <4>1
      <3> QED
        BY <3>1, <3>3
    <2>6. Covered(f, i)
      BY <2>3 DEF Covered
    <2>7. HourOf(q.begin) \in Int /\ f[1] \in Int
      <3>1. q.begin \in Nat /\ q.begin <= q.begin
        BY QueryTyped
      <3> QED
        BY <3>1, HourInOrder, FileHour
    <2>8. f[1] >= HourOf(q.begin)
      BY <2>1, <2>7
    <2>9. ToRead(HourOf(q.begin), r)
      BY <2>4, <2>5, <2>6, <2>8 DEF ToRead
    <2> QED
      BY <1>1, <2>9 DEF ToRead, LineRec, Covered, HourOf
  <1>4. (HourOf(q.begin) <= HourOf(q.begin))'
    <2>1. HourOf(q.begin) \in Nat /\ HourOf(q.begin)' = HourOf(q.begin)
      BY QueryTyped, HourInOrder DEF HourOf
    <2> QED
      BY <2>1
  <1> QED
    BY <1>2, <1>3, <1>4 DEF FilesMet

LEMMA HourCollects ==
  ASSUME LocusInv, NEW q \in Queries, Orderly(q.key), LinesPlaced(q.key), NEW s \in Results(q),
         NEW h \in Nat, NEW D \in SUBSET Records, FilesMet(q, s, h, D),
         NEW f, f = <<h, BucketOf[q.key]>>
  PROVE  \E E \in SUBSET Records : FilesMet(q, ReadFile(q, s, f), h + 1, E)
  <1>1. TypeOK /\ SegmentsWhole
    BY DEF LocusInv
  <1>2. f[1] = h /\ HourOf(q.begin) <= h + 1
    <2>1. HourOf(q.begin) \in Nat /\ HourOf(q.begin) <= h
      BY QueryTyped, HourInOrder DEF FilesMet
    <2> QED
      BY <2>1
  <1>3. ASSUME NEW x, ReadFrom(q, h, x) PROVE ReadFrom(q, h + 1, x)
    <2>1. \A g \in Files : g[1] < h => g[1] < h + 1
      BY FileHour
    <2> QED
      BY <1>3, <2>1 DEF ReadFrom
  <1>4. ASSUME NEW r, KeyOf[r] = q.key, ToRead(h, r)
        PROVE  \/ ToRead(h + 1, r)
               \/ f \in Files /\ \E i \in DOMAIN locus[f] : LineRec(f, i) = r /\ Covered(f, i)
    <2>1. PICK g \in Files : \E i \in DOMAIN locus[g] : LineRec(g, i) = r /\ Covered(g, i) /\ g[1] >= h
      BY <1>4 DEF ToRead
    <2>2. PICK i \in DOMAIN locus[g] : LineRec(g, i) = r /\ Covered(g, i) /\ g[1] >= h
      BY <2>1
    <2>3. CASE g[1] # h
      <3>1. g[1] >= h + 1
        BY <2>2, <2>3, FileHour
      <3> QED
        BY <2>2, <3>1 DEF ToRead
    <2>4. CASE g[1] = h
      <3>1. LineOf(q.key, g, i)
        BY <1>4, <2>2 DEF LineOf, LineRec
      <3>2. g[2] = BucketOf[q.key]
        BY <3>1 DEF LinesPlaced
      <3>3. g = f
        BY <2>4, <3>2 DEF Files
      <3> QED
        BY <2>2, <3>3
    <2> QED
      BY <2>3, <2>4
  <1>5. CASE f \notin Files
    <2>1. ReadFile(q, s, f) = s
      BY <1>5 DEF ReadFile
    <2>2. FilesMet(q, s, h + 1, D)
      BY <1>2, <1>3, <1>4, <1>5 DEF FilesMet
    <2> QED
      BY <2>1, <2>2
  <1>6. CASE f \in Files
    <2> DEFINE n == Len(index[f])
               E == D \cup FileRecs(q, f, n)
    <2>1. DOMAIN index[f] = 1 .. n
      BY <1>1, <1>6 DEF TypeOK
    <2> HIDE DEF n
    <2>2. ASSUME NEW x \in D, NEW i \in DOMAIN locus[f], LineOf(q.key, f, i)
          PROVE  Before(q.key, x, LineRec(f, i))
      <3>1. ReadFrom(q, h, x)
        BY DEF FilesMet
      <3>2. PICK g \in Files : \E j \in DOMAIN locus[g] :
              LineOf(q.key, g, j) /\ LineRec(g, j) = x /\ g[1] < h
        BY <3>1 DEF ReadFrom
      <3>3. PICK j \in DOMAIN locus[g] : LineOf(q.key, g, j) /\ LineRec(g, j) = x /\ g[1] < h
        BY <3>2
      <3>4. Earlier(g, j, f, i)
        BY <1>2, <3>3 DEF Earlier
      <3> QED
        BY <1>6, <2>2, <3>3, <3>4 DEF LinesPlaced
    <2>3. ASSUME NEW i \in DOMAIN locus[f], NEW j \in DOMAIN locus[f],
                 LineOf(q.key, f, i), LineOf(q.key, f, j), i < j
          PROVE  Before(q.key, LineRec(f, i), LineRec(f, j))
      BY <1>6, <2>3 DEF LinesPlaced, Earlier
    <2>4. Met(q, ReadFile(q, s, f), E)
      <3>1. Met(q, s, D)
        BY DEF FilesMet
      <3> QED
        BY <1>1, <1>6, <2>2, <2>3, <3>1, MetFile DEF n
    <2>5. ASSUME NEW x \in FileRecs(q, f, n) PROVE ReadFrom(q, h + 1, x)
      <3>1. PICK j \in 1 .. n : Owns(q, index[f][j]) /\ x \in SegmentRecs(f, index[f][j])
        BY DEF FileRecs
      <3>2. PICK i \in index[f][j].offset + 1 .. index[f][j].offset + index[f][j].length :
              x = LineRec(f, i)
        BY <3>1 DEF SegmentRecs
      <3>3. i \in DOMAIN locus[f] /\ LineOf(q.key, f, i)
        BY <1>1, <1>6, <2>1, <3>1, <3>2, EntryLines
      <3>4. f[1] < h + 1 /\ HourOf(q.begin) <= f[1]
        BY <1>2 DEF FilesMet
      <3> QED
        BY <1>6, <3>2, <3>3, <3>4 DEF ReadFrom
    <2>6. ASSUME NEW i \in DOMAIN locus[f], Covered(f, i), KeyOf[LineRec(f, i)] = q.key
          PROVE  LineRec(f, i) \in FileRecs(q, f, n)
      <3>1. PICK j \in 1 .. n :
              i \in index[f][j].offset + 1 .. index[f][j].offset + index[f][j].length
        BY <2>1, <2>6 DEF Covered
      <3>2. GoodLine(f, index[f][j], i)
        BY <1>1, <1>6, <2>1, <3>1 DEF SegmentsWhole, GoodSegment
      <3>3. Owns(q, index[f][j])
        BY <2>6, <3>2 DEF GoodLine, Owns, LineRec
      <3>4. LineRec(f, i) \in Records
        BY <1>1, <1>6, <2>1, <3>1, <3>3, EntryLines
      <3>5. LineRec(f, i) \in SegmentRecs(f, index[f][j])
        BY <3>1 DEF SegmentRecs
      <3> QED
        BY <3>3, <3>4, <3>5 DEF FileRecs
    <2>7. E \in SUBSET Records
      BY DEF FileRecs
    <2>8. \A x \in E : ReadFrom(q, h + 1, x)
      BY <1>3, <2>5 DEF FilesMet
    <2>9. ASSUME NEW r \in owed, KeyOf[r] = q.key PROVE r \in E \/ ToRead(h + 1, r)
      <3>1. r \in D \/ ToRead(h, r)
        BY <2>9 DEF FilesMet
      <3> QED
        BY <1>4, <2>6, <2>9, <3>1
    <2> HIDE DEF E
    <2>10. FilesMet(q, ReadFile(q, s, f), h + 1, E)
      BY <1>2, <2>4, <2>8, <2>9 DEF FilesMet
    <2> QED
      BY <2>7, <2>10
  <1> QED
    BY <1>5, <1>6

(* nothing in range is left in the files behind the row that ended the     *)
(* query, and nothing in the hours behind its last one                     *)
LEMMA OwedMet ==
  ASSUME LocusInv, ArrivedOnce, NEW q \in Queries, Orderly(q.key), LinesPlaced(q.key),
         NEW s \in Results(q), NEW h \in Nat, NEW D \in SUBSET Records, FilesMet(q, s, h, D),
         NEW r \in owed, KeyOf[r] = q.key, InRange(q, r),
         \/ s.ended /\ q.cur_page = 1 /\ s.count < q.page_size
         \/ h > HourOf(q.end)
  PROVE  r \in D
  <1> SUFFICES ASSUME ToRead(h, r) PROVE FALSE
    BY DEF FilesMet
  <1>1. PICK g \in Files : \E i \in DOMAIN locus[g] : LineRec(g, i) = r /\ Covered(g, i) /\ g[1] >= h
    BY DEF ToRead
  <1>2. PICK i \in DOMAIN locus[g] : LineRec(g, i) = r /\ Covered(g, i) /\ g[1] >= h
    BY <1>1
  <1>3. LineOf(q.key, g, i)
    BY <1>2 DEF LineOf, LineRec
  <1>4. locus[g] \in Seq(Lines)
    BY DEF LocusInv, TypeOK
  <1>5. locus[g][i] \in Lines
    BY <1>4
  <1>6. r \in Records
    BY <1>2, <1>5 DEF LineRec, Lines
  <1>7. TimeOf[r] \in Nat /\ q.end \in Nat /\ q.key \in Keys
    BY <1>6, LocusAssumption, QueryTyped
  <1>8. TimeOf[r] <= q.end
    BY DEF InRange
  <1>9. CASE s.ended /\ q.cur_page = 1 /\ s.count < q.page_size
    <2>1. PICK x \in D : TimeOf[x] > q.end
      BY <1>9, MetSays DEF FilesMet
    <2>2. ReadFrom(q, h, x)
      BY DEF FilesMet
    <2>3. PICK f \in Files : \E j \in DOMAIN locus[f] :
            LineOf(q.key, f, j) /\ LineRec(f, j) = x /\ f[1] < h
      BY <2>2 DEF ReadFrom
    <2>4. PICK j \in DOMAIN locus[f] : LineOf(q.key, f, j) /\ LineRec(f, j) = x /\ f[1] < h
      BY <2>3
    <2>5. Earlier(f, j, g, i)
      <3>1. f[1] < g[1]
        BY <1>2, <2>4, FileHour
      <3> QED
        BY <3>1 DEF Earlier
    <2>6. Before(q.key, x, r)
      BY <1>2, <1>3, <2>4, <2>5 DEF LinesPlaced
    <2>7. TimeOf[x] <= TimeOf[r]
      BY <1>7, <2>6, BeforeTime
    <2>8. TimeOf[x] \in Nat
      BY LocusAssumption
    <2> QED
      BY <1>7, <1>8, <2>1, <2>7, <2>8
  <1>10. CASE h > HourOf(q.end)
    <2>1. g[1] <= HourOf(TimeOf[r])
      BY <1>2, <1>3 DEF LinesPlaced
    <2>2. HourOf(TimeOf[r]) <= HourOf(q.end) /\ HourOf(TimeOf[r]) \in Nat /\ HourOf(q.end) \in Nat
      BY <1>7, <1>8, HourInOrder
    <2>3. g[1] \in Nat
      BY FileHour
    <2> QED
      BY <1>2, <1>10, <2>1, <2>2, <2>3
  <1> QED
    BY <1>9, <1>10

LEMMA MetRows ==
  ASSUME NEW q \in Queries, NEW s \in Results(q), NEW D, Met(q, s, D)
  PROVE  RowsOrdered(q, s)
  BY MetSays DEF RowsOrdered

LEMMA StartInv ==
  ASSUME LocusInv, NEW q \in Queries, StartQuery(q)
  PROVE  CollectInv'
  <1>1. query' = q /\ hour' = HourOf(q.begin) /\ result' = NoResult /\ qpc' = "files"
    BY DEF StartQuery
  <1>2. PICK D \in SUBSET Records : D = {}
    OBVIOUS
  <1>3. PICK s, h : s = NoResult /\ h = HourOf(q.begin)
    OBVIOUS
  <1>4. FilesMet(q, s, HourOf(q.begin), D)'
    BY <1>2, <1>3, StartCollects
  <1>5. HourOf(q.begin) \in Nat
    BY QueryTyped, HourInOrder
  <1>6. FilesMet(query, result, hour, D)'
    <2>1. HourOf(q.begin)' = HourOf(q.begin)
      BY DEF HourOf
    <2> QED
      BY <1>1, <1>3, <1>4, <2>1
  <1>7. RowsOrdered(query, result)'
    BY <1>1 DEF RowsOrdered, NoResult
  <1> QED
    BY <1>1, <1>5, <1>6, <1>7 DEF CollectInv

LEMMA HourInv ==
  ASSUME LocusInv, AnswerInv, ArrivedOnce, CollectInv, [Next]_vars, ReadHour,
         \A k \in Keys : Orderly(k) => LinesPlaced(k)
  PROVE  CollectInv'
  <1> SUFFICES ASSUME Orderly(query.key)' PROVE CollectInv'
    BY DEF CollectInv
  <1>1. /\ qpc = "files" /\ query' = query /\ hour' = hour + 1 /\ owed' = owed
        /\ qpc' = IF result'.ended THEN "done" ELSE "files"
        /\ result' = ReadFile(query, result, <<hour, BucketOf[query.key]>>)
    BY DEF ReadHour
  <1>2. Answering /\ query \in Queries /\ result \in Results(query) /\ TypeOK
    BY <1>1 DEF Answering, AnswerInv, LocusInv
  <1>3. PICK q \in Queries : q = query
    BY <1>2
  <1>4. PICK s \in Results(q), t \in {result'} : s = result /\ t = result'
    BY <1>2, <1>3
  <1>5. q.key \in Keys /\ Orderly(q.key)'
    BY <1>1, <1>3, QueryTyped
  <1>6. Orderly(q.key) /\ LinesPlaced(q.key)
    BY <1>5, OrderlyBefore
  <1>7. hour \in Nat /\ \E D \in SUBSET Records : FilesMet(query, result, hour, D)
    BY <1>1, <1>2, <1>3, <1>6 DEF CollectInv
  <1>8. PICK h \in Nat, D \in SUBSET Records : h = hour /\ FilesMet(q, s, h, D)
    BY <1>3, <1>4, <1>7
  <1>9. PICK f : f = <<h, BucketOf[q.key]>>
    OBVIOUS
  <1>10. PICK E \in SUBSET Records : FilesMet(q, ReadFile(q, s, f), h + 1, E)
    BY <1>6, <1>8, <1>9, HourCollects
  <1>11. FilesMet(q, t, h + 1, E)
    BY <1>1, <1>3, <1>4, <1>8, <1>9, <1>10
  <1>12. FilesMet(q, t, h + 1, E)'
    BY <1>1, <1>2, <1>11, FilesMetKept
  <1>13. FilesMet(query, result, hour, E)'
    BY <1>1, <1>3, <1>4, <1>8, <1>12
  <1>14. t \in Results(q)
    <2>1. AnswerInv' /\ Answering'
      BY <1>1, AnswerInvStep DEF Answering
    <2> QED
      BY <1>1, <1>3, <1>4, <2>1 DEF AnswerInv
  <1>15. RowsOrdered(query, result)'
    <2>1. RowsOrdered(q, t)
      BY <1>11, <1>14, MetRows DEF FilesMet
    <2>2. RowsOrdered(q, t)'
      BY <2>1, RowsKept
    <2> QED
      BY <1>1, <1>3, <1>4, <2>2
  <1>16. ASSUME qpc' = "done" PROVE PageMet(query, result)'
    <2>1. t.ended
      BY <1>1, <1>4, <1>16
    <2>2. PageMet(q, t)
      <3> SUFFICES ASSUME q.cur_page = 1, t.count < q.page_size,
                          NEW r \in owed, KeyOf[r] = q.key, InRange(q, r)
                   PROVE  \E i \in DOMAIN t.rows : t.rows[i].rec = r
        BY DEF PageMet
      <3>1. h + 1 \in Nat
        OBVIOUS
      <3>2. r \in E
        BY <1>6, <1>11, <1>14, <2>1, <3>1, OwedMet
      <3> QED
        BY <1>11, <1>14, <3>2, MetSays DEF FilesMet
    <2>3. PageMet(q, t)'
      BY <1>1, <2>2 DEF PageMet, InRange
    <2> QED
      BY <1>1, <1>3, <1>4, <2>3
  <1>17. hour' \in Nat /\ qpc' # "scan"
    BY <1>1, <1>7
  <1> QED
    BY <1>13, <1>15, <1>16, <1>17 DEF CollectInv

LEMMA FindInv ==
  ASSUME LocusInv, AnswerInv, ArrivedOnce, CollectInv, [Next]_vars, FindVector,
         \A k \in Keys : Orderly(k) => Placed(k) /\ LinesPlaced(k)
  PROVE  CollectInv'
  <1> SUFFICES ASSUME Orderly(query.key)' PROVE CollectInv'
    BY DEF CollectInv
  <1>1. /\ qpc = "files" /\ hour > HourOf(query.end) /\ found' = active
        /\ qpc' \in {"done", "scan"}
        /\ UNCHANGED <<mem, query, result, owed, arrived>>
    BY DEF FindVector, buffers, history
  <1>2. Answering /\ query \in Queries /\ result \in Results(query) /\ TypeOK
    BY <1>1 DEF Answering, AnswerInv, LocusInv
  <1>3. PICK q \in Queries : q = query
    BY <1>2
  <1>4. PICK s \in Results(q), b \in Buffers : s = result /\ b = active
    BY <1>2, <1>3 DEF TypeOK
  <1>5. q.key \in Keys /\ Orderly(q.key)'
    BY <1>1, <1>3, QueryTyped
  <1>6. Orderly(q.key) /\ Placed(q.key) /\ LinesPlaced(q.key)
    BY <1>5, OrderlyBefore
  <1>7. hour \in Nat /\ \E D \in SUBSET Records : FilesMet(query, result, hour, D)
    BY <1>1, <1>2, <1>3, <1>6 DEF CollectInv
  <1>8. PICK h \in Nat, D \in SUBSET Records : h = hour /\ FilesMet(q, s, h, D)
    BY <1>3, <1>4, <1>7
  <1>9. h > HourOf(q.end)
    BY <1>1, <1>3, <1>8
  <1>10. \A r \in owed : KeyOf[r] = q.key /\ InRange(q, r) => r \in D
    BY <1>6, <1>8, <1>9, OwedMet
  <1>11. Met(q, s, D)
    BY <1>8 DEF FilesMet
  <1>12. RowsOrdered(query, result)'
    <2>1. RowsOrdered(q, s)
      BY <1>11, MetRows
    <2>2. RowsOrdered(q, s)'
      BY <2>1, RowsKept
    <2> QED
      BY <1>1, <1>3, <1>4, <2>2
  <1>13. PageMet(query, result)'
    <2>1. PageMet(q, s)
      BY <1>10, <1>11, MetSays DEF PageMet
    <2>2. PageMet(q, s)'
      BY <1>1, <2>1 DEF PageMet, InRange
    <2> QED
      BY <1>1, <1>3, <1>4, <2>2
  <1>14. VectorMet(query, result, found, D)'
    <2>1. Current(q.key) = mem[b][q.key]
      BY <1>4 DEF Current
    <2>2. ASSUME NEW x \in D, NEW y \in Held(mem[b][q.key]) PROVE Before(q.key, x, y)
      <3>1. ReadFrom(q, h, x)
        BY <1>8 DEF FilesMet
      <3>2. x \in Filed(q.key)
        BY <3>1 DEF ReadFrom, LineOf, Filed, LineRec
      <3> QED
        BY <1>6, <2>1, <3>2 DEF Placed
    <2>3. \A i, j \in DOMAIN mem[b][q.key] :
            i < j => Before(q.key, mem[b][q.key][i], mem[b][q.key][j])
      BY <1>6, <2>1 DEF Placed
    <2>4. VectorMet(q, s, b, D)
      BY <1>8, <1>10, <1>11, <2>2, <2>3 DEF VectorMet, FilesMet
    <2>5. VectorMet(q, s, b, D)'
      BY <1>1, <1>2, <2>4, VectorMetKept
    <2> QED
      BY <1>1, <1>3, <1>4, <2>5
  <1> QED
    BY <1>1, <1>12, <1>13, <1>14 DEF CollectInv

(* the vector of the map it found follows what the query has read *)
LEMMA ScanMet ==
  ASSUME LocusInv, ScanVector, query \in Queries, result \in Results(query), found \in Buffers,
         Orderly(query.key), NEW D \in SUBSET Records, VectorMet(query, result, found, D)
  PROVE  Met(query, result', D \cup Held(mem[found][query.key]))
  <1> DEFINE v == mem[found][query.key]
             all == FoldLeft(LAMBDA acc, r : ScanRow(query, acc, r), result, v)
  <1>1. result' = all
    BY DEF ScanVector
  <1>2. v \in Seq(Records) /\ \A i \in DOMAIN v : KeyOf[v[i]] = query.key
    BY QueryTyped DEF LocusInv, TypeOK, OwnVectors
  <1>3. DOMAIN v = 1 .. Len(v)
    BY <1>2
  <1>4. Held(v) = {v[i] : i \in 1 .. Len(v)}
    BY <1>3 DEF Held
  <1>5. /\ \A x \in D : \A i \in 1 .. Len(v) : Before(query.key, x, v[i])
        /\ \A i, j \in 1 .. Len(v) : i < j => Before(query.key, v[i], v[j])
    BY <1>3 DEF VectorMet, Held
  <1>6. D \subseteq Records /\ Met(query, result, D)
    BY DEF VectorMet
  <1> HIDE DEF v
  <1>7. Met(query, FoldLeft(LAMBDA acc, r : ScanRow(query, acc, r), result, v),
            D \cup {v[i] : i \in 1 .. Len(v)})
    BY <1>2, <1>5, <1>6, MetScan
  <1>8. Met(query, all, D \cup {v[i] : i \in 1 .. Len(v)})
    BY <1>7
  <1> HIDE DEF all
  <1> QED
    BY <1>1, <1>4, <1>8 DEF v

LEMMA ScanInv ==
  ASSUME LocusInv, AnswerInv, ArrivedOnce, CollectInv, [Next]_vars, ScanVector
  PROVE  CollectInv'
  <1> SUFFICES ASSUME Orderly(query.key)' PROVE CollectInv'
    BY DEF CollectInv
  <1>1. qpc = "scan" /\ qpc' = "done" /\ UNCHANGED <<query, owed>>
    BY DEF ScanVector
  <1>2. Answering /\ query \in Queries /\ result \in Results(query) /\ found \in Buffers
        /\ TypeOK /\ OwnVectors
    BY <1>1 DEF Answering, AnswerInv, LocusInv
  <1>3. PICK q \in Queries : q = query
    BY <1>2
  <1>4. PICK s \in Results(q), b \in Buffers, t \in {result'} : s = result /\ b = found /\ t = result'
    BY <1>2, <1>3
  <1>5. q.key \in Keys /\ Orderly(q.key)'
    BY <1>1, <1>3, QueryTyped
  <1>6. Orderly(q.key)
    BY <1>5, OrderlyBefore
  <1>7. \E D \in SUBSET Records : VectorMet(query, result, found, D)
    BY <1>1, <1>2, <1>3, <1>6 DEF CollectInv
  <1>8. PICK D \in SUBSET Records : VectorMet(q, s, b, D)
    BY <1>3, <1>4, <1>7
  <1>9. PICK E : E = D \cup Held(mem[b][q.key])
    OBVIOUS
  <1>10. Met(q, t, E)
    <2>1. Orderly(query.key) /\ VectorMet(query, result, found, D)
      BY <1>3, <1>4, <1>6, <1>8
    <2>2. Met(query, result', D \cup Held(mem[found][query.key]))
      BY <1>2, <2>1, ScanMet
    <2> QED
      BY <1>3, <1>4, <1>9, <2>2
  <1>11. t \in Results(q)
    <2>1. AnswerInv' /\ Answering'
      BY <1>1, AnswerInvStep DEF Answering
    <2> QED
      BY <1>1, <1>3, <1>4, <2>1 DEF AnswerInv
  <1>12. RowsOrdered(query, result)'
    <2>1. RowsOrdered(q, t)
      BY <1>10, <1>11, MetRows
    <2>2. RowsOrdered(q, t)'
      BY <2>1, RowsKept
    <2> QED
      BY <1>1, <1>3, <1>4, <2>2
  <1>13. PageMet(query, result)'
    <2>1. \A r \in owed : KeyOf[r] = q.key /\ InRange(q, r) => r \in E
      BY <1>8, <1>9 DEF VectorMet
    <2>2. PageMet(q, t)
      BY <1>10, <1>11, <2>1, MetSays DEF PageMet
    <2>3. PageMet(q, t)'
      BY <1>1, <2>2 DEF PageMet, InRange
    <2> QED
      BY <1>1, <1>3, <1>4, <2>3
  <1> QED
    BY <1>1, <1>12, <1>13 DEF CollectInv

LEMMA CollectNext ==
  ASSUME LocusInv, AnswerInv, OrderInv, CollectInv, [Next]_vars
  PROVE  CollectInv'
  <1>1. /\ ArrivedOnce
        /\ \A k \in Keys : Orderly(k) => Placed(k) /\ LinesPlaced(k)
    BY DEF OrderInv
  <1>2. ASSUME NEW q \in Queries, StartQuery(q) PROVE CollectInv'
    BY <1>2, StartInv
  <1>3. CASE ReadHour
    BY <1>1, <1>3, HourInv
  <1>4. CASE FindVector
    BY <1>1, <1>4, FindInv
  <1>5. CASE ScanVector
    BY <1>1, <1>5, ScanInv
  <1>6. CASE Kill
    BY <1>6 DEF Kill, CollectInv, Answering
  <1>7. ASSUME NEW r \in Records, Store(r) PROVE CollectInv'
    <2>1. /\ UNCHANGED <<query, result, hour, found, owed>>
          /\ mem' = [mem EXCEPT ![active][KeyOf[r]] = Append(@, r)]
          /\ qpc' = IF Reading(active, KeyOf[r]) THEN "undefined" ELSE qpc
      BY <1>7 DEF Store
    <2>2. qpc' = qpc \/ ~Answering'
      BY <2>1 DEF Answering
    <2>3. ASSUME qpc' = "scan" PROVE mem'[found][query.key] = mem[found][query.key]
      <3>1. qpc = "scan" /\ ~(found = active /\ query.key = KeyOf[r])
        BY <2>1, <2>3 DEF Reading
      <3>2. found \in Buffers /\ query \in Queries
        BY <3>1 DEF AnswerInv, Answering
      <3>3. query.key \in Keys
        BY <3>2, LocusAssumption
      <3>4. mem \in [Buffers -> [Keys -> Seq(Records)]]
        BY DEF LocusInv, TypeOK
      <3> QED
        BY <2>1, <3>1, <3>2, <3>3, <3>4
    <2> QED
      BY <1>1, <2>1, <2>2, <2>3, OthersCollect
  <1>8. CASE BeginPass
    <2>1. /\ UNCHANGED <<query, result, hour, found, owed>>
          /\ mem' = [mem EXCEPT ![Other(active)] = Empty]
          /\ qpc' = IF qpc = "scan" /\ found = Other(active) THEN "undefined" ELSE qpc
      BY <1>8 DEF BeginPass, IdleMapCleared
    <2>2. qpc' = qpc \/ ~Answering'
      BY <2>1 DEF Answering
    <2>3. ASSUME qpc' = "scan" PROVE mem'[found][query.key] = mem[found][query.key]
      <3>1. found # Other(active) /\ found \in Buffers
        BY <2>1, <2>3 DEF AnswerInv
      <3>2. mem \in [Buffers -> [Keys -> Seq(Records)]]
        BY DEF LocusInv, TypeOK
      <3> QED
        BY <2>1, <3>1, <3>2
    <2> QED
      BY <1>1, <2>1, <2>2, <2>3, OthersCollect
  <1>9. CASE ChildStep \/ EndPass \/ UNCHANGED vars
    <2>1. UNCHANGED <<query, result, hour, found, owed, qpc, mem>>
      BY <1>9 DEF ChildStep, NextKey, OpenSegment, OpenFails, WriteBase, WriteDelta, PressRecord,
         FinishKey, EndPass, reader, buffers, vars
    <2> QED
      BY <1>1, <2>1, OthersCollect
  <1> QED
    BY <1>2, <1>3, <1>4, <1>5, <1>6, <1>7, <1>8, <1>9 DEF Next, QueryStep

LEMMA CollectInit == Init => CollectInv
  BY DEF Init, CollectInv, Answering

THEOREM AnswersCollected == Spec /\ []VectorsFit => []CollectInv
  <1>1. LocusInv /\ AnswerInv /\ OrderInv /\ CollectInv /\ [Next]_vars => CollectInv'
    BY CollectNext
  <1>2. Spec => []AnswerInv
    <2>1. Init => AnswerInv
      BY DEF Init, AnswerInv, Answering
    <2>2. LocusInv /\ AnswerInv /\ [Next]_vars => AnswerInv'
      BY AnswerInvStep
    <2> QED
      BY <2>1, <2>2, LocusCorrect, PTL DEF Spec
  <1> QED
    BY <1>1, <1>2, CollectInit, LocusCorrect, RecordsPlaced, PTL DEF Spec

(* An answer lists records in the order in which they arrived, none twice, *)
(* although passes move records from the map to the files while the query  *)
(* reads first the ones and then the other (query_his_locus).              *)
THEOREM AnswersInOrder == Spec /\ []VectorsFit => []AnswerFollowsArrival
  <1>1. CollectInv => AnswerFollowsArrival
    <2> SUFFICES ASSUME CollectInv, Answering, Orderly(query.key),
                        NEW i \in DOMAIN Recs, NEW j \in DOMAIN Recs, i < j
                 PROVE  \E m, n \in DOMAIN arrived[query.key] :
                          m < n /\ arrived[query.key][m] = Recs[i] /\ arrived[query.key][n] = Recs[j]
      BY DEF AnswerFollowsArrival
    <2>1. /\ i \in DOMAIN result.rows /\ j \in DOMAIN result.rows
          /\ Recs[i] = result.rows[i].rec /\ Recs[j] = result.rows[j].rec
      BY DEF Recs
    <2>2. Before(query.key, Recs[i], Recs[j])
      BY <2>1 DEF CollectInv, RowsOrdered
    <2> QED
      BY <2>2 DEF Before
  <1> QED
    BY <1>1, AnswersCollected, PTL

(* What was indexed before the query began, in a file of its hours, is in  *)
(* the answer or on a later page: no pass can hide it                      *)
(* (query_his_locus_infile).                                               *)
THEOREM FiledReturned == Spec /\ []VectorsFit => []FiledIsReturned
  <1>1. CollectInv => FiledIsReturned
    <2> SUFFICES ASSUME CollectInv, qpc = "done", Orderly(query.key), query.cur_page = 1,
                        result.count < query.page_size,
                        NEW r \in owed, KeyOf[r] = query.key, InRange(query, r)
                 PROVE  r \in Held(Recs)
      BY DEF FiledIsReturned
    <2>1. PICK i \in DOMAIN result.rows : result.rows[i].rec = r
      BY DEF CollectInv, PageMet, Answering
    <2>2. i \in DOMAIN Recs /\ Recs[i] = r
      BY <2>1 DEF Recs
    <2> QED
      BY <2>2 DEF Held
  <1> QED
    BY <1>1, AnswersCollected, PTL
-----------------------------------------------------------------------------
(* A query that no pass overlaps.                                           *)

(* the rows that are left to read were indexed when the query began, and    *)
(* its iterator points into the current map                                 *)
QuietInv ==
  quiet /\ Answering =>
    /\ ppc = "wait"
    /\ owed = UNION {Indexed(f) : f \in {g \in Files : HourOf(query.begin) <= g[1]}}
    /\ qpc = "scan" => found = active

LEMMA QuietNext ==
  ASSUME LocusInv, QuietInv, [Next]_vars
  PROVE  QuietInv'
  <1>1. key # None => ppc = "filing"
    BY DEF LocusInv, TypeOK
  <1>2. CASE ChildStep \/ EndPass
    <2>1. ppc = "filing" /\ UNCHANGED <<quiet, qpc>>
      BY <1>1, <1>2 DEF ChildStep, NextKey, OpenSegment, HourChanges, OpenFails, WriteBase, WriteDelta,
         PressRecord, InSegment, AtRecord, FinishKey, EndPass, reader
    <2> QED
      BY <2>1 DEF QuietInv, Answering
  <1>3. ASSUME NEW r \in Records, Store(r) PROVE QuietInv'
    <2>1. /\ qpc' = qpc \/ qpc' = "undefined"
          /\ UNCHANGED <<quiet, ppc, owed, query, found, active, locus, index>>
      BY <1>3 DEF Store, files, child
    <2> QED
      BY <2>1 DEF QuietInv, Answering, Indexed, Held, HourOf
  <1>4. CASE BeginPass
    BY <1>4 DEF BeginPass, QuietInv
  <1>5. ASSUME NEW q \in Queries, StartQuery(q) PROVE QuietInv'
    <2>1. /\ qpc' = "files" /\ quiet' = (ppc = "wait") /\ query' = q
          /\ owed' = UNION {Indexed(f) : f \in {g \in Files : HourOf(q.begin) <= g[1]}}
          /\ UNCHANGED <<ppc, locus, index>>
      BY <1>5 DEF StartQuery, files, child
    <2>2. quiet' => ppc' = "wait"
      BY <2>1
    <2>3. owed' = UNION {Indexed(f)' : f \in {g \in Files : HourOf(query'.begin) <= g[1]}}
      BY <2>1 DEF Indexed, Held
    <2> QED
      BY <2>1, <2>2, <2>3 DEF QuietInv, HourOf
  <1>6. CASE QueryStep \/ UNCHANGED vars
    <2>1. /\ Answering \/ UNCHANGED qpc
          /\ qpc' = "scan" => (found' = active \/ (found' = found /\ qpc = "scan"))
          /\ UNCHANGED <<quiet, ppc, owed, query, active, locus, index>>
      BY <1>6 DEF QueryStep, ReadHour, FindVector, ScanVector, buffers, files, child, reader, vars,
         Answering
    <2> QED
      BY <2>1 DEF QuietInv, Answering, Indexed, Held, HourOf
  <1>7. CASE Kill
    BY <1>7 DEF Kill, QuietInv, Answering
  <1> QED
    BY <1>2, <1>3, <1>4, <1>5, <1>6, <1>7 DEF Next

LEMMA QuietInit == Init => QuietInv
  BY DEF Init, QuietInv

(* a record the page counts *)
Chosen(q, r) == InRange(q, r) /\ r \notin Unreadable(q)

LEMMA ExpectedTurns ==
  ASSUME NEW q \in Queries, arrived[q.key] \in Seq(Records), NEW n \in Nat, n = Len(arrived[q.key])
  PROVE  \E p \in [0 .. n -> Seq(Records)] :
           /\ p[0] = <<>> /\ p[n] = Expected(q)
           /\ \A i \in 1 .. n : p[i] = IF Chosen(q, arrived[q.key][i])
                                       THEN Append(p[i - 1], arrived[q.key][i]) ELSE p[i - 1]
  <1> DEFINE v == arrived[q.key]
             Turn(g, r) == IF InRange(q, r) /\ r \notin Unreadable(q) THEN Append(g, r) ELSE g
             Parts == SUBSET (1 .. n)
             G == Seq(Records)
             h == [p \in G \X (1 .. n) |-> Turn(p[1], v[p[2]])]
             Turns(g) == g = [S \in Parts |->
                                IF S = {} THEN <<>> ELSE Turn(g[S \ {Max(S)}], v[Max(S)])]
             it == CHOOSE g : Turns(g)
  <1>1. n \in Nat /\ DOMAIN v = 1 .. n /\ \A i \in 1 .. n : v[i] \in Records
    OBVIOUS
  <1>2. Expected(q) = it[1 .. n]
    BY <1>1 DEF Expected, FoldLeft, MapThenFoldSet
  <1> HIDE DEF v
  <1>3. \A g \in G, r \in Records : Turn(g, r) \in G
    OBVIOUS
  <1>4. <<>> \in G
    OBVIOUS
  <1>5. \A r, g : Turn(g, r) = IF Chosen(q, r) THEN Append(g, r) ELSE g
    BY DEF Chosen
  <1> HIDE DEF Turn, G
  <1>6. h \in [G \X (1 .. n) -> G]
    BY <1>1, <1>3
  <1>7. \A p \in G, i \in 1 .. n : h[<<p, i>>] = Turn(p, v[i])
    OBVIOUS
  <1> HIDE DEF h
  <1>8. PICK f \in [Parts -> G] : IsFold(f, h, <<>>, Parts)
    BY <1>1, <1>4, <1>6, FoldExists
  <1>9. \A S \in Parts : S # {} => S \ {Max(S)} \in Parts /\ Max(S) \in 1 .. n
    BY <1>1, Greatest
  <1>10. Turns(f)
    <2>1. \A S \in Parts : S # {} =>
            h[<<f[S \ {Max(S)}], Max(S)>>] = Turn(f[S \ {Max(S)}], v[Max(S)])
      BY <1>7, <1>9
    <2>2. f = [S \in Parts |-> IF S = {} THEN <<>> ELSE h[<<f[S \ {Max(S)}], Max(S)>>]]
      BY <1>8 DEF IsFold
    <2> QED
      BY <2>1, <2>2
  <1>11. Turns(it)
    BY <1>10
  <1> DEFINE X == {S \in Parts : it[S] \in G}
  <1>12. {} \in X
    BY <1>4, <1>11
  <1>13. ASSUME NEW S \in Parts, S # {}, \A k \in S : S \ {k} \in X
         PROVE  S \in X
    <2>1. Max(S) \in S /\ Max(S) \in 1 .. n
      BY <1>1, <1>13, Greatest
    <2>2. it[S \ {Max(S)}] \in G
      BY <1>13, <2>1
    <2>3. it[S] = Turn(it[S \ {Max(S)}], v[Max(S)])
      BY <1>11, <1>13
    <2>4. it[S] \in G
      BY <1>1, <1>3, <2>1, <2>2, <2>3
    <2> QED
      BY <2>4
  <1> HIDE DEF X
  <1>14. \A S \in Parts : S \in X
    BY <1>1, <1>12, <1>13, PartsInduction
  <1> DEFINE p == [i \in 0 .. n |-> it[1 .. i]]
  <1>15. 1 .. 0 = {} /\ \A i \in 0 .. n : 1 .. i \in Parts
    BY <1>1
  <1>16. \A i \in 0 .. n : it[1 .. i] \in G
    BY <1>14, <1>15 DEF X
  <1>17. it[1 .. 0] = <<>>
    BY <1>11, <1>15
  <1>18. ASSUME NEW i \in 1 .. n
         PROVE  it[1 .. i] = Turn(it[1 .. i - 1], v[i])
    <2>1. /\ 1 .. i \in Parts /\ 1 .. i # {}
          /\ Max(1 .. i) = i /\ (1 .. i) \ {i} = 1 .. i - 1
      BY <1>1, LastIndex
    <2> HIDE DEF it
    <2> QED
      BY <1>11, <2>1
  <1> HIDE DEF it
  <1>19. p \in [0 .. n -> G] /\ p[0] = <<>> /\ p[n] = it[1 .. n]
    BY <1>1, <1>16, <1>17
  <1>20. \A i \in 1 .. n : p[i] = IF Chosen(q, v[i]) THEN Append(p[i - 1], v[i]) ELSE p[i - 1]
    <2> SUFFICES ASSUME NEW i \in 1 .. n
                 PROVE  p[i] = IF Chosen(q, v[i]) THEN Append(p[i - 1], v[i]) ELSE p[i - 1]
      OBVIOUS
    <2>1. i \in 0 .. n /\ i - 1 \in 0 .. n
      BY <1>1
    <2>2. p[i] = Turn(p[i - 1], v[i])
      BY <1>18, <2>1
    <2> HIDE DEF p
    <2> QED
      BY <1>5, <2>2
  <1> HIDE DEF p
  <1> QED
    BY <1>2, <1>19, <1>20 DEF v, G

(* Expected lists the records in range that can be read, in their order *)
LEMMA ExpectedSays ==
  ASSUME ArrivedOnce, NEW q \in Queries, NEW e, e = Expected(q)
  PROVE  /\ e \in Seq(Records)
         /\ \A i, j \in DOMAIN e : i < j => Before(q.key, e[i], e[j])
         /\ \A i \in DOMAIN e : e[i] \in Held(arrived[q.key]) /\ Chosen(q, e[i])
         /\ \A x \in Held(arrived[q.key]) : Chosen(q, x) => \E i \in DOMAIN e : e[i] = x
  <1>1. arrived[q.key] \in Seq(Records)
    BY QueryTyped DEF ArrivedOnce
  <1>2. PICK v \in Seq(Records) : v = arrived[q.key]
    BY <1>1
  <1>3. PICK n \in Nat : n = Len(v) /\ DOMAIN v = 1 .. n
    BY <1>2
  <1>4. PICK p \in [0 .. n -> Seq(Records)] :
          /\ p[0] = <<>> /\ p[n] = Expected(q)
          /\ \A i \in 1 .. n : p[i] = IF Chosen(q, v[i]) THEN Append(p[i - 1], v[i]) ELSE p[i - 1]
    <2>1. n = Len(arrived[q.key])
      BY <1>2, <1>3
    <2>2. \E p \in [0 .. n -> Seq(Records)] :
            /\ p[0] = <<>> /\ p[n] = Expected(q)
            /\ \A i \in 1 .. n : p[i] = IF Chosen(q, arrived[q.key][i])
                                        THEN Append(p[i - 1], arrived[q.key][i]) ELSE p[i - 1]
      BY <1>1, <2>1, ExpectedTurns
    <2> QED
      BY <1>2, <2>2, Zenon
  <1>5. \A i, j \in 1 .. n : i < j => Before(q.key, v[i], v[j])
    BY <1>2, <1>3 DEF Before
  <1> DEFINE Good(m) ==
        /\ \A i, j \in DOMAIN p[m] : i < j => Before(q.key, p[m][i], p[m][j])
        /\ \A i \in DOMAIN p[m] : \E l \in 1 .. m : v[l] = p[m][i] /\ Chosen(q, v[l])
        /\ \A l \in 1 .. m : Chosen(q, v[l]) => \E i \in DOMAIN p[m] : p[m][i] = v[l]
             X == {m \in 0 .. n : Good(m)}
  <1>6. 0 \in X
    <2>1. DOMAIN p[0] = {} /\ 1 .. 0 = {} /\ 0 \in 0 .. n
      BY <1>4
    <2> QED
      BY <2>1, Zenon
  <1>7. ASSUME NEW m \in 1 .. n, m - 1 \in X PROVE m \in X
    <2>1. /\ m - 1 \in 0 .. n /\ m \in 0 .. n /\ v[m] \in Records
          /\ \A l \in 1 .. m : l \in 1 .. m - 1 \/ l = m
          /\ \A l \in 1 .. m - 1 : l \in 1 .. m /\ l < m /\ l \in 1 .. n
      BY <1>3
    <2>2. PICK g \in Seq(Records) : g = p[m - 1]
      BY <1>4, <2>1
    <2>3. PICK u \in Seq(Records) : u = p[m]
      BY <1>4, <2>1
    <2>4. u = IF Chosen(q, v[m]) THEN Append(g, v[m]) ELSE g
      BY <1>4, <2>2, <2>3
    <2>5. /\ \A i, j \in DOMAIN g : i < j => Before(q.key, g[i], g[j])
          /\ \A i \in DOMAIN g : \E l \in 1 .. m - 1 : v[l] = g[i] /\ Chosen(q, v[l])
          /\ \A l \in 1 .. m - 1 : Chosen(q, v[l]) => \E i \in DOMAIN g : g[i] = v[l]
      BY <1>7, <2>2, Zenon
    <2>6. CASE ~Chosen(q, v[m])
      <3>1. u = g
        BY <2>4, <2>6
      <3>2. /\ \A i, j \in DOMAIN u : i < j => Before(q.key, u[i], u[j])
            /\ \A i \in DOMAIN u : \E l \in 1 .. m : v[l] = u[i] /\ Chosen(q, v[l])
            /\ \A l \in 1 .. m : Chosen(q, v[l]) => \E i \in DOMAIN u : u[i] = v[l]
        BY <2>1, <2>5, <2>6, <3>1, Zenon
      <3> QED
        BY <2>1, <2>3, <3>2, Zenon
    <2>7. CASE Chosen(q, v[m])
      <3>1. PICK w \in Nat : w = Len(g) /\ DOMAIN g = 1 .. w
        OBVIOUS
      <3>2. /\ DOMAIN u = 1 .. w + 1 /\ u[w + 1] = v[m]
            /\ \A i \in 1 .. w : u[i] = g[i] /\ i \in 1 .. w + 1
            /\ \A i \in 1 .. w + 1 : i \in 1 .. w \/ i = w + 1
            /\ w + 1 \in 1 .. w + 1
        BY <2>4, <2>7, <3>1
      <3>3. ASSUME NEW i \in 1 .. w + 1, NEW j \in 1 .. w + 1, i < j
            PROVE  Before(q.key, u[i], u[j])
        <4>1. i \in 1 .. w
          BY <3>3
        <4>2. PICK l \in 1 .. m - 1 : v[l] = g[i]
          BY <2>5, <3>1, <4>1
        <4>3. Before(q.key, v[l], v[m])
          BY <1>5, <2>1
        <4>4. CASE j \in 1 .. w
          BY <2>5, <3>1, <3>2, <3>3, <4>1, <4>4
        <4>5. CASE j = w + 1
          BY <3>2, <4>1, <4>2, <4>3, <4>5
        <4> QED
          BY <3>2, <4>4, <4>5
      <3>4. ASSUME NEW i \in 1 .. w + 1 PROVE \E l \in 1 .. m : v[l] = u[i] /\ Chosen(q, v[l])
        <4>1. CASE i \in 1 .. w
          <5>1. PICK l \in 1 .. m - 1 : v[l] = g[i] /\ Chosen(q, v[l])
            BY <2>5, <3>1, <4>1
          <5> QED
            BY <2>1, <3>2, <4>1, <5>1
        <4>2. CASE i = w + 1
          BY <2>1, <2>7, <3>2, <4>2
        <4> QED
          BY <3>2, <4>1, <4>2
      <3>5. ASSUME NEW l \in 1 .. m, Chosen(q, v[l]) PROVE \E i \in 1 .. w + 1 : u[i] = v[l]
        <4>1. CASE l \in 1 .. m - 1
          BY <2>5, <3>1, <3>2, <3>5, <4>1
        <4>2. CASE l = m
          BY <3>2, <4>2
        <4> QED
          BY <2>1, <4>1, <4>2
      <3> QED
        BY <2>1, <2>3, <3>2, <3>3, <3>4, <3>5, Zenon
    <2> QED
      BY <2>6, <2>7
  <1> HIDE DEF X
  <1>8. \A m \in 0 .. n : m \in X
    BY <1>6, <1>7, TurnInduction
  <1>9. n \in X /\ n \in 0 .. n
    BY <1>8
  <1>10. p[n] = e /\ e \in Seq(Records)
    BY <1>4, <1>9
  <1>11. /\ \A i, j \in DOMAIN e : i < j => Before(q.key, e[i], e[j])
         /\ \A i \in DOMAIN e : \E l \in 1 .. n : v[l] = e[i] /\ Chosen(q, v[l])
         /\ \A l \in 1 .. n : Chosen(q, v[l]) => \E i \in DOMAIN e : e[i] = v[l]
    BY <1>9, <1>10, Zenon DEF X
  <1>12. Held(arrived[q.key]) = {v[l] : l \in 1 .. n}
    BY <1>2, <1>3 DEF Held
  <1> QED
    BY <1>10, <1>11, <1>12

(* a lists some of what b lists, both in the order of arrival, and all else *)
(* in b came later: a begins b                                              *)
LEMMA SamePrefix ==
  ASSUME ArrivedOnce, NEW k \in Keys, NEW a \in Seq(Records), NEW b \in Seq(Records),
         \A i, j \in DOMAIN a : i < j => Before(k, a[i], a[j]),
         \A i, j \in DOMAIN b : i < j => Before(k, b[i], b[j]),
         \A i \in DOMAIN a : \E j \in DOMAIN b : b[j] = a[i],
         \A j \in DOMAIN b : \/ \E i \in DOMAIN a : a[i] = b[j]
                             \/ \A i \in DOMAIN a : Before(k, a[i], b[j])
  PROVE  Len(a) <= Len(b) /\ \A i \in DOMAIN a : a[i] = b[i]
  <1>1. PICK n \in Nat, m \in Nat : /\ n = Len(a) /\ DOMAIN a = 1 .. n
                                    /\ m = Len(b) /\ DOMAIN b = 1 .. m
    OBVIOUS
  <1> DEFINE X == {i \in 0 .. n : i <= m /\ \A j \in 1 .. i : a[j] = b[j]}
  <1>2. 0 \in X
    BY <1>1
  <1>3. ASSUME NEW i \in 1 .. n, i - 1 \in X PROVE i \in X
    <2>1. /\ i \in 0 .. n /\ \A j \in 1 .. i : j \in 1 .. i - 1 \/ j = i
          /\ \A j \in 1 .. i - 1 : j \in 1 .. n /\ j \in 1 .. m /\ j < i
          /\ \A j \in 1 .. i - 1 : a[j] = b[j]
      BY <1>1, <1>3
    <2>2. PICK l \in 1 .. m : b[l] = a[i]
      BY <1>1
    <2>3. l \notin 1 .. i - 1
      <3> SUFFICES ASSUME l \in 1 .. i - 1 PROVE FALSE
        OBVIOUS
      <3>1. Before(k, a[l], a[i])
        BY <1>1, <2>1
      <3> QED
        BY <2>1, <2>2, <3>1, BeforeFacts
    <2>4. i <= l /\ i \in 1 .. m
      BY <1>1, <2>3
    <2>5. l = i
      <3> SUFFICES ASSUME l # i PROVE FALSE
        OBVIOUS
      <3>1. Before(k, b[i], a[i])
        <4>1. i < l
          BY <1>1, <2>4
        <4> QED
          BY <1>1, <2>2, <2>4, <4>1
      <3>2. CASE \A j \in 1 .. n : Before(k, a[j], b[i])
        BY <3>1, <3>2, BeforeFacts
      <3>3. CASE \E j \in 1 .. n : a[j] = b[i]
        <4>1. PICK j \in 1 .. n : a[j] = b[i]
          BY <3>3
        <4>2. CASE j \in 1 .. i - 1
          <5>1. Before(k, b[j], b[i])
            BY <1>1, <2>1, <2>4, <4>2
          <5> QED
            BY <2>1, <4>1, <4>2, <5>1, BeforeFacts
        <4>3. CASE j = i
          BY <3>1, <4>1, <4>3, BeforeFacts
        <4>4. CASE i < j
          <5>1. Before(k, a[i], b[i])
            BY <1>1, <4>1, <4>4
          <5> QED
            BY <3>1, <5>1, BeforeFacts
        <4> QED
          BY <1>1, <4>2, <4>3, <4>4
      <3> QED
        BY <1>1, <2>4, <3>2, <3>3
    <2> QED
      BY <2>1, <2>2, <2>4, <2>5
  <1> HIDE DEF X
  <1>4. \A i \in 0 .. n : i \in X
    BY <1>2, <1>3, TurnInduction
  <1>5. n \in X
    BY <1>1, <1>4
  <1> QED
    BY <1>1, <1>5 DEF X

Answered(q, s) == [i \in DOMAIN s.rows |-> s.rows[i].rec] = Page(q, Expected(q))

(* The records of D can be read and have arrived, and what else can be read *)
(* and is in range arrived after all of them and after the query had ended. *)
AllMet(q, s, D) ==
  /\ \A x \in D : x \in Held(arrived[q.key]) /\ x \notin Unreadable(q)
  /\ \A x \in Held(arrived[q.key]) : Chosen(q, x) =>
       x \in D \/ (s.ended /\ \A y \in D : Before(q.key, y, x))

LEMMA MetAnswers ==
  ASSUME ArrivedOnce, NEW q \in Queries, Orderly(q.key), NEW s \in Results(q), NEW D,
         Met(q, s, D), AllMet(q, s, D)
  PROVE  Answered(q, s)
  <1>1. PICK e \in Seq(Records) : e = Expected(q)
    BY ExpectedSays
  <1>2. /\ \A i, j \in DOMAIN e : i < j => Before(q.key, e[i], e[j])
        /\ \A i \in DOMAIN e : e[i] \in Held(arrived[q.key]) /\ Chosen(q, e[i])
        /\ \A x \in Held(arrived[q.key]) : Chosen(q, x) => \E i \in DOMAIN e : e[i] = x
    BY <1>1, ExpectedSays
  <1>3. PICK t \in Seq(Records) : Counted(q, s, D, t)
    BY DEF Met
  <1>4. PICK a \in Nat, c \in Nat : a = page_min_size(q) /\ c = page_max_size(q) /\ a < c
    BY PageBounds
  <1>5. PICK n \in Nat, m \in Nat, l \in Nat :
          /\ n = s.count /\ m = Len(s.rows) /\ DOMAIN s.rows = 1 .. m
          /\ l = Len(e) /\ DOMAIN e = 1 .. l
    BY DEF Results
  <1>6. DOMAIN t = 1 .. n /\ Len(t) = n /\ n <= c /\ m = (IF n <= a THEN 0 ELSE n - a)
    BY <1>3, <1>4, <1>5 DEF Counted
  <1>7. \A i, j \in DOMAIN t : i < j => Before(q.key, t[i], t[j])
    BY <1>3 DEF Counted
  <1>8. ASSUME NEW i \in DOMAIN t PROVE \E j \in DOMAIN e : e[j] = t[i]
    <2>1. t[i] \in D /\ InRange(q, t[i])
      BY <1>3 DEF Counted
    <2>2. t[i] \in Held(arrived[q.key]) /\ Chosen(q, t[i])
      BY <2>1 DEF AllMet, Chosen
    <2> QED
      BY <1>2, <2>2
  <1>9. ASSUME NEW j \in DOMAIN e
        PROVE  \/ \E i \in DOMAIN t : t[i] = e[j]
               \/ n = c /\ \A i \in DOMAIN t : Before(q.key, t[i], e[j])
    <2>1. e[j] \in Held(arrived[q.key]) /\ Chosen(q, e[j]) /\ InRange(q, e[j])
      BY <1>2 DEF Chosen
    <2>2. CASE e[j] \in D
      BY <1>3, <1>4, <1>5, <2>1, <2>2 DEF Counted
    <2>3. CASE s.ended /\ \A y \in D : Before(q.key, y, e[j])
      <3>1. \A x \in D : ~(TimeOf[x] > q.end)
        <4> SUFFICES ASSUME NEW x \in D, TimeOf[x] > q.end PROVE FALSE
          OBVIOUS
        <4>1. x \in Records /\ e[j] \in Records
          BY <2>3, BeforeFacts, QueryTyped
        <4>2. TimeOf[x] <= TimeOf[e[j]]
          BY <2>3, BeforeTime, QueryTyped
        <4>3. TimeOf[x] \in Nat /\ TimeOf[e[j]] \in Nat /\ q.end \in Nat
          BY <4>1, LocusAssumption, QueryTyped
        <4>4. TimeOf[e[j]] <= q.end
          BY <2>1 DEF InRange
        <4> QED
          BY <4>2, <4>3, <4>4
      <3>2. n = c
        BY <1>4, <1>5, <2>3, <3>1 DEF Met, EndSeen
      <3>3. \A i \in DOMAIN t : Before(q.key, t[i], e[j])
        BY <1>3, <2>3 DEF Counted
      <3> QED
        BY <3>2, <3>3
    <2> QED
      BY <2>1, <2>2, <2>3 DEF AllMet
  <1>10. n <= l /\ \A i \in 1 .. n : t[i] = e[i]
    <2>1. /\ q.key \in Keys
          /\ \A i \in DOMAIN t : \E j \in DOMAIN e : e[j] = t[i]
          /\ \A j \in DOMAIN e : \/ \E i \in DOMAIN t : t[i] = e[j]
                                 \/ \A i \in DOMAIN t : Before(q.key, t[i], e[j])
      BY <1>8, <1>9, QueryTyped
    <2>2. Len(t) <= Len(e) /\ \A i \in DOMAIN t : t[i] = e[i]
      BY <1>2, <1>7, <2>1, SamePrefix
    <2> QED
      BY <1>5, <1>6, <2>2
  <1>11. n = c \/ n = l
    <2> SUFFICES ASSUME n # c PROVE n = l
      OBVIOUS
    <2>1. \A j \in DOMAIN e : \E i \in DOMAIN t : t[i] = e[j]
      BY <1>9
    <2>2. /\ q.key \in Keys
          /\ \A j \in DOMAIN t : \/ \E i \in DOMAIN e : e[i] = t[j]
                                 \/ \A i \in DOMAIN e : Before(q.key, e[i], t[j])
      BY <1>8, QueryTyped
    <2>3. Len(e) <= Len(t)
      BY <1>2, <1>7, <2>1, <2>2, SamePrefix
    <2> QED
      BY <1>5, <1>6, <1>10, <2>3
  <1>12. Page(q, Expected(q)) = SubSeq(e, a + 1, n)
    <2>1. n = (IF c <= Len(e) THEN c ELSE Len(e))
      BY <1>5, <1>6, <1>10, <1>11
    <2> QED
      BY <1>1, <1>4, <2>1 DEF Page
  <1>13. \A i \in 1 .. m : s.rows[i].rec = e[a + i]
    <2>1. \A i \in 1 .. m : a + i \in 1 .. n
      BY <1>6
    <2>2. \A i \in 1 .. m : s.rows[i].rec = t[a + i]
      BY <1>3, <1>4, <1>5 DEF Counted
    <2> QED
      BY <1>10, <2>1, <2>2
  <1>14. PICK w \in Seq(Records) : w = SubSeq(e, a + 1, n)
    <2>1. \A i \in a + 1 .. n : e[i] \in Records
      <3>1. \A i \in a + 1 .. n : i \in 1 .. l
        BY <1>10
      <3> QED
        BY <1>5, <3>1
    <2>2. a + 1 \in Int /\ n \in Int
      OBVIOUS
    <2>3. SubSeq(e, a + 1, n) \in Seq(Records)
      BY <2>1, <2>2, SubSeqProperties
    <2> QED
      BY <2>3
  <1>15. Len(w) = m /\ \A i \in 1 .. m : w[i] = e[a + i]
    <2>1. PICK b \in Int : b = a + 1
      OBVIOUS
    <2>2. \A i \in b .. n : e[i] \in Records
      <3>1. \A i \in b .. n : i \in 1 .. l
        BY <1>10, <2>1
      <3> QED
        BY <1>5, <3>1
    <2>3. /\ Len(SubSeq(e, b, n)) = IF b <= n THEN n - b + 1 ELSE 0
          /\ \A i \in 1 .. n - b + 1 : SubSeq(e, b, n)[i] = e[b + i - 1]
      BY <2>2, SubSeqProperties
    <2>4. w = SubSeq(e, b, n)
      BY <1>14, <2>1
    <2>5. Len(w) = m
      BY <1>6, <2>1, <2>3, <2>4
    <2>6. \A i \in 1 .. m : i \in 1 .. n - b + 1 /\ b + i - 1 = a + i
      BY <1>6, <2>1
    <2> QED
      BY <2>3, <2>4, <2>5, <2>6
  <1>16. DOMAIN w = 1 .. m /\ w = [i \in 1 .. m |-> w[i]]
    <2>1. DOMAIN w = 1 .. m
      BY <1>14, <1>15
    <2>2. w \in [1 .. Len(w) -> Records]
      BY <1>14, LenProperties
    <2> QED
      BY <1>15, <2>1, <2>2
  <1> QED
    BY <1>5, <1>12, <1>13, <1>14, <1>15, <1>16 DEF Answered

(* where the records are that a quiet query has not met *)
LEMMA QuietFiles ==
  ASSUME LocusInv, OrderInv, NEW q \in Queries, Orderly(q.key), ppc = "wait",
         owed = UNION {Indexed(f) : f \in {g \in Files : HourOf(q.begin) <= g[1]}},
         NEW x \in Held(arrived[q.key]), Chosen(q, x)
  PROVE  x \in Held(Current(q.key)) \/ (x \in Filed(q.key) /\ x \in owed)
  <1>1. /\ q.key \in Keys /\ Placed(q.key) /\ LinesPlaced(q.key) /\ todo = {} /\ key = None
        /\ q.key # None
    BY QueryTyped, LocusAssumption DEF OrderInv, LogsMatch, LocusInv, TypeOK
  <1>2. x \notin Waiting(q.key)
    BY <1>1 DEF Waiting, Pending
  <1>3. x \notin Dropped(q.key)
    BY DEF Dropped, Chosen, Unreadable
  <1>4. SUFFICES ASSUME x \in Filed(q.key) PROVE x \in owed
    BY <1>1, <1>2, <1>3 DEF Placed
  <1>5. PICK f \in Files : \E i \in DOMAIN locus[f] : LineRec(f, i) = x
    BY <1>4 DEF Filed
  <1>6. PICK i \in DOMAIN locus[f] : LineRec(f, i) = x
    BY <1>5
  <1>7. LineOf(q.key, f, i)
    BY <1>4, <1>6 DEF Filed, LineOf, LineRec
  <1>8. Covered(f, i)
    BY <1>1, <1>7 DEF LinesPlaced
  <1>9. x \in Indexed(f)
    <2>1. PICK j \in DOMAIN index[f] :
            i \in index[f][j].offset + 1 .. index[f][j].offset + index[f][j].length
      BY <1>8 DEF Covered
    <2>2. PICK e \in Held(index[f]) : e = index[f][j]
      BY DEF Held
    <2>3. x \in {locus[f][n].rec : n \in e.offset + 1 .. e.offset + e.length}
      BY <1>6, <2>1, <2>2 DEF LineRec
    <2> QED
      BY <2>3 DEF Indexed
  <1>10. HourOf(q.begin) <= f[1]
    <2>1. ~(f[1] < HourOf(q.begin))
      BY <1>9 DEF Chosen, Unreadable
    <2>2. f[1] \in Nat /\ HourOf(q.begin) \in Nat
      BY FileHour, QueryTyped, HourInOrder
    <2> QED
      BY <2>1, <2>2
  <1> QED
    BY <1>9, <1>10

(* what is in a file that ends before the query begins is filed *)
LEMMA IndexedLine ==
  ASSUME TypeOK, SegmentsWhole, NEW f \in Files, NEW x \in Indexed(f)
  PROVE  \E i \in DOMAIN locus[f] : LineRec(f, i) = x /\ x \in Records
  <1>1. locus[f] \in Seq(Lines) /\ index[f] \in Seq(Entries)
    BY DEF TypeOK
  <1>2. PICK e \in Held(index[f]) :
          x \in {locus[f][i].rec : i \in e.offset + 1 .. e.offset + e.length}
    BY DEF Indexed
  <1>3. PICK j \in DOMAIN index[f] : e = index[f][j]
    BY <1>2 DEF Held
  <1>4. PICK i \in e.offset + 1 .. e.offset + e.length : x = LineRec(f, i)
    BY <1>2 DEF LineRec
  <1>5. e.offset + e.length <= Len(locus[f]) /\ e.offset \in Nat /\ e.length \in Nat
    <2>1. GoodSegment(f, index[f][j]) /\ index[f][j] \in Entries
      BY <1>1 DEF SegmentsWhole
    <2>2. GoodSegment(f, e) /\ e \in Entries
      BY <1>3, <2>1
    <2> QED
      BY <2>2 DEF GoodSegment, Entries
  <1>6. i \in DOMAIN locus[f]
    <2>1. Len(locus[f]) \in Nat /\ DOMAIN locus[f] = 1 .. Len(locus[f])
      BY <1>1
    <2> QED
      BY <1>5, <2>1
  <1>7. locus[f][i] \in Lines
    BY <1>1, <1>6
  <1> QED
    BY <1>4, <1>6, <1>7 DEF LineRec, Lines

(* a record the query has read can be read: it is in no file of an earlier  *)
(* hour, and not dropped                                                    *)
LEMMA ReadIsReadable ==
  ASSUME LocusInv, OrderInv, NEW q \in Queries, Orderly(q.key), NEW h, NEW x, ReadFrom(q, h, x)
  PROVE  x \in Filed(q.key) /\ x \in Held(arrived[q.key]) /\ x \notin Unreadable(q)
  <1>1. /\ q.key \in Keys /\ Placed(q.key) /\ LinesPlaced(q.key) /\ ArrivedOnce
        /\ TypeOK /\ SegmentsWhole
    BY QueryTyped DEF OrderInv, LocusInv
  <1>2. PICK f \in Files : \E i \in DOMAIN locus[f] :
          LineOf(q.key, f, i) /\ LineRec(f, i) = x /\ HourOf(q.begin) <= f[1]
    BY DEF ReadFrom
  <1>3. PICK i \in DOMAIN locus[f] :
          LineOf(q.key, f, i) /\ LineRec(f, i) = x /\ HourOf(q.begin) <= f[1]
    BY <1>2
  <1>4. x \in Records /\ KeyOf[x] = q.key
    <2>1. locus[f][i] \in Lines
      BY <1>1 DEF TypeOK
    <2> QED
      BY <1>3, <2>1 DEF LineOf, LineRec, Lines
  <1>5. x \in Filed(q.key)
    BY <1>3, <1>4 DEF Filed
  <1>6. x \in Held(arrived[q.key]) /\ x \notin Dropped(q.key)
    BY <1>1, <1>5 DEF Placed
  <1>7. x \notin lost /\ x \notin {p[1] : p \in pressed}
    BY <1>4, <1>6 DEF Dropped
  <1>8. ASSUME NEW g \in Files, g[1] < HourOf(q.begin), x \in Indexed(g) PROVE FALSE
    <2>1. PICK j \in DOMAIN locus[g] : LineRec(g, j) = x
      BY <1>1, <1>8, IndexedLine
    <2>2. LineOf(q.key, g, j)
      BY <1>4, <2>1 DEF LineOf, LineRec
    <2>3. Earlier(g, j, f, i)
      <3>1. f[1] \in Nat /\ g[1] \in Nat /\ HourOf(q.begin) \in Nat
        BY FileHour, QueryTyped, HourInOrder
      <3> QED
        BY <1>3, <1>8, <3>1 DEF Earlier
    <2>4. Before(q.key, x, x)
      BY <1>1, <1>3, <2>1, <2>2, <2>3 DEF LinesPlaced
    <2> QED
      BY <1>1, <2>4, BeforeFacts
  <1> QED
    BY <1>5, <1>6, <1>7, <1>8 DEF Unreadable

(* so is one that is in the current map *)
LEMMA CurrentIsReadable ==
  ASSUME LocusInv, OrderInv, NEW q \in Queries, Orderly(q.key), NEW x \in Held(Current(q.key))
  PROVE  x \in Held(arrived[q.key]) /\ x \notin Unreadable(q)
  <1>1. /\ q.key \in Keys /\ Placed(q.key) /\ ArrivedOnce /\ TypeOK /\ SegmentsWhole
    BY QueryTyped DEF OrderInv, LocusInv
  <1>2. x \in Held(arrived[q.key])
    BY <1>1 DEF Placed
  <1>3. x \in Records /\ KeyOf[x] = q.key
    <2>1. arrived[q.key] \in Seq(Records) /\ \A r \in Held(arrived[q.key]) : KeyOf[r] = q.key
      BY <1>1 DEF ArrivedOnce
    <2> QED
      BY <1>2, <2>1 DEF Held
  <1>4. x \notin Filed(q.key) \cup Dropped(q.key)
    <2> SUFFICES ASSUME x \in Filed(q.key) \cup Dropped(q.key) PROVE FALSE
      OBVIOUS
    <2>1. Before(q.key, x, x)
      BY <1>1 DEF Placed
    <2> QED
      BY <1>1, <2>1, BeforeFacts
  <1>5. x \notin lost /\ x \notin {p[1] : p \in pressed}
    BY <1>3, <1>4 DEF Dropped
  <1>6. ASSUME NEW g \in Files, x \in Indexed(g) PROVE FALSE
    <2>1. \E j \in DOMAIN locus[g] : LineRec(g, j) = x
      BY <1>1, <1>6, IndexedLine
    <2> QED
      BY <1>3, <1>4, <2>1 DEF Filed
  <1> QED
    BY <1>2, <1>5, <1>6 DEF Unreadable

(* the files of the hours up to h are read, and the query is over           *)
LEMMA FilesAllMet ==
  ASSUME LocusInv, OrderInv, NEW q \in Queries, Orderly(q.key), ppc = "wait",
         owed = UNION {Indexed(f) : f \in {g \in Files : HourOf(q.begin) <= g[1]}},
         NEW s, NEW h \in Nat, NEW D \in SUBSET Records, FilesMet(q, s, h, D),
         s.ended \/ (h > HourOf(q.end) /\ Current(q.key) = <<>>)
  PROVE  AllMet(q, s, D)
  <1>1. /\ q.key \in Keys /\ Placed(q.key) /\ LinesPlaced(q.key) /\ ArrivedOnce
    BY QueryTyped DEF OrderInv
  <1>2. ASSUME NEW x \in D
        PROVE  x \in Filed(q.key) /\ x \in Held(arrived[q.key]) /\ x \notin Unreadable(q)
    BY ReadIsReadable DEF FilesMet
  <1>3. ASSUME NEW x \in Held(arrived[q.key]), Chosen(q, x), x \notin D
        PROVE  s.ended /\ \A y \in D : Before(q.key, y, x)
    <2>1. CASE x \in Held(Current(q.key))
      <3>1. s.ended
        BY <2>1 DEF Held
      <3> QED
        BY <1>1, <1>2, <2>1, <3>1 DEF Placed
    <2>2. CASE x \in Filed(q.key) /\ x \in owed
      <3>1. KeyOf[x] = q.key /\ x \in Records
        BY <2>2 DEF Filed
      <3>2. ToRead(h, x)
        BY <1>3, <2>2, <3>1 DEF FilesMet
      <3>3. PICK g \in Files : \E i \in DOMAIN locus[g] : LineRec(g, i) = x /\ Covered(g, i) /\ g[1] >= h
        BY <3>2 DEF ToRead
      <3>4. PICK i \in DOMAIN locus[g] : LineRec(g, i) = x /\ Covered(g, i) /\ g[1] >= h
        BY <3>3
      <3>5. LineOf(q.key, g, i)
        BY <3>1, <3>4 DEF LineOf, LineRec
      <3>6. ~(h > HourOf(q.end))
        <4>1. g[1] <= HourOf(TimeOf[x])
          BY <1>1, <3>4, <3>5 DEF LinesPlaced
        <4>2. TimeOf[x] \in Nat /\ q.end \in Nat /\ TimeOf[x] <= q.end
          BY <1>3, <3>1, LocusAssumption, QueryTyped DEF Chosen, InRange
        <4>3. HourOf(TimeOf[x]) <= HourOf(q.end) /\ HourOf(TimeOf[x]) \in Nat /\ HourOf(q.end) \in Nat
          BY <4>2, HourInOrder
        <4>4. g[1] \in Nat
          BY FileHour
        <4> QED
          BY <3>4, <4>1, <4>3, <4>4
      <3>7. ASSUME NEW y \in D PROVE Before(q.key, y, x)
        <4>1. ReadFrom(q, h, y)
          BY DEF FilesMet
        <4>2. PICK f \in Files : \E j \in DOMAIN locus[f] :
                LineOf(q.key, f, j) /\ LineRec(f, j) = y /\ f[1] < h
          BY <4>1 DEF ReadFrom
        <4>3. PICK j \in DOMAIN locus[f] : LineOf(q.key, f, j) /\ LineRec(f, j) = y /\ f[1] < h
          BY <4>2
        <4>4. Earlier(f, j, g, i)
          <5>1. f[1] < g[1]
            BY <3>4, <4>3, FileHour
          <5> QED
            BY <5>1 DEF Earlier
        <4> QED
          BY <1>1, <3>4, <3>5, <4>3, <4>4 DEF LinesPlaced
      <3> QED
        BY <3>6, <3>7
    <2> QED
      BY <1>3, <2>1, <2>2, QuietFiles
  <1> QED
    BY <1>2, <1>3 DEF AllMet

(* the vector of the current map is read as well                            *)
LEMMA VectorAllMet ==
  ASSUME LocusInv, OrderInv, NEW q \in Queries, Orderly(q.key), ppc = "wait",
         owed = UNION {Indexed(f) : f \in {g \in Files : HourOf(q.begin) <= g[1]}},
         NEW s, NEW D \in SUBSET Records, VectorMet(q, s, active, D), NEW t
  PROVE  AllMet(q, t, D \cup Held(Current(q.key)))
  <1>1. ASSUME NEW x \in D PROVE x \in Held(arrived[q.key]) /\ x \notin Unreadable(q)
    <2>1. PICK h \in Nat : ReadFrom(q, h, x)
      BY DEF VectorMet
    <2> QED
      BY <2>1, ReadIsReadable
  <1>2. ASSUME NEW x \in Held(Current(q.key))
        PROVE  x \in Held(arrived[q.key]) /\ x \notin Unreadable(q)
    BY CurrentIsReadable
  <1>3. ASSUME NEW x \in Held(arrived[q.key]), Chosen(q, x) PROVE x \in D \cup Held(Current(q.key))
    <2>1. x \in Held(Current(q.key)) \/ (x \in Filed(q.key) /\ x \in owed)
      BY <1>3, QuietFiles
    <2>2. x \in Filed(q.key) /\ x \in owed => x \in D
      BY <1>3 DEF Filed, VectorMet, Chosen
    <2> QED
      BY <2>1, <2>2
  <1> QED
    BY <1>1, <1>2, <1>3 DEF AllMet

(* each of the steps that end a query *)
LEMMA HourAnswers ==
  ASSUME LocusInv, AnswerInv, OrderInv, CollectInv, QuietInv, [Next]_vars, ReadHour,
         qpc' = "done", quiet', Orderly(query.key)'
  PROVE  \E q \in Queries : \E t \in Results(q), D \in SUBSET Records :
           q = query /\ t = result' /\ Met(q, t, D) /\ AllMet(q, t, D)
  <1>1. /\ qpc = "files" /\ query' = query /\ quiet' = quiet
        /\ qpc' = IF result'.ended THEN "done" ELSE "files"
        /\ result' = ReadFile(query, result, <<hour, BucketOf[query.key]>>)
    BY DEF ReadHour
  <1>2. Answering /\ query \in Queries /\ result \in Results(query) /\ ArrivedOnce
    BY <1>1 DEF Answering, AnswerInv, OrderInv
  <1>3. PICK q \in Queries : q = query
    BY <1>2
  <1>4. PICK s \in Results(q), t \in {result'} : s = result /\ t = result'
    BY <1>2, <1>3
  <1>5. t \in Results(q)
    <2>1. AnswerInv' /\ Answering'
      BY <1>1, AnswerInvStep DEF Answering
    <2> QED
      BY <1>1, <1>3, <1>4, <2>1 DEF AnswerInv
  <1>6. q.key \in Keys /\ Orderly(q.key)'
    BY <1>1, <1>3, QueryTyped
  <1>7. Orderly(q.key) /\ LinesPlaced(q.key)
    BY <1>2, <1>6, OrderlyBefore DEF OrderInv
  <1>8. hour \in Nat /\ \E D \in SUBSET Records : FilesMet(query, result, hour, D)
    BY <1>1, <1>2, <1>3, <1>7 DEF CollectInv
  <1>9. PICK h \in Nat, D \in SUBSET Records : h = hour /\ FilesMet(q, s, h, D)
    BY <1>3, <1>4, <1>8
  <1>10. PICK f : f = <<h, BucketOf[q.key]>>
    OBVIOUS
  <1>11. PICK E \in SUBSET Records : FilesMet(q, ReadFile(q, s, f), h + 1, E)
    BY <1>7, <1>9, <1>10, HourCollects
  <1>12. FilesMet(q, t, h + 1, E)
    BY <1>1, <1>3, <1>4, <1>9, <1>10, <1>11
  <1>13. /\ ppc = "wait"
         /\ owed = UNION {Indexed(g) : g \in {g \in Files : HourOf(q.begin) <= g[1]}}
    BY <1>1, <1>2, <1>3 DEF QuietInv
  <1>14. t.ended /\ h + 1 \in Nat
    BY <1>1, <1>4
  <1>15. AllMet(q, t, E)
    BY <1>7, <1>12, <1>13, <1>14, FilesAllMet
  <1> QED
    BY <1>3, <1>4, <1>5, <1>12, <1>15 DEF FilesMet

LEMMA FindAnswers ==
  ASSUME LocusInv, AnswerInv, OrderInv, CollectInv, QuietInv, [Next]_vars, FindVector,
         qpc' = "done", quiet', Orderly(query.key)'
  PROVE  \E q \in Queries : \E t \in Results(q), D \in SUBSET Records :
           q = query /\ t = result' /\ Met(q, t, D) /\ AllMet(q, t, D)
  <1>1. /\ qpc = "files" /\ hour > HourOf(query.end) /\ UNCHANGED <<query, quiet, result>>
        /\ mem[active][query.key] = <<>>
    BY DEF FindVector
  <1>2. Answering /\ query \in Queries /\ result \in Results(query) /\ ArrivedOnce
    BY <1>1 DEF Answering, AnswerInv, OrderInv
  <1>3. PICK q \in Queries : q = query
    BY <1>2
  <1>4. PICK s \in Results(q) : s = result /\ s = result'
    BY <1>1, <1>2, <1>3
  <1>5. q.key \in Keys /\ Orderly(q.key)'
    BY <1>1, <1>3, QueryTyped
  <1>6. Orderly(q.key)
    BY <1>2, <1>5, OrderlyBefore
  <1>7. hour \in Nat /\ \E D \in SUBSET Records : FilesMet(query, result, hour, D)
    BY <1>1, <1>2, <1>3, <1>6 DEF CollectInv
  <1>8. PICK h \in Nat, D \in SUBSET Records : h = hour /\ FilesMet(q, s, h, D)
    BY <1>3, <1>4, <1>7
  <1>9. /\ ppc = "wait"
        /\ owed = UNION {Indexed(g) : g \in {g \in Files : HourOf(q.begin) <= g[1]}}
    BY <1>1, <1>2, <1>3 DEF QuietInv
  <1>10. h > HourOf(q.end) /\ Current(q.key) = <<>>
    BY <1>1, <1>3, <1>8 DEF Current
  <1>11. AllMet(q, s, D)
    BY <1>6, <1>8, <1>9, <1>10, FilesAllMet
  <1> QED
    BY <1>3, <1>4, <1>8, <1>11 DEF FilesMet

LEMMA ScanAnswers ==
  ASSUME LocusInv, AnswerInv, OrderInv, CollectInv, QuietInv, [Next]_vars, ScanVector,
         quiet', Orderly(query.key)'
  PROVE  \E q \in Queries : \E t \in Results(q), D \in SUBSET Records :
           q = query /\ t = result' /\ Met(q, t, D) /\ AllMet(q, t, D)
  <1>1. qpc = "scan" /\ qpc' = "done" /\ UNCHANGED <<query, quiet>>
    BY DEF ScanVector
  <1>2. /\ Answering /\ query \in Queries /\ result \in Results(query) /\ found \in Buffers
        /\ ArrivedOnce
    BY <1>1 DEF Answering, AnswerInv, OrderInv
  <1>3. PICK q \in Queries : q = query
    BY <1>2
  <1>4. PICK s \in Results(q), b \in Buffers, t \in {result'} : s = result /\ b = found /\ t = result'
    BY <1>2, <1>3
  <1>5. t \in Results(q)
    <2>1. AnswerInv' /\ Answering'
      BY <1>1, AnswerInvStep DEF Answering
    <2> QED
      BY <1>1, <1>3, <1>4, <2>1 DEF AnswerInv
  <1>6. q.key \in Keys /\ Orderly(q.key)'
    BY <1>1, <1>3, QueryTyped
  <1>7. Orderly(q.key)
    BY <1>2, <1>6, OrderlyBefore
  <1>8. \E D \in SUBSET Records : VectorMet(query, result, found, D)
    BY <1>1, <1>2, <1>3, <1>7 DEF CollectInv
  <1>9. PICK D \in SUBSET Records : VectorMet(q, s, b, D)
    BY <1>3, <1>4, <1>8
  <1>10. Met(q, t, D \cup Held(mem[b][q.key]))
    <2>1. Orderly(query.key) /\ VectorMet(query, result, found, D)
      BY <1>3, <1>4, <1>7, <1>9
    <2>2. Met(query, result', D \cup Held(mem[found][query.key]))
      BY <1>2, <2>1, ScanMet
    <2> QED
      BY <1>3, <1>4, <2>2
  <1>11. /\ ppc = "wait" /\ b = active
         /\ owed = UNION {Indexed(g) : g \in {g \in Files : HourOf(q.begin) <= g[1]}}
    BY <1>1, <1>2, <1>3, <1>4 DEF QuietInv
  <1>12. VectorMet(q, s, active, D) /\ Current(q.key) = mem[b][q.key]
    BY <1>9, <1>11 DEF Current
  <1>13. AllMet(q, t, D \cup Held(mem[b][q.key]))
    <2>1. AllMet(q, t, D \cup Held(Current(q.key)))
      BY <1>7, <1>11, <1>12, VectorAllMet
    <2> QED
      BY <1>12, <2>1
  <1>14. D \cup Held(mem[b][q.key]) \in SUBSET Records
    <2>1. mem[b][q.key] \in Seq(Records)
      BY <1>6 DEF LocusInv, TypeOK
    <2> QED
      BY <2>1 DEF Held
  <1> QED
    BY <1>3, <1>4, <1>5, <1>10, <1>13, <1>14

(* a query step leaves what is expected of it as it was *)
LEMMA AllMetKept ==
  ASSUME UNCHANGED <<arrived, lost, pressed, locus, index>>, NEW q, NEW s, NEW D, AllMet(q, s, D)
  PROVE  AllMet(q, s, D)'
  <1>1. \A f : Indexed(f)' = Indexed(f)
    BY DEF Indexed, Held
  <1>2. Unreadable(q)' = Unreadable(q)
    BY <1>1 DEF Unreadable, HourOf
  <1>3. \A x : Chosen(q, x)' <=> Chosen(q, x)
    BY <1>2 DEF Chosen, InRange
  <1>4. /\ Held(arrived[q.key])' = Held(arrived[q.key])
        /\ \A x, y : Before(q.key, y, x)' <=> Before(q.key, y, x)
    BY DEF Held, Before
  <1> QED
    BY <1>2, <1>3, <1>4 DEF AllMet

(* MetAnswers, of whatever state *)
Answers ==
  ArrivedOnce =>
    \A q \in Queries : \A s \in Results(q), D \in SUBSET Records :
      Orderly(q.key) /\ Met(q, s, D) /\ AllMet(q, s, D) => Answered(q, s)

LEMMA AnswersHold == Answers
  BY MetAnswers DEF Answers

LEMMA QuietStep ==
  ASSUME LocusInv, AnswerInv, OrderInv, CollectInv, QuietInv, [Next]_vars,
         qpc # "done", qpc' = "done", quiet', Orderly(query.key)'
  PROVE  Recs' = Page(query, Expected(query))'
  <1>1. ReadHour \/ FindVector \/ ScanVector
    <2>1. CASE ChildStep \/ EndPass \/ UNCHANGED vars
      <3>1. qpc' = qpc
        BY <2>1 DEF ChildStep, NextKey, OpenSegment, OpenFails, WriteBase, WriteDelta, PressRecord,
           FinishKey, EndPass, reader, vars
      <3> QED
        BY <3>1
    <2>2. CASE (\E r \in Records : Store(r)) \/ BeginPass \/ (\E q \in Queries : StartQuery(q)) \/ Kill
      BY <2>2 DEF Store, BeginPass, StartQuery, Kill
    <2> QED
      BY <2>1, <2>2 DEF Next, QueryStep
  <1>2. \E q \in Queries : \E t \in Results(q), D \in SUBSET Records :
          q = query /\ t = result' /\ Met(q, t, D) /\ AllMet(q, t, D)
    BY <1>1, HourAnswers, FindAnswers, ScanAnswers
  <1>3. PICK q \in Queries : \E t \in Results(q), D \in SUBSET Records :
          q = query /\ t = result' /\ Met(q, t, D) /\ AllMet(q, t, D)
    BY <1>2
  <1>4. PICK t \in Results(q), D \in SUBSET Records :
          q = query /\ t = result' /\ Met(q, t, D) /\ AllMet(q, t, D)
    BY <1>3
  <1>5. UNCHANGED <<query, arrived, lost, pressed, locus, index>>
    BY <1>1 DEF ReadHour, FindVector, ScanVector, files, history
  <1>6. ArrivedOnce /\ ArrivedOnce'
    BY ArrivedNext DEF OrderInv
  <1>7. Met(q, t, D)' /\ AllMet(q, t, D)'
    BY <1>4, <1>5, <1>6, MetKept, AllMetKept
  <1>8. Orderly(q.key)' /\ t \in Results(q)'
    <2>1. Results(q)' = Results(q)
      BY DEF Results, RowsInRange, SoundRows, InRange
    <2> QED
      BY <1>4, <1>5, <2>1
  <1>9. Answers'
    BY AnswersHold, PTL
  <1>10. Answered(q, t)'
    BY <1>6, <1>7, <1>8, <1>9 DEF Answers
  <1> QED
    BY <1>4, <1>5, <1>10 DEF Answered, Recs

(* A query that no pass overlaps answers its page of exactly the records    *)
(* stored by then, across segments, hours, files and memory                 *)
(* (query_his_locus with its end flag and page counts).                     *)
THEOREM QuietAnswered == Spec /\ []VectorsFit => QuietAnswer
  <1>1. LocusInv /\ AnswerInv /\ OrderInv /\ CollectInv /\ QuietInv /\ [Next]_vars
          => [qpc # "done" /\ qpc' = "done" /\ quiet' /\ Orderly(query.key)'
                => Recs' = Page(query, Expected(query))']_vars
    BY QuietStep
  <1>2. LocusInv /\ QuietInv /\ [Next]_vars => QuietInv'
    BY QuietNext
  <1>3. Spec => []AnswerInv
    <2>1. Init => AnswerInv
      BY DEF Init, AnswerInv, Answering
    <2>2. LocusInv /\ AnswerInv /\ [Next]_vars => AnswerInv'
      BY AnswerInvStep
    <2> QED
      BY <2>1, <2>2, LocusCorrect, PTL DEF Spec
  <1>4. Spec => []QuietInv
    BY <1>2, QuietInit, LocusCorrect, PTL DEF Spec
  <1> QED
    BY <1>1, <1>3, <1>4, LocusCorrect, RecordsPlaced, AnswersCollected, PTL DEF Spec, QuietAnswer
=============================================================================
