-------------------------- MODULE AroundFileProofs --------------------------
(***************************************************************************)
(* For any devices, records, cells, clock and requests, and any number of  *)
(* files that do not open: a query of an area sees what was filed when it  *)
(* began (FiledIsSeen), and if no record was on its way from the map to a  *)
(* file it answers the newest of what was stored (AroundNewest).           *)
(*                                                                         *)
(* The invariant AroundInv has two parts.  The first is of the writers and *)
(* the child: of a device that sends in the order of time the files and    *)
(* the retired map hold the older records and the current map the newer    *)
(* ones, every line is in a file of its cell and of its hour of the day,   *)
(* and what was stored is in the current map, in a file or still to be     *)
(* filed.  The second is of the query: what was filed is covered by what   *)
(* it reports, or is in an hour or a cell it has still to read.            *)
(*                                                                         *)
(* Nothing is claimed once a record has missed the current map (raced).    *)
(***************************************************************************)
EXTENDS AroundFile, WellFoundedInduction, TLAPS

-----------------------------------------------------------------------------
(* the maps, which hold only what was stored, and are empty before a swap  *)
MapsInv ==
  /\ mem \in [{1, 2} -> [Keys -> Seq(Records)]] /\ active \in {1, 2}
  /\ stored \subseteq Records
  /\ pass \in {"wait", "begun", "moving"}
  /\ \A b \in {1, 2}, k \in Keys : \A i \in DOMAIN mem[b][k] :
       mem[b][k][i] \in stored /\ KeyOf[mem[b][k][i]] = k
  /\ pass = "begun" => \A k \in Keys : Retired[k] = <<>>

(* the child is at a record of a device that it has not finished           *)
ChildInv ==
  /\ visited \subseteq Keys /\ key \in Keys \cup {NoKey} /\ usNum \in Nat /\ fails \in Nat
  /\ IF key = NoKey THEN usNum = 0
     ELSE pass = "moving" /\ key \in Unvisited /\ usNum < Len(Retired[key])
  /\ IF fdAround = NoFile THEN iAChanged = -1
     ELSE /\ fdAround \in Files /\ fdAround[2] = sGeoKeyOld
          /\ fdAround[1] % (DayHours + DayGap) = iAChanged

(* each line is in a file of its cell and of its hour of the day           *)
FilesInv ==
  /\ around \in [Files -> Seq(Records)]
  /\ InFiles \subseteq stored
  /\ \A f \in Files : \A i \in DOMAIN around[f] :
       /\ f[2] = CellOf[around[f][i]]
       /\ f[1] % (DayHours + DayGap) = HourOfDay(TimeOf[around[f][i]])

(* a device that sends in the order of time has the older of its records   *)
(* in the files and the retired map, the newer in the current one          *)
Sorted(v) == \A i, j \in DOMAIN v : i < j => TimeOf[v[i]] <= TimeOf[v[j]]

SentInOrder(k) ==
  /\ \A r \in stored : KeyOf[r] = k => TimeOf[r] <= latest[k]
  /\ \A b \in {1, 2} : Sorted(mem[b][k])
  /\ \A i \in DOMAIN mem[active][k] : \A j \in DOMAIN Retired[k] :
       TimeOf[Retired[k][j]] <= TimeOf[mem[active][k][i]]
  /\ \A i \in DOMAIN mem[active][k] : \A r \in InFiles :
       KeyOf[r] = k => TimeOf[r] <= TimeOf[mem[active][k][i]]

OrderInv ==
  /\ ordered \subseteq Keys /\ latest \in [Keys -> Nat]
  /\ \A k \in ordered : SentInOrder(k)

(* what was stored is in a file, in the current map, or still to be filed  *)
InMap(b, r)  == \E i \in DOMAIN mem[b][KeyOf[r]] : mem[b][KeyOf[r]][i] = r
ToFile(r) ==
  /\ pass = "moving" /\ KeyOf[r] \notin visited
  /\ \E i \in DOMAIN Retired[KeyOf[r]] :
       Retired[KeyOf[r]][i] = r /\ (key = KeyOf[r] => usNum < i)
Conserved ==
  fails = 0 => \A r \in stored : r \in InFiles \/ InMap(active, r) \/ ToFile(r)

(* the variables of the query *)
QueryTyped ==
  /\ qpc \in {"idle", "mem", "files", "done"}
  /\ source \in {1, 2} /\ left \subseteq Keys /\ iCurHour \in Int
  /\ umUnique \in [Keys -> Records \cup {None}]
  /\ fileResult \in [Keys -> Records \cup {None}]
  /\ filed \subseteq InFiles /\ before \subseteq stored
  /\ IF qpc = "idle" THEN query = None /\ umUnique = Nowhere /\ fileResult = Nowhere
     ELSE query \in Requests
  /\ qpc = "mem" => /\ fileResult = Nowhere
                    /\ \A k \in left : umUnique[k] = None
                    /\ quiet => source = active /\ pass # "moving"

(* the device reports no line under a day that is not its own              *)
Clean(k) == \A r \in Records : KeyOf[r] = k => ~Misfiled(r)

Sought(k) == {r \in filed : KeyOf[r] = k /\ Wanted(r)}
Covers(p, r) == p # None /\ TimeOf[r] <= TimeOf[p]

(* what was filed has been reported, or is still to be met: in an hour     *)
(* that the query has not reached, or in a cell it has not read            *)
SeenOrToCome(k) ==
  /\ umUnique[k] # None => \A r \in Sought(k) : Covers(umUnique[k], r)
  /\ qpc = "mem" => \A i \in DOMAIN mem[source][k] : \A r \in Sought(k) :
       TimeOf[r] <= TimeOf[mem[source][k][i]]
  /\ qpc = "files" /\ umUnique[k] = None => \A r \in Sought(k) :
       /\ HourOf(TimeOf[r]) <= iCurHour
       /\ HourOf(TimeOf[r]) = iCurHour => CellOf[r] \in cells \/ Covers(fileResult[k], r)
  /\ qpc = "files" /\ fileResult[k] # None => HourOf(TimeOf[fileResult[k]]) = iCurHour
  /\ qpc = "done" /\ umUnique[k] = None => Sought(k) = {}

(* and what was in the current map: its device is still to be met there    *)
MetInMap(k) ==
  \A r \in before : KeyOf[r] = k /\ Wanted(r) =>
    \/ r \in filed
    \/ qpc = "mem" /\ k \in left /\ InMap(source, r)
    \/ Covers(umUnique[k], r)

SearchInv ==
  qpc # "idle" => \A k \in ordered : Clean(k) =>
    SeenOrToCome(k) /\ (quiet /\ fails = 0 => MetInMap(k))

FilingInv == MapsInv /\ ChildInv /\ FilesInv /\ OrderInv /\ Conserved

AroundInv == ~raced => FilingInv /\ QueryTyped /\ SearchInv

-----------------------------------------------------------------------------
(* Induction over the numbers of a set.                                    *)
LEMMA SetInduction ==
  ASSUME NEW S, 0 \in S, \A n \in Nat : n \in S => n + 1 \in S
  PROVE  \A n \in Nat : n \in S
<1> DEFINE less == OpToRel(<, Nat)
           out  == Nat \ S
<1> SUFFICES ASSUME out # {} PROVE FALSE
  OBVIOUS
<1>1. IsWellFoundedOn(less, Nat)
  BY NatLessThanWellFounded
<1>2. PICK n \in out : \A m \in out : <<m, n>> \notin less
  <2> out \subseteq Nat
    OBVIOUS
  <2> HIDE DEF less, out
  <2> QED
    BY <1>1, WFMin
<1>3. \A m \in out : ~(m < n)
  BY <1>2 DEF OpToRel
<1>4. n \in Nat /\ n # 0
  BY <1>2
<1>5. n - 1 \notin out /\ n - 1 \in Nat
  BY <1>3, <1>4
<1>6. (n - 1) + 1 = n
  BY <1>4
<1> QED
  BY <1>2, <1>5, <1>6

-----------------------------------------------------------------------------
(* Hours: a number tells the hour of the day, and they follow the ticks.   *)
LEMMA Divided ==
  ASSUME NEW n \in Nat, NEW t \in Nat \ {0}
  PROVE  /\ n \div t \in Nat /\ n % t \in 0 .. t - 1 /\ n % t \in Nat
         /\ n = (n \div t) * t + (n % t)
OBVIOUS

LEMMA Quotient ==
  ASSUME NEW n \in Nat, NEW t \in Nat \ {0}, NEW q \in Nat, NEW r \in 0 .. t - 1, n = q * t + r
  PROVE  n \div t = q /\ n % t = r
<1>1. n \div t \in Nat /\ n = (n \div t) * t + (n % t) /\ n % t \in 0 .. t - 1
  OBVIOUS
<1>2. PICK p \in Nat, s \in 0 .. t - 1 : p = n \div t /\ s = n % t /\ n = p * t + s
  BY <1>1
<1>3. ~(p < q)
  <2> SUFFICES ASSUME p < q PROVE FALSE
    OBVIOUS
  <2>1. p * t + t <= q * t /\ p * t \in Nat /\ q * t \in Nat
    OBVIOUS
  <2> QED
    BY <1>2, <2>1
<1>4. ~(q < p)
  <2> SUFFICES ASSUME q < p PROVE FALSE
    OBVIOUS
  <2>1. q * t + t <= p * t /\ p * t \in Nat /\ q * t \in Nat
    OBVIOUS
  <2> QED
    BY <1>2, <2>1
<1>5. p = q /\ q * t \in Nat
  BY <1>3, <1>4
<1> QED
  BY <1>2, <1>5

LEMMA QuotientGrows ==
  ASSUME NEW t \in Nat \ {0}, NEW m \in Nat, NEW n \in Nat, m <= n
  PROVE  m \div t <= n \div t
<1>1. PICK p \in Nat, s \in 0 .. t - 1 : p = m \div t /\ m = p * t + s
  BY Divided
<1>2. PICK q \in Nat, r \in 0 .. t - 1 : q = n \div t /\ n = q * t + r
  BY Divided
<1>3. ~(q < p)
  <2> SUFFICES ASSUME q < p PROVE FALSE
    OBVIOUS
  <2>1. q * t + t <= p * t /\ p * t \in Nat /\ q * t \in Nat
    OBVIOUS
  <2> QED
    BY <1>1, <1>2, <2>1
<1> QED
  BY <1>1, <1>2, <1>3

LEMMA HourIs ==
  ASSUME NEW t \in Nat
  PROVE  /\ Day(t) \in Nat /\ HourOfDay(t) \in 0 .. DayHours - 1 /\ HourOf(t) \in Nat
         /\ HourOf(t) % (DayHours + DayGap) = HourOfDay(t)
         /\ HourOf(t) = (t \div HourTicks) + Day(t) * DayGap
<1>0. HourTicks \in Nat \ {0} /\ DayHours \in Nat \ {0} /\ DayGap \in Nat
  BY AroundAssumption
<1>1. PICK e \in Nat, s \in 0 .. HourTicks - 1 : e = t \div HourTicks /\ t = e * HourTicks + s
  BY <1>0, Divided
<1>2. PICK d \in Nat, h \in 0 .. DayHours - 1 :
        d = e \div DayHours /\ h = e % DayHours /\ e = d * DayHours + h
  BY <1>0, Divided
<1>3. HourOfDay(t) = h
  BY <1>1, <1>2 DEF HourOfDay
<1>4. Day(t) = d
  <2>1. HourTicks * DayHours \in Nat \ {0}
    BY <1>0
  <2>2. t = d * (HourTicks * DayHours) + (h * HourTicks + s)
    <3>1. e * HourTicks = (d * DayHours + h) * HourTicks
      BY <1>2
    <3>2. (d * DayHours + h) * HourTicks = d * (HourTicks * DayHours) + h * HourTicks
      BY <1>0
    <3>3. d * (HourTicks * DayHours) \in Nat /\ h * HourTicks \in Nat /\ e * HourTicks \in Nat
      BY <1>0
    <3> QED
      BY <1>0, <1>1, <3>1, <3>2, <3>3
  <2>3. h * HourTicks + s \in 0 .. HourTicks * DayHours - 1
    <3>1. (h + 1) * HourTicks <= DayHours * HourTicks
      <4> h + 1 \in Nat /\ h + 1 <= DayHours
        BY <1>0
      <4> QED
        BY <1>0
    <3>2. (h + 1) * HourTicks = h * HourTicks + HourTicks /\ DayHours * HourTicks = HourTicks * DayHours
      BY <1>0
    <3>3. h * HourTicks \in Nat /\ HourTicks * DayHours \in Nat
      BY <1>0
    <3> QED
      BY <1>0, <3>1, <3>2, <3>3
  <2>4. t \div (HourTicks * DayHours) = d
    BY <2>1, <2>2, <2>3, Quotient
  <2> QED
    BY <2>4 DEF Day
<1>5. HourOf(t) = d * (DayHours + DayGap) + h
  BY <1>3, <1>4 DEF HourOf
<1>6. d * (DayHours + DayGap) \in Nat /\ DayHours + DayGap \in Nat \ {0}
      /\ h \in 0 .. (DayHours + DayGap) - 1
  BY <1>0
<1>7. HourOf(t) \in Nat
  BY <1>5, <1>6
<1>8. HourOf(t) % (DayHours + DayGap) = h
  BY <1>5, <1>6, <1>7, Quotient
<1>9. HourOf(t) = e + d * DayGap
  <2>1. d * (DayHours + DayGap) = d * DayHours + d * DayGap
    BY <1>0
  <2>2. PICK x \in Nat, y \in Nat : x = d * DayHours /\ y = d * DayGap
    BY <1>0
  <2>3. HourOf(t) = (x + y) + h /\ e = x + h
    BY <1>2, <1>5, <2>1, <2>2
  <2>4. HourOf(t) = e + y
    BY <2>2, <2>3
  <2> QED
    BY <2>2, <2>4
<1> QED
  BY <1>1, <1>3, <1>4, <1>7, <1>8, <1>9

LEMMA HoursGrow ==
  ASSUME NEW t \in Nat, NEW u \in Nat, t <= u
  PROVE  HourOf(t) <= HourOf(u)
<1>0. HourTicks \in Nat \ {0} /\ DayHours \in Nat \ {0} /\ DayGap \in Nat
      /\ HourTicks * DayHours \in Nat \ {0}
  BY AroundAssumption
<1>1. PICK d \in Nat, e \in Nat, c \in Nat, f \in Nat :
        /\ d = Day(t) /\ e = Day(u) /\ c = t \div HourTicks /\ f = u \div HourTicks
  BY <1>0, Divided, HourIs
<1>2. d <= e /\ c <= f
  BY <1>0, <1>1, QuotientGrows DEF Day
<1>3. d * DayGap <= e * DayGap /\ d * DayGap \in Nat /\ e * DayGap \in Nat
  BY <1>0, <1>2
<1>4. HourOf(t) = c + d * DayGap /\ HourOf(u) = f + e * DayGap
  BY <1>1, HourIs
<1> QED
  BY <1>2, <1>3, <1>4

-----------------------------------------------------------------------------
(* The files, and the record a device is reported by.                      *)
(* of the cell of a record and of its hour of the day                      *)
Fits(f, r) == f[2] = CellOf[r] /\ f[1] % (DayHours + DayGap) = HourOfDay(TimeOf[r])

LEMMA FileIs ==
  ASSUME NEW r \in Records
  PROVE  /\ FileOf(r) \in Files /\ Fits(FileOf(r), r) /\ HourOfDay(TimeOf[r]) \in Nat
         /\ FileOf(r)[1] = HourOf(TimeOf[r]) /\ TimeOf[r] \in Nat /\ KeyOf[r] \in Keys
<1>1. TimeOf[r] \in Nat /\ KeyOf[r] \in Keys
  BY AroundAssumption
<1>2. HourOf(TimeOf[r]) % (DayHours + DayGap) = HourOfDay(TimeOf[r])
      /\ HourOfDay(TimeOf[r]) \in 0 .. DayHours - 1
  BY <1>1, HourIs
<1> QED
  BY <1>1, <1>2, AroundAssumption DEF FileOf, Fits, Files

LEMMA NoFileIsNone == NoFile \notin Files
<1>1. \A r \in Records : HourOf(TimeOf[r]) \in Nat
  BY HourIs, FileIs
<1> QED
  BY <1>1 DEF NoFile, Files, FileOf

LEMMA Greatest ==
  ASSUME NEW n \in Nat, NEW S \in SUBSET (1 .. n), S # {}
  PROVE  \E m \in S : \A j \in S : j <= m
<1> DEFINE N == {k \in Nat : (\E i \in S : i >= n - k) => \E m \in S : \A j \in S : j <= m}
<1>1. 0 \in N
  OBVIOUS
<1>2. ASSUME NEW k \in Nat, k \in N PROVE k + 1 \in N
  <2> SUFFICES ASSUME NEW i \in S, i >= n - (k + 1) PROVE \E m \in S : \A j \in S : j <= m
    OBVIOUS
  <2>1. CASE \E j \in S : j >= n - k
    BY <1>2, <2>1
  <2>2. CASE ~ \E j \in S : j >= n - k
    <3>1. \A j \in S : j <= i
      BY <2>2
    <3> QED
      BY <3>1
  <2> QED
    BY <2>1, <2>2
<1> HIDE DEF N
<1>3. \A k \in Nat : k \in N
  BY <1>1, <1>2, SetInduction
<1>4. n \in N
  BY <1>3
<1>5. \E i \in S : i >= n - n
  <2>1. \A i \in S : i \in Nat /\ i >= 0
    OBVIOUS
  <2>2. n - n = 0
    OBVIOUS
  <2> QED
    BY <2>1, <2>2
<1> QED
  BY <1>4, <1>5 DEF N

(* the last record wanted of a vector in the order of time                 *)
LEMMA LastIs ==
  ASSUME NEW v \in Seq(Records), LastWanted(v) # None
  PROVE  \E i \in DOMAIN v : LastWanted(v) = v[i] /\ Wanted(v[i])
<1>1. Candidates(v) # {}
  BY DEF LastWanted
<1>2. LastWanted(v) = v[CHOOSE i \in Candidates(v) : \A j \in Candidates(v) : j <= i]
  BY <1>1 DEF LastWanted
<1>3. Candidates(v) \in SUBSET (1 .. Len(v)) /\ Len(v) \in Nat
  BY DEF Candidates
<1>4. \E m \in Candidates(v) : \A j \in Candidates(v) : j <= m
  BY <1>1, <1>3, Greatest
<1>5. PICK m \in Candidates(v) : LastWanted(v) = v[m]
  BY <1>2, <1>4
<1> QED
  BY <1>5 DEF Candidates

LEMMA LastCovers ==
  ASSUME query \in Requests,
         NEW v \in Seq(Records), Sorted(v), NEW i \in DOMAIN v, Wanted(v[i])
  PROVE  Covers(LastWanted(v), v[i])
<1>0. /\ \A r \in Records : TimeOf[r] \in Nat
      /\ query.begin \in Nat /\ None \notin Records
  BY AroundAssumption
<1>1. DOMAIN v = 1 .. Len(v) /\ Len(v) \in Nat /\ \A j \in DOMAIN v : v[j] \in Records
  OBVIOUS
<1>2. i \in Candidates(v)
  <2>1. query.begin <= TimeOf[v[i]]
    BY DEF Wanted, InPeriod
  <2>2. ASSUME NEW j \in i .. Len(v) PROVE TimeOf[v[j]] >= query.begin
    <3>1. j \in DOMAIN v /\ i <= j
      BY <1>1
    <3>2. TimeOf[v[i]] <= TimeOf[v[j]]
      BY <1>0, <1>1, <3>1 DEF Sorted
    <3> QED
      BY <1>0, <1>1, <2>1, <3>1, <3>2
  <2> QED
    BY <2>2 DEF Candidates
<1>3. Candidates(v) \in SUBSET (1 .. Len(v)) /\ Candidates(v) # {}
  BY <1>1, <1>2 DEF Candidates
<1>4. \E m \in Candidates(v) : \A j \in Candidates(v) : j <= m
  BY <1>1, <1>3, Greatest
<1>5. PICK m \in Candidates(v) : LastWanted(v) = v[m] /\ \A j \in Candidates(v) : j <= m
  BY <1>3, <1>4 DEF LastWanted
<1>6. m \in DOMAIN v /\ i <= m
  BY <1>1, <1>2, <1>3, <1>5
<1>7. TimeOf[v[i]] <= TimeOf[v[m]]
  BY <1>0, <1>1, <1>6 DEF Sorted
<1> QED
  BY <1>0, <1>1, <1>5, <1>6, <1>7 DEF Covers

-----------------------------------------------------------------------------
(* Reading a file: the lines are taken one by one.  W are those that count *)
(* at all: wanted, of a device that has no record reported.                *)
Answers == [Keys -> Records \cup {None}]
TakeLine(W, g, r) == IF r \in W /\ Newer(r, g[KeyOf[r]]) THEN [g EXCEPT ![KeyOf[r]] = r] ELSE g
Reading(t, W, g, v, m) ==
  t = [n \in 0 .. m |-> IF n = 0 THEN g ELSE TakeLine(W, t[n - 1], v[n])]

LEMMA LineTaken ==
  ASSUME NEW W \in SUBSET Records, NEW g \in Answers, NEW r \in Records
  PROVE  /\ TakeLine(W, g, r) \in Answers
         /\ \A k \in Keys : TakeLine(W, g, r)[k] \in {g[k], r}
         /\ \A k \in Keys : TakeLine(W, g, r)[k] # g[k] => KeyOf[r] = k
         /\ \A s \in Records : \A k \in Keys : Covers(g[k], s) => Covers(TakeLine(W, g, r)[k], s)
         /\ r \in W => Covers(TakeLine(W, g, r)[KeyOf[r]], r)
<1>0. KeyOf[r] \in Keys /\ None \notin Records /\ \A s \in Records : TimeOf[s] \in Nat
  BY AroundAssumption
<1>1. CASE r \in W /\ Newer(r, g[KeyOf[r]])
  <2>1. TakeLine(W, g, r) = [g EXCEPT ![KeyOf[r]] = r]
    BY <1>1 DEF TakeLine
  <2>2. /\ TakeLine(W, g, r) \in Answers
        /\ TakeLine(W, g, r)[KeyOf[r]] = r
        /\ \A k \in Keys : k # KeyOf[r] => TakeLine(W, g, r)[k] = g[k]
    BY <1>0, <2>1 DEF Answers
  <2>3. g[KeyOf[r]] \in Records \cup {None}
    BY <1>0 DEF Answers
  <2>4. ASSUME NEW s \in Records, Covers(g[KeyOf[r]], s) PROVE Covers(r, s)
    <3>1. g[KeyOf[r]] # None /\ TimeOf[s] <= TimeOf[g[KeyOf[r]]]
      BY <2>4 DEF Covers
    <3>2. TimeOf[r] >= TimeOf[g[KeyOf[r]]]
      BY <1>1, <3>1 DEF Newer
    <3> QED
      BY <1>0, <2>3, <3>1, <3>2 DEF Covers
  <2>5. Covers(r, r)
    BY <1>0 DEF Covers
  <2> QED
    BY <1>0, <2>2, <2>4, <2>5
<1>2. CASE ~(r \in W /\ Newer(r, g[KeyOf[r]]))
  <2>1. TakeLine(W, g, r) = g
    BY <1>2 DEF TakeLine
  <2>2. r \in W => Covers(g[KeyOf[r]], r)
    <3> SUFFICES ASSUME r \in W PROVE Covers(g[KeyOf[r]], r)
      OBVIOUS
    <3>1. g[KeyOf[r]] # None /\ ~(TimeOf[r] >= TimeOf[g[KeyOf[r]]])
      BY <1>2 DEF Newer
    <3>2. g[KeyOf[r]] \in Records
      BY <1>0, <3>1 DEF Answers
    <3> QED
      BY <1>0, <3>1, <3>2 DEF Covers
  <2> QED
    BY <2>1, <2>2
<1> QED
  BY <1>1, <1>2

LEMMA ReadingExists ==
  ASSUME NEW W, NEW g, NEW v, NEW m \in Nat
  PROVE  \E t : Reading(t, W, g, v, m)
<1> DEFINE N == {n \in Nat : \E t : Reading(t, W, g, v, n)}
<1>1. 0 \in N
  <2>1. 0 .. 0 = {0}
    OBVIOUS
  <2>2. Reading([n \in 0 .. 0 |-> g], W, g, v, 0)
    BY <2>1 DEF Reading
  <2> QED
    BY <2>2
<1>2. ASSUME NEW n \in Nat, n \in N PROVE n + 1 \in N
  <2>1. PICK t : Reading(t, W, g, v, n)
    BY <1>2
  <2> DEFINE u == [i \in 0 .. n + 1 |-> IF i \in 0 .. n THEN t[i] ELSE TakeLine(W, t[n], v[n + 1])]
  <2>2. \A i \in 0 .. n : t[i] = IF i = 0 THEN g ELSE TakeLine(W, t[i - 1], v[i])
    BY <2>1 DEF Reading
  <2>3. ASSUME NEW i \in 0 .. n + 1
        PROVE  u[i] = IF i = 0 THEN g ELSE TakeLine(W, u[i - 1], v[i])
    <3>1. CASE i = 0
      BY <2>2, <3>1
    <3>2. CASE i # 0 /\ i \in 0 .. n
      <4>1. i - 1 \in 0 .. n /\ i - 1 \in 0 .. n + 1
        BY <3>2
      <4>2. u[i - 1] = t[i - 1] /\ u[i] = t[i]
        BY <3>2, <4>1
      <4> QED
        BY <2>2, <3>2, <4>2
    <3>3. CASE i \notin 0 .. n
      <4>1. i = n + 1 /\ n \in 0 .. n /\ n \in 0 .. n + 1 /\ i - 1 = n /\ i # 0
        BY <3>3
      <4>2. u[i - 1] = t[n] /\ u[i] = TakeLine(W, t[n], v[n + 1])
        BY <3>3, <4>1
      <4> QED
        BY <4>1, <4>2
    <3> QED
      BY <3>1, <3>2, <3>3
  <2>4. u = [i \in 0 .. n + 1 |-> u[i]]
    OBVIOUS
  <2> HIDE DEF u
  <2>5. u = [i \in 0 .. n + 1 |-> IF i = 0 THEN g ELSE TakeLine(W, u[i - 1], v[i])]
    BY <2>3, <2>4
  <2>6. Reading(u, W, g, v, n + 1)
    BY <2>5 DEF Reading
  <2> QED
    BY <2>6
<1> HIDE DEF N
<1>3. \A n \in Nat : n \in N
  BY <1>1, <1>2, SetInduction
<1> QED
  BY <1>3 DEF N

(* after n lines a device has what it had, or one of them                  *)
ReadSoFar(x, W, g, v, n) ==
  /\ x \in Answers
  /\ \A k \in Keys : x[k] = g[k] \/ \E i \in 1 .. n : v[i] = x[k] /\ KeyOf[v[i]] = k
  /\ \A s \in Records, k \in Keys : Covers(g[k], s) => Covers(x[k], s)
  /\ \A i \in 1 .. n : v[i] \in W => Covers(x[KeyOf[v[i]]], v[i])

LEMMA ReadingIs ==
  ASSUME NEW W \in SUBSET Records, NEW g \in Answers, NEW v \in Seq(Records), NEW t,
         Reading(t, W, g, v, Len(v))
  PROVE  ReadSoFar(t[Len(v)], W, g, v, Len(v))
<1> DEFINE N == {n \in Nat : n <= Len(v) => ReadSoFar(t[n], W, g, v, n)}
<1>0. Len(v) \in Nat /\ \A i \in 1 .. Len(v) : v[i] \in Records /\ KeyOf[v[i]] \in Keys
  BY AroundAssumption
<1>1. \A n \in 0 .. Len(v) : t[n] = IF n = 0 THEN g ELSE TakeLine(W, t[n - 1], v[n])
  BY DEF Reading
<1>2. 0 \in N
  <2>1. t[0] = g
    BY <1>0, <1>1
  <2>2. 1 .. 0 = {}
    OBVIOUS
  <2> QED
    BY <2>1, <2>2 DEF ReadSoFar
<1>3. ASSUME NEW n \in Nat, n \in N PROVE n + 1 \in N
  <2> SUFFICES ASSUME n + 1 <= Len(v) PROVE ReadSoFar(t[n + 1], W, g, v, n + 1)
    OBVIOUS
  <2>1. n + 1 \in 0 .. Len(v) /\ n + 1 # 0 /\ (n + 1) - 1 = n /\ n + 1 \in 1 .. Len(v)
        /\ n <= Len(v)
    BY <1>0
  <2>2. t[n + 1] = TakeLine(W, t[n], v[n + 1])
    BY <1>1, <2>1
  <2>3. ReadSoFar(t[n], W, g, v, n)
    BY <1>3, <2>1
  <2>4. PICK x \in Answers, r \in Records : x = t[n] /\ r = v[n + 1]
    BY <1>0, <2>1, <2>3 DEF ReadSoFar
  <2>5. PICK y : y = TakeLine(W, x, r)
    OBVIOUS
  <2>6. /\ x \in Answers
        /\ \A k \in Keys : x[k] = g[k] \/ \E i \in 1 .. n : v[i] = x[k] /\ KeyOf[v[i]] = k
        /\ \A s \in Records, k \in Keys : Covers(g[k], s) => Covers(x[k], s)
        /\ \A i \in 1 .. n : v[i] \in W => Covers(x[KeyOf[v[i]]], v[i])
    BY <2>3, <2>4 DEF ReadSoFar
  <2>7. /\ y \in Answers
        /\ \A k \in Keys : y[k] \in {x[k], r}
        /\ \A k \in Keys : y[k] # x[k] => KeyOf[r] = k
        /\ \A s \in Records : \A k \in Keys : Covers(x[k], s) => Covers(y[k], s)
        /\ r \in W => Covers(y[KeyOf[r]], r)
    <3>1. x \in Answers
      BY <2>6
    <3>2. /\ TakeLine(W, x, r) \in Answers
          /\ \A k \in Keys : TakeLine(W, x, r)[k] \in {x[k], r}
          /\ \A k \in Keys : TakeLine(W, x, r)[k] # x[k] => KeyOf[r] = k
          /\ \A s \in Records : \A k \in Keys : Covers(x[k], s) => Covers(TakeLine(W, x, r)[k], s)
          /\ r \in W => Covers(TakeLine(W, x, r)[KeyOf[r]], r)
      BY <3>1, LineTaken
    <3> QED
      BY <2>5, <3>2
  <2>8. 1 .. n + 1 = 1 .. n \cup {n + 1} /\ 1 .. n \subseteq 1 .. Len(v)
    BY <2>1
  <2>9. ASSUME NEW k \in Keys
        PROVE  y[k] = g[k] \/ \E i \in 1 .. n + 1 : v[i] = y[k] /\ KeyOf[v[i]] = k
    <3>1. CASE y[k] = x[k]
      BY <2>6, <2>8, <3>1
    <3>2. CASE y[k] # x[k]
      BY <2>4, <2>7, <2>8, <3>2
    <3> QED
      BY <3>1, <3>2
  <2>10. ASSUME NEW i \in 1 .. n + 1, v[i] \in W PROVE Covers(y[KeyOf[v[i]]], v[i])
    <3>1. CASE i = n + 1
      BY <2>4, <2>7, <2>10, <3>1
    <3>2. CASE i \in 1 .. n
      <4>1. Covers(x[KeyOf[v[i]]], v[i])
        BY <2>6, <2>10, <3>2
      <4>2. v[i] \in Records /\ KeyOf[v[i]] \in Keys
        BY <1>0, <2>8, <3>2
      <4> QED
        BY <2>7, <4>1, <4>2
    <3> QED
      BY <2>8, <3>1, <3>2
  <2>11. \A s \in Records, k \in Keys : Covers(g[k], s) => Covers(y[k], s)
    BY <2>6, <2>7
  <2>12. ReadSoFar(y, W, g, v, n + 1)
    BY <2>7, <2>9, <2>10, <2>11 DEF ReadSoFar
  <2> QED
    BY <2>2, <2>4, <2>5, <2>12
<1> HIDE DEF N
<1>4. \A n \in Nat : n \in N
  BY <1>2, <1>3, SetInduction
<1>5. Len(v) \in N /\ Len(v) <= Len(v)
  BY <1>0, <1>4
<1> QED
  BY <1>5 DEF N

Afters(f) ==
  LET After[n \in 0 .. Len(around[f])] ==
        IF n = 0 THEN fileResult
        ELSE LET r == around[f][n]
                 k == KeyOf[r]
             IN  IF Wanted(r) /\ umUnique[k] = None /\ Newer(r, After[n - 1][k])
                 THEN [After[n - 1] EXCEPT ![k] = r] ELSE After[n - 1]
  IN  After
Counting == {r \in Records : Wanted(r) /\ umUnique[KeyOf[r]] = None}

LEMMA TakenIs ==
  ASSUME NEW f \in Files, around[f] \in Seq(Records), fileResult \in Answers
  PROVE  ReadSoFar(Taken(f), Counting, fileResult, around[f], Len(around[f]))
<1>1. Taken(f) = Afters(f)[Len(around[f])]
  BY DEF Taken, Afters
<1>2. PICK t : Reading(t, Counting, fileResult, around[f], Len(around[f]))
  <2> Len(around[f]) \in Nat
    OBVIOUS
  <2> QED
    BY ReadingExists
<1>3. ASSUME NEW u, NEW n \in 0 .. Len(around[f])
      PROVE  (IF n = 0 THEN fileResult ELSE TakeLine(Counting, u[n - 1], around[f][n]))
             = IF n = 0 THEN fileResult
               ELSE LET r == around[f][n]
                        k == KeyOf[r]
                    IN  IF Wanted(r) /\ umUnique[k] = None /\ Newer(r, u[n - 1][k])
                        THEN [u[n - 1] EXCEPT ![k] = r] ELSE u[n - 1]
  <2>1. CASE n = 0
    BY <2>1
  <2>2. CASE n # 0
    <3>1. n \in 1 .. Len(around[f])
      BY <2>2
    <3>2. around[f][n] \in Records
      BY <3>1
    <3>3. PICK r \in Records : r = around[f][n]
      BY <3>2
    <3>4. r \in Counting <=> Wanted(r) /\ umUnique[KeyOf[r]] = None
      BY DEF Counting
    <3>5. TakeLine(Counting, u[n - 1], r)
          = IF Wanted(r) /\ umUnique[KeyOf[r]] = None /\ Newer(r, u[n - 1][KeyOf[r]])
            THEN [u[n - 1] EXCEPT ![KeyOf[r]] = r] ELSE u[n - 1]
      BY <3>4 DEF TakeLine
    <3> QED
      BY <2>2, <3>3, <3>5
  <2> QED
    BY <2>1, <2>2
<1>4. t = [n \in 0 .. Len(around[f]) |->
             IF n = 0 THEN fileResult
             ELSE LET r == around[f][n]
                      k == KeyOf[r]
                  IN  IF Wanted(r) /\ umUnique[k] = None /\ Newer(r, t[n - 1][k])
                      THEN [t[n - 1] EXCEPT ![k] = r] ELSE t[n - 1]]
  BY <1>2, <1>3 DEF Reading
<1>5. Afters(f) = [n \in 0 .. Len(around[f]) |->
             IF n = 0 THEN fileResult
             ELSE LET r == around[f][n]
                      k == KeyOf[r]
                  IN  IF Wanted(r) /\ umUnique[k] = None /\ Newer(r, Afters(f)[n - 1][k])
                      THEN [Afters(f)[n - 1] EXCEPT ![k] = r] ELSE Afters(f)[n - 1]]
  BY <1>4, Zenon DEF Afters
<1>6. PICK a : a = Afters(f)
  OBVIOUS
<1>7. a = [n \in 0 .. Len(around[f]) |->
             IF n = 0 THEN fileResult
             ELSE LET r == around[f][n]
                      k == KeyOf[r]
                  IN  IF Wanted(r) /\ umUnique[k] = None /\ Newer(r, a[n - 1][k])
                      THEN [a[n - 1] EXCEPT ![k] = r] ELSE a[n - 1]]
  BY <1>5, <1>6, Zenon
<1>8. Reading(a, Counting, fileResult, around[f], Len(around[f]))
  BY <1>3, <1>7 DEF Reading
<1>9. Counting \in SUBSET Records
  BY DEF Counting
<1>10. ReadSoFar(a[Len(around[f])], Counting, fileResult, around[f], Len(around[f]))
  BY <1>8, <1>9, ReadingIs
<1> QED
  BY <1>1, <1>6, <1>10

-----------------------------------------------------------------------------
(* The writers and the steps of a pass.                                    *)
LEMMA Maps ==
  ASSUME MapsInv
  PROVE  /\ active \in {1, 2} /\ Other(active) \in {1, 2} /\ Other(active) # active
         /\ Other(Other(active)) = active
         /\ \A b \in {1, 2} : b = active \/ b = Other(active)
         /\ \A b \in {1, 2}, k \in Keys :
              /\ mem[b][k] \in Seq(Records) /\ Len(mem[b][k]) \in Nat
              /\ DOMAIN mem[b][k] = 1 .. Len(mem[b][k])
              /\ \A i \in DOMAIN mem[b][k] : /\ mem[b][k][i] \in Records
                                             /\ mem[b][k][i] \in stored
                                             /\ KeyOf[mem[b][k][i]] = k
BY DEF MapsInv, Other

LEMMA StoredIs ==
  ASSUME MapsInv, NEW r \in Records, Store(r), ~raced'
  PROVE  /\ mem' \in [{1, 2} -> [Keys -> Seq(Records)]]
         /\ stored' = stored \cup {r} /\ active' = active /\ pass' = pass
         /\ KeyOf[r] \in Keys
         /\ mem'[active][KeyOf[r]] = Append(mem[active][KeyOf[r]], r)
         /\ \A k \in Keys : k # KeyOf[r] => mem'[active][k] = mem[active][k]
         /\ mem'[Other(active)] = mem[Other(active)]
<1>1. KeyOf[r] \in Keys
  BY AroundAssumption
<1>2. mem' = [mem EXCEPT ![active][KeyOf[r]] = Append(@, r)]
  BY DEF Store, With
<1>3. mem \in [{1, 2} -> [Keys -> Seq(Records)]] /\ active \in {1, 2} /\ Other(active) # active
      /\ Other(active) \in {1, 2}
  BY Maps DEF MapsInv
<1>4. Append(mem[active][KeyOf[r]], r) \in Seq(Records)
  BY <1>1, <1>3
<1>5. /\ mem' \in [{1, 2} -> [Keys -> Seq(Records)]]
      /\ mem'[active][KeyOf[r]] = Append(mem[active][KeyOf[r]], r)
      /\ \A k \in Keys : k # KeyOf[r] => mem'[active][k] = mem[active][k]
      /\ mem'[Other(active)] = mem[Other(active)]
  BY <1>1, <1>2, <1>3, <1>4
<1> QED
  BY <1>1, <1>5 DEF Store

(* what Append adds to a vector of records                                 *)
LEMMA Added ==
  ASSUME NEW v \in Seq(Records), NEW r \in Records
  PROVE  /\ Len(Append(v, r)) = Len(v) + 1 /\ Len(v) \in Nat
         /\ DOMAIN Append(v, r) = DOMAIN v \cup {Len(v) + 1} /\ DOMAIN v = 1 .. Len(v)
         /\ Append(v, r)[Len(v) + 1] = r
         /\ \A i \in DOMAIN v : Append(v, r)[i] = v[i]
OBVIOUS

LEMMA SortedAppend ==
  ASSUME NEW v \in Seq(Records), NEW r \in Records, Sorted(v),
         \A i \in DOMAIN v : TimeOf[v[i]] <= TimeOf[r]
  PROVE  Sorted(Append(v, r))
<1> SUFFICES ASSUME NEW i \in DOMAIN Append(v, r), NEW j \in DOMAIN Append(v, r), i < j
             PROVE  TimeOf[Append(v, r)[i]] <= TimeOf[Append(v, r)[j]]
  BY DEF Sorted
<1>1. i \in DOMAIN v
  BY Added
<1>2. CASE j \in DOMAIN v
  <2>1. TimeOf[v[i]] <= TimeOf[v[j]]
    BY <1>1, <1>2 DEF Sorted
  <2> QED
    BY <1>1, <1>2, <2>1, Added
<1>3. CASE j \notin DOMAIN v
  <2>1. Append(v, r)[j] = r /\ Append(v, r)[i] = v[i]
    BY <1>1, <1>3, Added
  <2> QED
    BY <1>1, <2>1
<1> QED
  BY <1>2, <1>3

LEMMA SendMaps ==
  ASSUME MapsInv, NEW r \in Records, Store(r), ~raced'
  PROVE  MapsInv'
<1>1. PICK w : w = mem'
  OBVIOUS
<1>2. /\ w \in [{1, 2} -> [Keys -> Seq(Records)]]
      /\ stored' = stored \cup {r} /\ active' = active /\ pass' = pass
      /\ KeyOf[r] \in Keys
      /\ w[active][KeyOf[r]] = Append(mem[active][KeyOf[r]], r)
      /\ \A k \in Keys : k # KeyOf[r] => w[active][k] = mem[active][k]
      /\ w[Other(active)] = mem[Other(active)]
  BY <1>1, StoredIs
<1>3. ASSUME NEW b \in {1, 2}, NEW k \in Keys, NEW i \in DOMAIN w[b][k]
      PROVE  w[b][k][i] \in stored \cup {r} /\ KeyOf[w[b][k][i]] = k
  <2>1. CASE w[b][k] = mem[b][k]
    BY <2>1, Maps
  <2>2. CASE b = active /\ k = KeyOf[r]
    <3>1. mem[b][k] \in Seq(Records) /\ w[b][k] = Append(mem[b][k], r)
      BY <1>2, <2>2, Maps
    <3>2. CASE i \in DOMAIN mem[b][k]
      <4>1. w[b][k][i] = mem[b][k][i]
        BY <3>1, <3>2, Added
      <4> QED
        BY <3>2, <4>1, Maps
    <3>3. CASE i \notin DOMAIN mem[b][k]
      <4>1. w[b][k][i] = r
        BY <3>1, <3>3, Added
      <4> QED
        BY <2>2, <4>1
    <3> QED
      BY <3>2, <3>3
  <2>3. b = active \/ b = Other(active)
    BY Maps
  <2> QED
    BY <1>2, <2>1, <2>2, <2>3
<1>4. stored' \subseteq Records
  BY <1>2 DEF MapsInv
<1>5. pass' = "begun" => \A k \in Keys : w[Other(active)][k] = <<>>
  BY <1>2 DEF MapsInv, Retired
<1>6. active \in {1, 2} /\ pass \in {"wait", "begun", "moving"}
  BY DEF MapsInv
<1>7. Retired' = w[Other(active)]
  BY <1>1, <1>2 DEF Retired, Other
<1> QED
  BY <1>1, <1>2, <1>3, <1>4, <1>5, <1>6, <1>7 DEF MapsInv

LEMMA SameFiles ==
  ASSUME around' = around PROVE InFiles' = InFiles
BY DEF InFiles

LEMMA SendFiling ==
  ASSUME FilingInv, NEW r \in Records, Send(r), ~raced', UNCHANGED <<around, child, fails>>
  PROVE  FilingInv'
<1>0. /\ MapsInv /\ ChildInv /\ FilesInv /\ OrderInv /\ Conserved /\ Store(r)
      /\ around' = around /\ fails' = fails /\ visited' = visited /\ key' = key
      /\ usNum' = usNum /\ iAChanged' = iAChanged /\ sGeoKeyOld' = sGeoKeyOld
      /\ fdAround' = fdAround
  BY DEF FilingInv, Send, child
<1>1. PICK w : w = mem'
  OBVIOUS
<1>2. /\ w \in [{1, 2} -> [Keys -> Seq(Records)]]
      /\ stored' = stored \cup {r} /\ active' = active /\ pass' = pass
      /\ KeyOf[r] \in Keys
      /\ w[active][KeyOf[r]] = Append(mem[active][KeyOf[r]], r)
      /\ \A k \in Keys : k # KeyOf[r] => w[active][k] = mem[active][k]
      /\ w[Other(active)] = mem[Other(active)]
  BY <1>0, <1>1, StoredIs
<1>3. Retired' = Retired /\ Held(Other(active))' = Held(Other(active)) /\ Unvisited' = Unvisited
      /\ Other(active)' = Other(active)
  BY <1>0, <1>1, <1>2 DEF Retired, Other, Held, Unvisited
<1>4. MapsInv'
  BY <1>0, SendMaps
<1>5. ChildInv'
  BY <1>0, <1>2, <1>3 DEF ChildInv
<1>6. InFiles' = InFiles
  BY <1>0, SameFiles
<1>7. FilesInv'
  BY <1>0, <1>2, <1>6 DEF FilesInv
<1>8. OrderInv'
  <2>1. /\ latest' = [latest EXCEPT ![KeyOf[r]] = TimeOf[r]]
        /\ ordered' = IF TimeOf[r] < latest[KeyOf[r]] THEN ordered \ {KeyOf[r]} ELSE ordered
    BY DEF Send
  <2>2. ordered \subseteq Keys /\ latest \in [Keys -> Nat] /\ TimeOf[r] \in Nat
        /\ \A s \in Records : TimeOf[s] \in Nat
    BY <1>0, AroundAssumption DEF OrderInv
  <2>3. ordered' \subseteq ordered /\ latest' \in [Keys -> Nat] /\ latest'[KeyOf[r]] = TimeOf[r]
        /\ \A k \in Keys : k # KeyOf[r] => latest'[k] = latest[k]
    BY <1>2, <2>1, <2>2
  <2>4. ASSUME NEW k \in ordered'
        PROVE /\ \A s \in stored \cup {r} : KeyOf[s] = k => TimeOf[s] <= latest'[k]
              /\ Sorted(w[active][k]) /\ Sorted(w[Other(active)][k])
              /\ \A i \in DOMAIN w[active][k] : \A j \in DOMAIN Retired[k] :
                   TimeOf[Retired[k][j]] <= TimeOf[w[active][k][i]]
              /\ \A i \in DOMAIN w[active][k] : \A s \in InFiles :
                   KeyOf[s] = k => TimeOf[s] <= TimeOf[w[active][k][i]]
    <3>1. k \in Keys /\ k \in ordered /\ SentInOrder(k)
      BY <1>0, <2>2, <2>3 DEF OrderInv
    <3>2. /\ \A s \in stored : KeyOf[s] = k => TimeOf[s] <= latest[k]
          /\ Sorted(mem[active][k]) /\ Sorted(mem[Other(active)][k])
          /\ \A i \in DOMAIN mem[active][k] : \A j \in DOMAIN Retired[k] :
               TimeOf[Retired[k][j]] <= TimeOf[mem[active][k][i]]
          /\ \A i \in DOMAIN mem[active][k] : \A s \in InFiles :
               KeyOf[s] = k => TimeOf[s] <= TimeOf[mem[active][k][i]]
      BY <1>0, <3>1, Maps DEF SentInOrder
    <3>3. CASE k # KeyOf[r]
      <4>1. w[active][k] = mem[active][k] /\ latest'[k] = latest[k]
            /\ w[Other(active)][k] = mem[Other(active)][k]
        BY <1>2, <2>3, <3>1, <3>3
      <4> QED
        BY <3>2, <3>3, <4>1
    <3>4. CASE k = KeyOf[r]
      <4>1. TimeOf[r] >= latest[k] /\ latest[k] \in Nat
        BY <2>1, <2>2, <2>4, <3>1, <3>4
      <4>2. latest'[k] = TimeOf[r]
        BY <2>3, <3>4
      <4>3. ASSUME NEW s \in stored, KeyOf[s] = k PROVE TimeOf[s] <= TimeOf[r]
        <5>1. s \in Records
          BY <1>0 DEF MapsInv
        <5>2. TimeOf[s] <= latest[k]
          BY <3>2, <4>3
        <5> QED
          BY <2>2, <4>1, <5>1, <5>2
      <4>4. PICK v \in Seq(Records) : v = mem[active][k]
        BY <1>0, <3>1, Maps
      <4>5. w[active][k] = Append(v, r)
        BY <1>2, <3>4, <4>4
      <4>6. \A i \in DOMAIN v : TimeOf[v[i]] <= TimeOf[r]
        BY <1>0, <3>1, <4>3, <4>4, Maps
      <4>7. Sorted(Append(v, r))
        BY <3>2, <4>4, <4>6, SortedAppend
      <4>8. \A j \in DOMAIN Retired[k] : TimeOf[Retired[k][j]] <= TimeOf[r]
        BY <1>0, <3>1, <4>3, Maps DEF Retired
      <4>9. \A s \in InFiles : KeyOf[s] = k => TimeOf[s] <= TimeOf[r]
        BY <1>0, <4>3 DEF FilesInv
      <4>10. \A i \in DOMAIN Append(v, r) : \/ i \in DOMAIN v /\ Append(v, r)[i] = v[i]
                                           \/ Append(v, r)[i] = r
        BY Added
      <4>11. \A i \in DOMAIN Append(v, r) : \A j \in DOMAIN Retired[k] :
               TimeOf[Retired[k][j]] <= TimeOf[Append(v, r)[i]]
        BY <3>2, <4>4, <4>8, <4>10
      <4>12. \A i \in DOMAIN Append(v, r) : \A s \in InFiles :
               KeyOf[s] = k => TimeOf[s] <= TimeOf[Append(v, r)[i]]
        BY <3>2, <4>4, <4>9, <4>10
      <4>13. \A s \in stored \cup {r} : KeyOf[s] = k => TimeOf[s] <= TimeOf[r]
        BY <2>2, <4>3
      <4> QED
        BY <1>2, <3>1, <3>2, <4>2, <4>5, <4>7, <4>11, <4>12, <4>13
    <3> QED
      BY <3>3, <3>4
  <2>5. ASSUME NEW k \in ordered' PROVE SentInOrder(k)'
    <3>1. \A b \in {1, 2} : Sorted(w[b][k])
      BY <1>0, <2>4, Maps
    <3> QED
      BY <1>1, <1>2, <1>3, <1>6, <2>4, <3>1 DEF SentInOrder
  <2> QED
    BY <2>2, <2>3, <2>5 DEF OrderInv
<1>9. Conserved'
  <2>1. SUFFICES ASSUME fails = 0, NEW s \in stored \cup {r}
                 PROVE  s \in InFiles \/ InMap(active, s)' \/ ToFile(s)'
    BY <1>0, <1>2, <1>6 DEF Conserved
  <2>2. \A x \in Records : ToFile(x) => ToFile(x)'
    BY <1>0, <1>2, <1>3 DEF ToFile
  <2>3. ASSUME NEW x \in Records, InMap(active, x) PROVE InMap(active, x)'
    <3>1. PICK i \in DOMAIN mem[active][KeyOf[x]] : mem[active][KeyOf[x]][i] = x
      BY <2>3 DEF InMap
    <3>2. KeyOf[x] \in Keys
      BY AroundAssumption
    <3>3. i \in DOMAIN w[active][KeyOf[x]] /\ w[active][KeyOf[x]][i] = x
      <4>1. CASE KeyOf[x] # KeyOf[r]
        BY <1>2, <3>1, <3>2, <4>1
      <4>2. CASE KeyOf[x] = KeyOf[r]
        <5>1. mem[active][KeyOf[x]] \in Seq(Records)
          BY <1>0, <3>2, Maps
        <5>2. PICK v \in Seq(Records) : v = mem[active][KeyOf[x]]
          BY <5>1
        <5>3. w[active][KeyOf[x]] = Append(v, r) /\ i \in DOMAIN v /\ v[i] = x
          BY <1>2, <3>1, <4>2, <5>2
        <5>4. i \in DOMAIN Append(v, r) /\ Append(v, r)[i] = x
          BY <5>3, Added
        <5> QED
          BY <5>3, <5>4
      <4> QED
        BY <4>1, <4>2
    <3> QED
      BY <1>1, <1>2, <3>3 DEF InMap
  <2>4. InMap(active, r)'
    <3>1. mem[active][KeyOf[r]] \in Seq(Records)
      BY <1>0, <1>2, Maps
    <3>2. Len(mem[active][KeyOf[r]]) + 1 \in DOMAIN w[active][KeyOf[r]]
          /\ w[active][KeyOf[r]][Len(mem[active][KeyOf[r]]) + 1] = r
      BY <1>2, <3>1, Added
    <3> QED
      BY <1>1, <1>2, <3>2 DEF InMap
  <2>5. CASE s \in stored
    <3>1. s \in Records
      BY <1>0, <2>5 DEF MapsInv
    <3>2. s \in InFiles \/ InMap(active, s) \/ ToFile(s)
      BY <1>0, <2>1, <2>5 DEF Conserved
    <3> QED
      BY <2>2, <2>3, <3>1, <3>2
  <2> QED
    BY <2>1, <2>4, <2>5
<1> QED
  BY <1>4, <1>5, <1>7, <1>8, <1>9 DEF FilingInv

LEMMA BeginFiling ==
  ASSUME FilingInv, BeginPass, UNCHANGED <<around, child, fails, sent>>
  PROVE  FilingInv'
<1>0. /\ MapsInv /\ ChildInv /\ FilesInv /\ OrderInv /\ Conserved
      /\ around' = around /\ fails' = fails /\ visited' = visited /\ key' = key
      /\ usNum' = usNum /\ iAChanged' = iAChanged /\ sGeoKeyOld' = sGeoKeyOld
      /\ fdAround' = fdAround /\ ordered' = ordered /\ latest' = latest
      /\ pass = "wait" /\ pass' = "begun" /\ active' = active /\ stored' = stored
      /\ mem' = [mem EXCEPT ![Other(active)] = [k \in Keys |-> <<>>]]
  BY DEF FilingInv, BeginPass, child, sent
<1>1. PICK w : w = mem'
  OBVIOUS
<1>2. /\ w \in [{1, 2} -> [Keys -> Seq(Records)]]
      /\ w[active] = mem[active]
      /\ \A k \in Keys : w[Other(active)][k] = <<>>
      /\ Other(active)' = Other(active)
  <2>1. [k \in Keys |-> <<>>] \in [Keys -> Seq(Records)]
    OBVIOUS
  <2>2. mem \in [{1, 2} -> [Keys -> Seq(Records)]]
    BY <1>0 DEF MapsInv
  <2>3. Other(active) \in {1, 2} /\ Other(active) # active /\ active \in {1, 2}
    BY <1>0, Maps
  <2>4. Other(active)' = Other(active)
    BY <1>0 DEF Other
  <2> QED
    BY <1>0, <1>1, <2>1, <2>2, <2>3, <2>4
<1>3. \A b \in {1, 2} : b = active \/ b = Other(active)
  BY <1>0, Maps
<1>4. MapsInv'
  <2>1. \A b \in {1, 2}, k \in Keys : \A i \in DOMAIN w[b][k] :
          w[b][k][i] \in stored /\ KeyOf[w[b][k][i]] = k
    <3> SUFFICES ASSUME NEW b \in {1, 2}, NEW k \in Keys, NEW i \in DOMAIN w[b][k]
                 PROVE  w[b][k][i] \in stored /\ KeyOf[w[b][k][i]] = k
      OBVIOUS
    <3>1. DOMAIN <<>> = {}
      OBVIOUS
    <3>2. b = active
      BY <1>2, <1>3, <3>1
    <3> QED
      BY <1>0, <1>2, <3>2, Maps
  <2>2. Retired' = w[Other(active)]
    BY <1>1, <1>2 DEF Retired
  <2>3. active \in {1, 2} /\ stored \subseteq Records
    BY <1>0 DEF MapsInv
  <2> QED
    BY <1>0, <1>1, <1>2, <2>1, <2>2, <2>3 DEF MapsInv
<1>5. key = NoKey /\ usNum = 0
  BY <1>0 DEF ChildInv
<1>6. ChildInv'
  BY <1>0, <1>5 DEF ChildInv
<1>7. InFiles' = InFiles
  BY <1>0, SameFiles
<1>8. FilesInv'
  BY <1>0, <1>7 DEF FilesInv
<1>9. OrderInv'
  <2>1. ASSUME NEW k \in ordered PROVE SentInOrder(k)'
    <3>1. k \in Keys /\ SentInOrder(k)
      BY <1>0 DEF OrderInv
    <3>2. /\ \A s \in stored : KeyOf[s] = k => TimeOf[s] <= latest[k]
          /\ Sorted(mem[active][k])
          /\ \A i \in DOMAIN mem[active][k] : \A s \in InFiles :
               KeyOf[s] = k => TimeOf[s] <= TimeOf[mem[active][k][i]]
      BY <1>0, <3>1, Maps DEF SentInOrder
    <3>3. DOMAIN w[Other(active)][k] = {}
      BY <1>2, <3>1
    <3>4. Sorted(w[Other(active)][k])
      BY <3>3 DEF Sorted
    <3>5. \A b \in {1, 2} : Sorted(w[b][k])
      BY <1>2, <1>3, <3>2, <3>4
    <3>6. Retired' = w[Other(active)]
      BY <1>1, <1>2 DEF Retired
    <3> QED
      BY <1>0, <1>1, <1>2, <1>7, <3>2, <3>3, <3>5, <3>6 DEF SentInOrder
  <2> QED
    BY <1>0, <2>1 DEF OrderInv
<1>10. Conserved'
  <2>1. \A r \in Records : ~ToFile(r)
    BY <1>0 DEF ToFile
  <2>2. \A r : InMap(active, r) => InMap(active, r)'
    BY <1>0, <1>1, <1>2 DEF InMap
  <2>3. stored \subseteq Records
    BY <1>0 DEF MapsInv
  <2> QED
    BY <1>0, <1>7, <2>1, <2>2, <2>3 DEF Conserved
<1> QED
  BY <1>4, <1>6, <1>8, <1>9, <1>10 DEF FilingInv

LEMMA SwapFiling ==
  ASSUME FilingInv, SwapMem, StartChild, UNCHANGED <<around, fails, sent>>
  PROVE  FilingInv'
<1>0. /\ MapsInv /\ ChildInv /\ FilesInv /\ OrderInv /\ Conserved
      /\ around' = around /\ fails' = fails /\ visited' = {} /\ key' = NoKey
      /\ usNum' = 0 /\ iAChanged' = -1 /\ sGeoKeyOld' = NoKey
      /\ fdAround' = NoFile /\ ordered' = ordered /\ latest' = latest
      /\ pass = "begun" /\ pass' = "moving" /\ active' = Other(active) /\ stored' = stored
      /\ mem' = mem
  BY DEF FilingInv, SwapMem, StartChild, sent
<1>1. Other(active)' = active /\ Retired' = mem[active]
  BY <1>0, Maps DEF Retired, Other
<1>2. \A k \in Keys : mem[Other(active)][k] = <<>> /\ DOMAIN mem[Other(active)][k] = {}
  BY <1>0 DEF MapsInv, Retired
<1>3. Other(active) \in {1, 2} /\ active \in {1, 2}
  BY <1>0, Maps
<1>4. MapsInv'
  BY <1>0, <1>3 DEF MapsInv
<1>5. ChildInv'
  BY <1>0 DEF ChildInv
<1>6. InFiles' = InFiles
  BY <1>0, SameFiles
<1>7. FilesInv'
  BY <1>0, <1>6 DEF FilesInv
<1>8. OrderInv'
  <2>1. ASSUME NEW k \in ordered PROVE SentInOrder(k)'
    <3>1. k \in Keys /\ SentInOrder(k)
      BY <1>0 DEF OrderInv
    <3>2. /\ \A s \in stored : KeyOf[s] = k => TimeOf[s] <= latest[k]
          /\ \A b \in {1, 2} : Sorted(mem[b][k])
      BY <3>1 DEF SentInOrder
    <3> QED
      BY <1>0, <1>2, <3>1, <3>2 DEF SentInOrder
  <2> QED
    BY <1>0, <2>1 DEF OrderInv
<1>9. Conserved'
  <2> SUFFICES ASSUME fails = 0, NEW r \in stored, r \notin InFiles PROVE ToFile(r)'
    BY <1>0, <1>6 DEF Conserved
  <2>1. r \in Records /\ KeyOf[r] \in Keys
    BY <1>0, AroundAssumption DEF MapsInv
  <2>2. ~ToFile(r)
    BY <1>0 DEF ToFile
  <2>3. InMap(active, r)
    BY <1>0, <2>2 DEF Conserved
  <2>4. PICK i \in DOMAIN mem[active][KeyOf[r]] : mem[active][KeyOf[r]][i] = r
    BY <2>3 DEF InMap
  <2>5. NoKey # KeyOf[r]
    BY <2>1, AroundAssumption
  <2> QED
    BY <1>0, <1>1, <2>4, <2>5 DEF ToFile
<1> QED
  BY <1>4, <1>5, <1>7, <1>8, <1>9 DEF FilingInv

LEMMA MoveFiling ==
  ASSUME FilingInv, NEW k \in Keys, MemToLast(k), UNCHANGED <<around, child, fails, sent>>
  PROVE  FilingInv'
<1>0. /\ MapsInv /\ ChildInv /\ FilesInv /\ OrderInv /\ Conserved
      /\ around' = around /\ fails' = fails /\ visited' = visited /\ key' = key
      /\ usNum' = usNum /\ iAChanged' = iAChanged /\ sGeoKeyOld' = sGeoKeyOld
      /\ fdAround' = fdAround /\ ordered' = ordered /\ latest' = latest
      /\ pass' = pass /\ active' = active /\ stored' = stored /\ mem' = mem
  BY DEF FilingInv, MemToLast, child, sent
<1>1. Retired' = Retired /\ Held(Other(active))' = Held(Other(active)) /\ Unvisited' = Unvisited
      /\ InFiles' = InFiles
  BY <1>0, SameFiles DEF Retired, Other, Held, Unvisited
<1>2. MapsInv' /\ FilesInv'
  BY <1>0, <1>1 DEF MapsInv, FilesInv
<1>3. ChildInv'
  BY <1>0, <1>1 DEF ChildInv
<1>4. OrderInv'
  <2>1. \A n \in ordered : SentInOrder(n) => SentInOrder(n)'
    BY <1>0, <1>1 DEF SentInOrder
  <2> QED
    BY <1>0, <2>1 DEF OrderInv
<1>5. Conserved'
  <2>1. \A r : InMap(active, r)' = InMap(active, r)
    BY <1>0 DEF InMap
  <2>2. \A r : ToFile(r)' = ToFile(r)
    BY <1>0, <1>1 DEF ToFile
  <2> QED
    BY <1>0, <1>1, <2>1, <2>2 DEF Conserved
<1> QED
  BY <1>2, <1>3, <1>4, <1>5 DEF FilingInv

LEMMA EndFiling ==
  ASSUME FilingInv, EndPass, Unvisited = {}, UNCHANGED <<around, child, fails, sent>>
  PROVE  FilingInv'
<1>0. /\ MapsInv /\ ChildInv /\ FilesInv /\ OrderInv /\ Conserved
      /\ around' = around /\ fails' = fails /\ visited' = visited /\ key' = key
      /\ usNum' = usNum /\ iAChanged' = iAChanged /\ sGeoKeyOld' = sGeoKeyOld
      /\ fdAround' = fdAround /\ ordered' = ordered /\ latest' = latest
      /\ pass' = "wait" /\ active' = active /\ stored' = stored /\ mem' = mem
  BY DEF FilingInv, EndPass, child, sent
<1>1. Retired' = Retired /\ InFiles' = InFiles
  BY <1>0, SameFiles DEF Retired, Other
<1>2. MapsInv' /\ FilesInv'
  BY <1>0, <1>1 DEF MapsInv, FilesInv
<1>3. key = NoKey /\ usNum = 0
  BY <1>0 DEF ChildInv
<1>4. ChildInv'
  BY <1>0, <1>3 DEF ChildInv
<1>5. OrderInv'
  <2>1. \A n \in ordered : SentInOrder(n) => SentInOrder(n)'
    BY <1>0, <1>1 DEF SentInOrder
  <2> QED
    BY <1>0, <2>1 DEF OrderInv
<1>6. Conserved'
  <2>1. \A r : InMap(active, r)' = InMap(active, r)
    BY <1>0 DEF InMap
  <2>2. ASSUME NEW r \in Records, ToFile(r) PROVE FALSE
    <3>1. KeyOf[r] \in Keys /\ KeyOf[r] \notin visited /\ DOMAIN Retired[KeyOf[r]] # {}
      BY <2>2, AroundAssumption DEF ToFile
    <3>2. Retired[KeyOf[r]] # <<>>
      BY <3>1
    <3> QED
      BY <3>1, <3>2 DEF Unvisited, Held, Retired
  <2>3. stored \subseteq Records
    BY <1>0 DEF MapsInv
  <2> QED
    BY <1>0, <1>1, <2>1, <2>2, <2>3 DEF Conserved
<1> QED
  BY <1>2, <1>4, <1>5, <1>6 DEF FilingInv

-----------------------------------------------------------------------------
(* The around child.                                                       *)
LEMMA AtRecord ==
  ASSUME FilingInv, NEW k \in Keys, Working(k)
  PROVE  /\ pass = "moving" /\ k \in Unvisited /\ k \notin visited
         /\ usNum \in Nat /\ usNum < Len(Retired[k]) /\ usNum + 1 \in DOMAIN Retired[k]
         /\ Retired[k] = mem[Other(active)][k] /\ Len(Retired[k]) \in Nat
         /\ DOMAIN Retired[k] = 1 .. Len(Retired[k])
         /\ Retired[k][usNum + 1] \in stored /\ Retired[k][usNum + 1] \in Records
         /\ KeyOf[Retired[k][usNum + 1]] = k
         /\ key # k => key = NoKey /\ usNum = 0
<1>0. MapsInv /\ ChildInv
  BY DEF FilingInv
<1>1. Retired[k] = mem[Other(active)][k] /\ Retired[k] \in Seq(Records)
      /\ Len(Retired[k]) \in Nat /\ DOMAIN Retired[k] = 1 .. Len(Retired[k])
  BY <1>0, Maps DEF Retired
<1>2. pass = "moving" /\ (key = k \/ (key = NoKey /\ k \in Unvisited)) /\ k # NoKey
  BY AroundAssumption DEF Working
<1>3. k \in Unvisited /\ usNum \in Nat /\ (key # k => key = NoKey /\ usNum = 0)
  BY <1>0, <1>2 DEF ChildInv
<1>4. k \notin visited /\ Retired[k] # <<>>
  BY <1>3 DEF Unvisited, Held, Retired
<1>5. usNum < Len(Retired[k])
  <2>1. CASE key = k
    BY <1>0, <1>2, <2>1 DEF ChildInv
  <2>2. CASE key # k
    <3>1. Len(Retired[k]) # 0
      BY <1>1, <1>4
    <3> QED
      BY <1>1, <1>3, <2>2, <3>1
  <2> QED
    BY <2>1, <2>2
<1>6. usNum + 1 \in DOMAIN Retired[k]
  BY <1>1, <1>3, <1>5
<1>7. Retired[k][usNum + 1] \in stored /\ Retired[k][usNum + 1] \in Records
      /\ KeyOf[Retired[k][usNum + 1]] = k
  BY <1>0, <1>1, <1>6, Maps
<1> QED
  BY <1>1, <1>2, <1>3, <1>4, <1>5, <1>6, <1>7

LEMMA TargetIs ==
  ASSUME ChildInv, NEW r \in Records
  PROVE  Target(r) \in Files /\ Fits(Target(r), r)
<1>1. CASE SameAsBefore(r)
  <2>1. iAChanged = HourOfDay(TimeOf[r]) /\ sGeoKeyOld = CellOf[r] /\ iAChanged # -1
    BY <1>1, FileIs DEF SameAsBefore
  <2> QED
    BY <1>1, <2>1 DEF Target, ChildInv, Fits
<1>2. CASE ~SameAsBefore(r)
  BY <1>2, FileIs DEF Target
<1> QED
  BY <1>1, <1>2

(* one line is added to the files                                          *)
LEMMA LineAdded ==
  ASSUME FilesInv, NEW r \in Records, NEW f \in Files,
         around' = [around EXCEPT ![f] = Append(@, r)]
  PROVE  /\ around' \in [Files -> Seq(Records)]
         /\ InFiles' = InFiles \cup {r}
         /\ \A g \in Files : \A i \in DOMAIN around'[g] :
              \/ i \in DOMAIN around[g] /\ around'[g][i] = around[g][i]
              \/ around'[g][i] = r /\ g = f
         /\ \A g \in Files : \A i \in DOMAIN around[g] :
              i \in DOMAIN around'[g] /\ around'[g][i] = around[g][i]
<1>0. around \in [Files -> Seq(Records)]
  BY DEF FilesInv
<1>1. PICK v \in Seq(Records) : v = around[f]
  BY <1>0
<1>2. Append(v, r) \in Seq(Records)
  BY <1>1
<1>3. PICK w : w = around'
  OBVIOUS
<1>4. w \in [Files -> Seq(Records)] /\ w[f] = Append(v, r)
      /\ \A g \in Files : g # f => w[g] = around[g]
  BY <1>0, <1>1, <1>2, <1>3
<1>5. ASSUME NEW g \in Files, NEW i \in DOMAIN w[g]
      PROVE  \/ i \in DOMAIN around[g] /\ w[g][i] = around[g][i]
             \/ w[g][i] = r /\ g = f
  <2>1. CASE g # f
    BY <1>4, <2>1
  <2>2. CASE g = f
    <3>1. i \in DOMAIN Append(v, r)
      BY <1>4, <2>2
    <3>2. (i \in DOMAIN v /\ Append(v, r)[i] = v[i]) \/ Append(v, r)[i] = r
      BY <3>1, Added
    <3> QED
      BY <1>1, <1>4, <2>2, <3>2
  <2> QED
    BY <2>1, <2>2
<1>6. ASSUME NEW g \in Files, NEW i \in DOMAIN around[g]
      PROVE  i \in DOMAIN w[g] /\ w[g][i] = around[g][i]
  <2>1. CASE g # f
    BY <1>4, <2>1
  <2>2. CASE g = f
    <3>1. i \in DOMAIN Append(v, r) /\ Append(v, r)[i] = v[i]
      BY <1>1, <2>2, Added
    <3> QED
      BY <1>1, <1>4, <2>2, <3>1
  <2> QED
    BY <2>1, <2>2
<1>7. Len(v) + 1 \in DOMAIN w[f] /\ w[f][Len(v) + 1] = r
  BY <1>4, Added
<1>8. InFiles' = UNION {{w[g][i] : i \in DOMAIN w[g]} : g \in Files}
  BY <1>3 DEF InFiles
<1>9. \A s : s \in InFiles' <=> \E g \in Files : \E i \in DOMAIN w[g] : s = w[g][i]
  BY <1>8
<1>10. \A s : s \in InFiles <=> \E g \in Files : \E i \in DOMAIN around[g] : s = around[g][i]
  BY DEF InFiles
<1>11. ASSUME NEW s \in InFiles' PROVE s \in InFiles \cup {r}
  <2>0. PICK g \in Files : \E i \in DOMAIN w[g] : s = w[g][i]
    BY <1>9, <1>11
  <2>1. PICK i \in DOMAIN w[g] : s = w[g][i]
    BY <2>0
  <2>2. (i \in DOMAIN around[g] /\ w[g][i] = around[g][i]) \/ w[g][i] = r
    BY <1>5
  <2> QED
    BY <1>10, <2>1, <2>2
<1>12. ASSUME NEW s \in InFiles \cup {r} PROVE s \in InFiles'
  <2>1. CASE s = r
    BY <1>7, <1>9, <2>1
  <2>2. CASE s \in InFiles
    <3>0. PICK g \in Files : \E i \in DOMAIN around[g] : s = around[g][i]
      BY <1>10, <2>2
    <3>1. PICK i \in DOMAIN around[g] : s = around[g][i]
      BY <3>0
    <3>2. i \in DOMAIN w[g] /\ w[g][i] = around[g][i]
      BY <1>6
    <3> QED
      BY <1>9, <3>1, <3>2
  <2> QED
    BY <1>12, <2>1, <2>2
<1>13. InFiles' = InFiles \cup {r}
  BY <1>11, <1>12
<1> QED
  BY <1>3, <1>4, <1>5, <1>6, <1>13

LEMMA WriteFiling ==
  ASSUME FilingInv, NEW k \in Keys, WriteRecord(k)
  PROVE  FilingInv'
<1>0. /\ MapsInv /\ ChildInv /\ FilesInv /\ OrderInv /\ Conserved /\ Working(k)
      /\ fails' = fails /\ ordered' = ordered /\ latest' = latest
      /\ pass' = pass /\ active' = active /\ stored' = stored /\ mem' = mem
  BY DEF FilingInv, WriteRecord, maps, sent
<1>1. PICK r : r = Retired[k][usNum + 1]
  OBVIOUS
<1>2. /\ pass = "moving" /\ k \in Unvisited /\ k \notin visited
      /\ usNum \in Nat /\ usNum < Len(Retired[k]) /\ usNum + 1 \in DOMAIN Retired[k]
      /\ Retired[k] = mem[Other(active)][k] /\ Len(Retired[k]) \in Nat
      /\ DOMAIN Retired[k] = 1 .. Len(Retired[k])
      /\ r \in stored /\ r \in Records /\ KeyOf[r] = k
      /\ key # k => key = NoKey /\ usNum = 0
  BY <1>0, <1>1, AtRecord
<1>3. /\ around' = [around EXCEPT ![Target(r)] = Append(@, r)]
      /\ fdAround' = Target(r)
      /\ iAChanged' = HourOfDay(TimeOf[r]) /\ sGeoKeyOld' = CellOf[r]
      /\ \/ /\ NextNum < Len(Retired[k])
            /\ key' = k /\ usNum' = NextNum /\ visited' = visited
         \/ /\ NextNum >= Len(Retired[k])
            /\ key' = NoKey /\ usNum' = 0 /\ visited' = visited \cup {k}
  BY <1>1 DEF WriteRecord, Line
<1>4. Target(r) \in Files /\ Fits(Target(r), r)
  BY <1>0, <1>2, TargetIs
<1>5. PICK f \in Files : f = Target(r)
  BY <1>4
<1>6. /\ around' \in [Files -> Seq(Records)]
      /\ InFiles' = InFiles \cup {r}
      /\ \A g \in Files : \A i \in DOMAIN around'[g] :
           \/ i \in DOMAIN around[g] /\ around'[g][i] = around[g][i]
           \/ around'[g][i] = r /\ g = f
  <2>1. FilesInv /\ r \in Records
    BY <1>0, <1>2
  <2>2. around' = [around EXCEPT ![f] = Append(@, r)]
    BY <1>3, <1>5
  <2> QED
    BY <2>1, <2>2, LineAdded
<1>7. NextNum \in Nat /\ NextNum <= usNum + 1
  <2>1. IndexRange \in Nat \ {0} /\ usNum + 1 \in Nat
    BY <1>2, AroundAssumption
  <2>2. PICK n \in Nat : n = usNum + 1
    BY <2>1
  <2>3. n % IndexRange \in Nat /\ n = (n \div IndexRange) * IndexRange + (n % IndexRange)
        /\ n \div IndexRange \in Nat
    BY <2>1, Divided
  <2>4. (n \div IndexRange) * IndexRange \in Nat
    BY <2>1, <2>3
  <2>5. n % IndexRange <= n
    BY <2>3, <2>4
  <2> QED
    BY <2>2, <2>3, <2>5 DEF NextNum
<1>8. Retired' = Retired /\ Held(Other(active))' = Held(Other(active))
  BY <1>0 DEF Retired, Other, Held
<1>9. MapsInv'
  BY <1>0, <1>8 DEF MapsInv
<1>10. ChildInv'
  <2>1. fdAround' \in Files /\ fdAround' # NoFile /\ fdAround'[2] = sGeoKeyOld'
        /\ fdAround'[1] % (DayHours + DayGap) = iAChanged'
    BY <1>3, <1>4, NoFileIsNone DEF Fits
  <2>2. CASE key' = k /\ NextNum < Len(Retired[k]) /\ usNum' = NextNum /\ visited' = visited
    <3>1. k \in Unvisited' /\ k # NoKey
      BY <1>2, <1>8, <2>2, AroundAssumption DEF Unvisited
    <3> QED
      BY <1>0, <1>2, <1>7, <1>8, <2>1, <2>2, <3>1 DEF ChildInv
  <2>3. CASE key' = NoKey /\ usNum' = 0 /\ visited' = visited \cup {k}
    BY <1>0, <1>2, <1>8, <2>1, <2>3 DEF ChildInv
  <2> QED
    BY <1>3, <2>2, <2>3
<1>11. FilesInv'
  <2>1. InFiles \cup {r} \subseteq stored
    BY <1>0, <1>2 DEF FilesInv
  <2>2. ASSUME NEW g \in Files, NEW i \in DOMAIN around'[g] PROVE Fits(g, around'[g][i])
    <3>1. CASE i \in DOMAIN around[g] /\ around'[g][i] = around[g][i]
      BY <1>0, <3>1 DEF FilesInv, Fits
    <3>2. CASE around'[g][i] = r /\ g = f
      BY <1>4, <1>5, <3>2
    <3> QED
      BY <1>6, <3>1, <3>2
  <2> QED
    BY <1>0, <1>6, <2>1, <2>2 DEF FilesInv, Fits
<1>12. OrderInv'
  <2>1. ASSUME NEW n \in ordered PROVE SentInOrder(n)'
    <3>1. n \in Keys /\ SentInOrder(n)
      BY <1>0 DEF OrderInv
    <3>2. /\ \A s \in stored : KeyOf[s] = n => TimeOf[s] <= latest[n]
          /\ \A b \in {1, 2} : Sorted(mem[b][n])
          /\ \A i \in DOMAIN mem[active][n] : \A j \in DOMAIN Retired[n] :
               TimeOf[Retired[n][j]] <= TimeOf[mem[active][n][i]]
          /\ \A i \in DOMAIN mem[active][n] : \A s \in InFiles :
               KeyOf[s] = n => TimeOf[s] <= TimeOf[mem[active][n][i]]
      BY <3>1 DEF SentInOrder
    <3>3. \A i \in DOMAIN mem[active][n] : \A s \in InFiles \cup {r} :
            KeyOf[s] = n => TimeOf[s] <= TimeOf[mem[active][n][i]]
      BY <1>1, <1>2, <3>2
    <3> QED
      BY <1>0, <1>6, <1>8, <3>2, <3>3 DEF SentInOrder
  <2> QED
    BY <1>0, <2>1 DEF OrderInv
<1>13. Conserved'
  <2> SUFFICES ASSUME fails = 0, NEW s \in stored, s \notin InFiles, s # r, ~InMap(active, s)
               PROVE  ToFile(s)'
    <3>1. \A x : InMap(active, x)' = InMap(active, x)
      BY <1>0 DEF InMap
    <3> QED
      BY <1>0, <1>6, <3>1 DEF Conserved
  <2>1. ToFile(s)
    BY <1>0 DEF Conserved
  <2>2. PICK n : n = KeyOf[s]
    OBVIOUS
  <2>3. PICK i \in DOMAIN Retired[n] : Retired[n][i] = s /\ (key = n => usNum < i)
    BY <2>1, <2>2 DEF ToFile
  <2>4. n \notin visited /\ n \in Keys /\ n # NoKey
    <3>1. s \in Records
      BY <1>0 DEF MapsInv
    <3> QED
      BY <2>1, <2>2, <3>1, AroundAssumption DEF ToFile
  <2>5. CASE n # k
    <3>1. n \notin visited' /\ key' # n
      BY <1>3, <2>4, <2>5
    <3> QED
      BY <1>0, <1>2, <1>8, <2>2, <2>3, <3>1 DEF ToFile
  <2>6. CASE n = k
    <3>1. i \in 1 .. Len(Retired[k]) /\ usNum < i
      BY <1>2, <2>3, <2>6
    <3>2. i # usNum + 1
      BY <1>1, <2>3, <2>6
    <3>3. NextNum < i /\ NextNum < Len(Retired[k])
      BY <1>2, <1>7, <3>1, <3>2
    <3>4. visited' = visited /\ usNum' = NextNum
      BY <1>2, <1>3, <1>7, <3>3
    <3> QED
      BY <1>0, <1>2, <1>8, <2>2, <2>3, <2>4, <3>3, <3>4 DEF ToFile
  <2> QED
    BY <2>5, <2>6
<1> QED
  BY <1>9, <1>10, <1>11, <1>12, <1>13 DEF FilingInv

LEMMA FailFiling ==
  ASSUME FilingInv, NEW k \in Keys, OpenFails(k)
  PROVE  FilingInv'
<1>0. /\ MapsInv /\ ChildInv /\ FilesInv /\ OrderInv /\ Conserved /\ Working(k)
      /\ around' = around /\ fails' = fails + 1 /\ visited' = Keys /\ key' = NoKey
      /\ usNum' = 0 /\ iAChanged' = iAChanged /\ sGeoKeyOld' = sGeoKeyOld
      /\ fdAround' = fdAround /\ ordered' = ordered /\ latest' = latest
      /\ pass' = pass /\ active' = active /\ stored' = stored /\ mem' = mem
  BY DEF FilingInv, OpenFails, maps, sent
<1>1. Retired' = Retired /\ InFiles' = InFiles
  BY <1>0, SameFiles DEF Retired, Other
<1>2. MapsInv' /\ FilesInv'
  BY <1>0, <1>1 DEF MapsInv, FilesInv
<1>3. fails \in Nat /\ fails' \in Nat /\ fails' # 0
  BY <1>0 DEF ChildInv
<1>4. ChildInv'
  BY <1>0, <1>3 DEF ChildInv
<1>5. OrderInv'
  <2>1. \A n \in ordered : SentInOrder(n) => SentInOrder(n)'
    BY <1>0, <1>1 DEF SentInOrder
  <2> QED
    BY <1>0, <2>1 DEF OrderInv
<1>6. Conserved'
  BY <1>3 DEF Conserved
<1> QED
  BY <1>2, <1>4, <1>5, <1>6 DEF FilingInv

-----------------------------------------------------------------------------
(* The query beside the writers and the child.  What they add to a map it  *)
(* reads is newer than what was filed when it began.                       *)
LinesKept ==
  \A g \in Files : \A i \in DOMAIN around[g] :
    i \in DOMAIN around'[g] /\ around'[g][i] = around[g][i]

LEMMA CleanKept ==
  ASSUME LinesKept, NEW k PROVE Clean(k)' => Clean(k)
<1>1. ASSUME NEW r, Misfiled(r) PROVE Misfiled(r)'
  <2>1. PICK f \in Files : /\ \E i \in DOMAIN around[f] : around[f][i] = r
                           /\ f[2] = CellOf[r] /\ f # FileOf(r)
                           /\ f[1] % (DayHours + DayGap) = HourOfDay(TimeOf[r])
    BY <1>1 DEF Misfiled
  <2>2. \E i \in DOMAIN around'[f] : around'[f][i] = r
    BY <2>1 DEF LinesKept
  <2> QED
    BY <2>1, <2>2 DEF Misfiled
<1> QED
  BY <1>1 DEF Clean

LEMMA BesideQuery ==
  ASSUME FilingInv, QueryTyped, SearchInv, UNCHANGED <<asked, search, answer>>,
         stored \subseteq stored', InFiles \subseteq InFiles', LinesKept,
         ordered' \subseteq ordered,
         quiet' => quiet /\ active' = active /\ (pass' = "moving" => pass = "moving"),
         fails' = 0 => fails = 0,
         qpc = "mem" => \A k \in ordered' : \A i \in DOMAIN mem'[source][k] :
            \/ \E j \in DOMAIN mem[source][k] : mem[source][k][j] = mem'[source][k][i]
            \/ \A s \in filed : KeyOf[s] = k => TimeOf[s] <= TimeOf[mem'[source][k][i]],
         quiet' /\ qpc = "mem" => \A r \in Records : InMap(source, r) => InMap(source, r)'
  PROVE  QueryTyped' /\ SearchInv'
<1>1. /\ query' = query /\ before' = before /\ filed' = filed /\ qpc' = qpc
      /\ source' = source /\ left' = left /\ iCurHour' = iCurHour /\ cells' = cells
      /\ umUnique' = umUnique /\ fileResult' = fileResult
  BY DEF asked, search, answer
<1>2. QueryTyped'
  <2>1. filed' \subseteq InFiles' /\ before' \subseteq stored'
    BY <1>1 DEF QueryTyped
  <2>2. quiet' /\ qpc = "mem" => source = active' /\ pass' # "moving"
    BY DEF QueryTyped
  <2> QED
    BY <1>1, <2>1, <2>2 DEF QueryTyped
<1>3. SearchInv'
  <2> SUFFICES ASSUME qpc # "idle", NEW k \in ordered', Clean(k)'
               PROVE  /\ SeenOrToCome(k)'
                      /\ quiet' /\ fails' = 0 => MetInMap(k)'
    BY <1>1 DEF SearchInv
  <2>1. Clean(k) /\ k \in ordered
    BY CleanKept
  <2>2. SeenOrToCome(k) /\ (quiet /\ fails = 0 => MetInMap(k))
    BY <2>1 DEF SearchInv
  <2>3. Sought(k)' = Sought(k) /\ \A r \in Sought(k) : r \in filed /\ KeyOf[r] = k
    BY <1>1 DEF Sought, Wanted, InPeriod
  <2>4. qpc = "mem" => \A i \in DOMAIN mem'[source][k] : \A r \in Sought(k) :
          TimeOf[r] <= TimeOf[mem'[source][k][i]]
    <3> SUFFICES ASSUME qpc = "mem", NEW i \in DOMAIN mem'[source][k], NEW r \in Sought(k)
                 PROVE  TimeOf[r] <= TimeOf[mem'[source][k][i]]
      OBVIOUS
    <3>1. CASE \E j \in DOMAIN mem[source][k] : mem[source][k][j] = mem'[source][k][i]
      BY <2>2, <3>1 DEF SeenOrToCome
    <3>2. CASE \A s \in filed : KeyOf[s] = k => TimeOf[s] <= TimeOf[mem'[source][k][i]]
      BY <2>3, <3>2
    <3> QED
      BY <3>1, <3>2
  <2>5. SeenOrToCome(k)'
    BY <1>1, <2>2, <2>3, <2>4 DEF SeenOrToCome
  <2>6. ASSUME quiet', fails' = 0 PROVE MetInMap(k)'
    <3>1. MetInMap(k)
      BY <2>2, <2>6
    <3>2. before \subseteq Records
      BY DEF QueryTyped, FilingInv, MapsInv
    <3>3. \A r : Wanted(r)' = Wanted(r)
      BY <1>1 DEF Wanted, InPeriod
    <3>4. \A r \in Records : qpc = "mem" /\ InMap(source, r) => InMap(source, r)'
      BY <2>6
    <3> QED
      BY <1>1, <3>1, <3>2, <3>3, <3>4 DEF MetInMap
  <2> QED
    BY <2>5, <2>6
<1> QED
  BY <1>2, <1>3

LEMMA Forgotten ==
  ASSUME Forget PROVE QueryTyped' /\ SearchInv'
<1>1. /\ query' = None /\ qpc' = "idle" /\ before' = {} /\ filed' = {}
      /\ source' = 1 /\ left' = {} /\ iCurHour' = 0 /\ cells' = {}
      /\ umUnique' = Nowhere /\ fileResult' = Nowhere
  BY DEF Forget
<1>2. Nowhere \in [Keys -> Records \cup {None}] /\ Nowhere' = Nowhere
  BY DEF Nowhere
<1>3. QueryTyped'
  BY <1>1, <1>2 DEF QueryTyped
<1>4. SearchInv'
  BY <1>1 DEF SearchInv
<1> QED
  BY <1>3, <1>4

LEMMA BesideStep ==
  ASSUME FilingInv, QueryTyped, SearchInv, ~raced', Beside
  PROVE  FilingInv' /\ QueryTyped' /\ SearchInv'
<1>0. around' = around /\ fails' = fails /\ StoreStep
  BY DEF Beside
<1>1. \/ \E r \in Records : Send(r) /\ UNCHANGED <<child, quiet>>
      \/ BeginPass /\ UNCHANGED <<child, quiet, sent>>
      \/ \E k \in Keys : MemToLast(k) /\ UNCHANGED <<child, quiet, sent>>
      \/ EndPass /\ Unvisited = {} /\ UNCHANGED <<child, quiet, sent>>
      \/ SwapMem /\ StartChild /\ quiet' = FALSE /\ UNCHANGED sent
  BY <1>0 DEF StoreStep
<1>2. InFiles' = InFiles /\ LinesKept
  BY <1>0, SameFiles DEF LinesKept
<1>3. MapsInv /\ FilesInv /\ OrderInv /\ source \in {1, 2} /\ filed \subseteq InFiles
      /\ (quiet /\ qpc = "mem" => source = active)
  BY DEF FilingInv, QueryTyped
<1>4. UNCHANGED <<asked, search, answer>> \/ Forget
  BY DEF Beside
<1>5. ASSUME FilingInv', UNCHANGED <<asked, search, answer>> => QueryTyped' /\ SearchInv'
      PROVE  FilingInv' /\ QueryTyped' /\ SearchInv'
  BY <1>4, <1>5, Forgotten
<1>6. ASSUME NEW r \in Records, Send(r), UNCHANGED <<child, quiet>>
      PROVE  FilingInv' /\ QueryTyped' /\ SearchInv'
  <2>1. FilingInv'
    BY <1>0, <1>6, SendFiling
  <2>2. Store(r) /\ quiet' = quiet
    BY <1>6 DEF Send
  <2>3. PICK w : w = mem'
    OBVIOUS
  <2>4. /\ stored' = stored \cup {r} /\ active' = active /\ pass' = pass /\ KeyOf[r] \in Keys
        /\ w[active][KeyOf[r]] = Append(mem[active][KeyOf[r]], r)
        /\ \A k \in Keys : k # KeyOf[r] => w[active][k] = mem[active][k]
        /\ w[Other(active)] = mem[Other(active)]
    BY <1>3, <2>2, <2>3, StoredIs
  <2>5. ordered \subseteq Keys /\ latest \in [Keys -> Nat] /\ ordered' \subseteq ordered
        /\ (KeyOf[r] \in ordered' => ~(TimeOf[r] < latest[KeyOf[r]]))
    BY <1>3, <1>6 DEF Send, OrderInv
  <2>6. ASSUME NEW k \in Keys, mem[source][k] # w[source][k]
        PROVE  k = KeyOf[r] /\ w[source][k] = Append(mem[source][k], r)
               /\ mem[source][k] \in Seq(Records)
    <3>1. source # Other(active)
      BY <2>4, <2>6
    <3>2. source = active
      BY <1>3, <3>1, Maps
    <3>3. k = KeyOf[r]
      BY <2>4, <2>6, <3>2
    <3> QED
      BY <1>3, <2>4, <3>2, <3>3, Maps
  <2>7. ASSUME NEW k \in ordered', NEW i \in DOMAIN w[source][k]
        PROVE  \/ \E j \in DOMAIN mem[source][k] : mem[source][k][j] = w[source][k][i]
               \/ \A s \in filed : KeyOf[s] = k => TimeOf[s] <= TimeOf[w[source][k][i]]
    <3>1. CASE mem[source][k] = w[source][k]
      BY <3>1
    <3>2. CASE mem[source][k] # w[source][k]
      <4>1. k \in Keys /\ k \in ordered
        BY <2>5
      <4>2. PICK v \in Seq(Records) : /\ v = mem[source][k] /\ w[source][k] = Append(v, r)
                                      /\ k = KeyOf[r]
        BY <2>6, <3>2, <4>1
      <4>3. (i \in DOMAIN v /\ Append(v, r)[i] = v[i]) \/ Append(v, r)[i] = r
        BY <4>2, Added
      <4>4. ASSUME NEW s \in filed, KeyOf[s] = k PROVE TimeOf[s] <= TimeOf[r]
        <5>1. s \in stored /\ s \in Records
          BY <1>3 DEF FilesInv, MapsInv
        <5>2. TimeOf[s] <= latest[k]
          BY <1>3, <4>1, <4>4, <5>1 DEF OrderInv, SentInOrder
        <5>3. TimeOf[r] >= latest[k] /\ latest[k] \in Nat /\ TimeOf[r] \in Nat /\ TimeOf[s] \in Nat
          BY <2>5, <2>7, <4>1, <4>2, <5>1, AroundAssumption
        <5> QED
          BY <5>2, <5>3
      <4> QED
        BY <4>2, <4>3, <4>4
    <3> QED
      BY <3>1, <3>2
  <2>8. ASSUME NEW x \in Records, InMap(source, x), source' = source PROVE InMap(source, x)'
    <3>1. PICK i \in DOMAIN mem[source][KeyOf[x]] : mem[source][KeyOf[x]][i] = x
      BY <2>8 DEF InMap
    <3>2. KeyOf[x] \in Keys
      BY AroundAssumption
    <3>3. i \in DOMAIN w[source][KeyOf[x]] /\ w[source][KeyOf[x]][i] = x
      <4>1. CASE mem[source][KeyOf[x]] = w[source][KeyOf[x]]
        BY <3>1, <4>1
      <4>2. CASE mem[source][KeyOf[x]] # w[source][KeyOf[x]]
        <5>1. PICK v \in Seq(Records) : /\ v = mem[source][KeyOf[x]]
                                        /\ w[source][KeyOf[x]] = Append(v, r)
          BY <2>6, <3>2, <4>2
        <5>2. i \in DOMAIN Append(v, r) /\ Append(v, r)[i] = v[i]
          BY <3>1, <5>1, Added
        <5> QED
          BY <3>1, <5>1, <5>2
      <4> QED
        BY <4>1, <4>2
    <3> QED
      BY <2>3, <2>8, <3>3 DEF InMap
  <2>9. UNCHANGED <<asked, search, answer>> => QueryTyped' /\ SearchInv'
    <3> SUFFICES ASSUME UNCHANGED <<asked, search, answer>> PROVE QueryTyped' /\ SearchInv'
      OBVIOUS
    <3>1. source' = source
      BY DEF search
    <3>2. \A k \in ordered' : \A i \in DOMAIN mem'[source][k] :
            \/ \E j \in DOMAIN mem[source][k] : mem[source][k][j] = mem'[source][k][i]
            \/ \A s \in filed : KeyOf[s] = k => TimeOf[s] <= TimeOf[mem'[source][k][i]]
      BY <2>3, <2>7
    <3>3. \A x \in Records : InMap(source, x) => InMap(source, x)'
      BY <2>8, <3>1
    <3> QED
      BY <1>0, <1>2, <2>2, <2>4, <2>5, <3>2, <3>3, BesideQuery
  <2> QED
    BY <1>5, <2>1, <2>9
<1>7. ASSUME BeginPass, UNCHANGED <<child, quiet, sent>>
      PROVE  FilingInv' /\ QueryTyped' /\ SearchInv'
  <2>1. FilingInv'
    BY <1>0, <1>7, BeginFiling
  <2>2. /\ quiet' = quiet /\ active' = active /\ pass' = "begun" /\ stored' = stored
        /\ ordered' = ordered
        /\ mem' = [mem EXCEPT ![Other(active)] = [k \in Keys |-> <<>>]]
    BY <1>7 DEF BeginPass, sent
  <2>3. mem'[active] = mem[active] /\ \A k \in Keys : mem'[Other(active)][k] = <<>>
    <3>1. mem \in [{1, 2} -> [Keys -> Seq(Records)]]
      BY <1>3 DEF MapsInv
    <3>2. Other(active) \in {1, 2} /\ Other(active) # active /\ active \in {1, 2}
      BY <1>3, Maps
    <3> QED
      BY <2>2, <3>1, <3>2
  <2>4. ordered \subseteq Keys
    BY <1>3 DEF OrderInv
  <2>5. ASSUME NEW k \in ordered', NEW i \in DOMAIN mem'[source][k]
        PROVE  \E j \in DOMAIN mem[source][k] : mem[source][k][j] = mem'[source][k][i]
    <3>1. DOMAIN <<>> = {}
      OBVIOUS
    <3>2. source # Other(active)
      BY <2>2, <2>3, <2>4, <2>5, <3>1
    <3>3. source = active
      BY <1>3, <3>2, Maps
    <3> QED
      BY <2>3, <3>3
  <2>6. ASSUME quiet, qpc = "mem", source' = source, NEW r, InMap(source, r)
        PROVE  InMap(source, r)'
    BY <1>3, <2>3, <2>6 DEF InMap
  <2>7. UNCHANGED <<asked, search, answer>> => source' = source
    BY DEF search
  <2> QED
    BY <1>0, <1>2, <1>5, <2>1, <2>2, <2>5, <2>6, <2>7, BesideQuery
<1>8. ASSUME UNCHANGED <<mem, active, stored, quiet, sent>>, pass' = "moving" => pass = "moving",
             FilingInv'
      PROVE  FilingInv' /\ QueryTyped' /\ SearchInv'
  <2>1. UNCHANGED <<asked, search, answer>> => source' = source
    BY DEF search
  <2>2. ordered' = ordered
    BY <1>8 DEF sent
  <2>3. \A r : source' = source => InMap(source, r)' = InMap(source, r)
    BY <1>8 DEF InMap
  <2> QED
    BY <1>0, <1>2, <1>5, <1>8, <2>1, <2>2, <2>3, BesideQuery
<1>9. ASSUME NEW k \in Keys, MemToLast(k), UNCHANGED <<child, quiet, sent>>
      PROVE  FilingInv' /\ QueryTyped' /\ SearchInv'
  <2>1. FilingInv'
    BY <1>0, <1>9, MoveFiling
  <2>2. UNCHANGED <<mem, active, stored, quiet, sent>> /\ pass' = pass
    BY <1>9 DEF MemToLast
  <2> QED
    BY <1>8, <2>1, <2>2
<1>10. ASSUME EndPass, Unvisited = {}, UNCHANGED <<child, quiet, sent>>
       PROVE  FilingInv' /\ QueryTyped' /\ SearchInv'
  <2>1. FilingInv'
    BY <1>0, <1>10, EndFiling
  <2>2. UNCHANGED <<mem, active, stored, quiet, sent>> /\ pass' = "wait"
    BY <1>10 DEF EndPass
  <2> QED
    BY <1>8, <2>1, <2>2
<1>11. ASSUME SwapMem, StartChild, quiet' = FALSE, UNCHANGED sent
       PROVE  FilingInv' /\ QueryTyped' /\ SearchInv'
  <2>1. FilingInv'
    BY <1>0, <1>11, SwapFiling
  <2>2. stored' = stored /\ ordered' = ordered /\ mem' = mem
    BY <1>11 DEF SwapMem, sent
  <2> QED
    BY <1>0, <1>2, <1>5, <1>11, <2>1, <2>2, BesideQuery
<1> QED
  BY <1>1, <1>6, <1>7, <1>9, <1>10, <1>11

LEMMA ChildStep ==
  ASSUME FilingInv, QueryTyped, SearchInv, NEW k \in Keys, WriteRecord(k) \/ OpenFails(k)
  PROVE  FilingInv' /\ QueryTyped' /\ SearchInv'
<1>0. /\ mem' = mem /\ active' = active /\ pass' = pass /\ stored' = stored /\ quiet' = quiet
      /\ ordered' = ordered /\ UNCHANGED <<asked, search, answer>> /\ source' = source
  BY DEF WriteRecord, OpenFails, maps, sent, search
<1>1. \A r : InMap(source, r)' = InMap(source, r)
  BY <1>0 DEF InMap
<1>2. FilingInv'
  BY WriteFiling, FailFiling
<1>3. InFiles \subseteq InFiles' /\ LinesKept
  <2>1. CASE WriteRecord(k)
    <3>1. Working(k) /\ FilesInv /\ ChildInv
      BY <2>1 DEF WriteRecord, FilingInv
    <3>2. PICK r \in Records : r = Retired[k][usNum + 1]
      BY <3>1, AtRecord
    <3>3. PICK f \in Files : f = Target(r)
      BY <3>1, <3>2, TargetIs
    <3>4. around' = [around EXCEPT ![f] = Append(@, r)]
      BY <2>1, <3>2, <3>3 DEF WriteRecord, Line
    <3>5. InFiles' = InFiles \cup {r}
          /\ \A g \in Files : \A i \in DOMAIN around[g] :
               i \in DOMAIN around'[g] /\ around'[g][i] = around[g][i]
      BY <3>1, <3>4, LineAdded
    <3> QED
      BY <3>5 DEF LinesKept
  <2>2. CASE OpenFails(k)
    BY <2>2, SameFiles DEF OpenFails, LinesKept
  <2> QED
    BY <2>1, <2>2
<1>4. fails' = 0 => fails = 0
  BY DEF WriteRecord, OpenFails, FilingInv, ChildInv
<1> QED
  BY <1>0, <1>1, <1>2, <1>3, <1>4, BesideQuery

-----------------------------------------------------------------------------
(* The steps of the query, which leave the maps and the files alone.       *)
LEMMA QueryFiling ==
  ASSUME FilingInv, UNCHANGED <<maps, around, child, fails, sent>>
  PROVE  FilingInv' /\ InFiles' = InFiles /\ LinesKept
<1>0. /\ MapsInv /\ ChildInv /\ FilesInv /\ OrderInv /\ Conserved
      /\ around' = around /\ fails' = fails /\ visited' = visited /\ key' = key
      /\ usNum' = usNum /\ iAChanged' = iAChanged /\ sGeoKeyOld' = sGeoKeyOld
      /\ fdAround' = fdAround /\ ordered' = ordered /\ latest' = latest
      /\ pass' = pass /\ active' = active /\ stored' = stored /\ mem' = mem
  BY DEF FilingInv, maps, child, sent
<1>1. Retired' = Retired /\ Held(Other(active))' = Held(Other(active)) /\ Unvisited' = Unvisited
      /\ InFiles' = InFiles
  BY <1>0, SameFiles DEF Retired, Other, Held, Unvisited
<1>2. MapsInv' /\ FilesInv'
  BY <1>0, <1>1 DEF MapsInv, FilesInv
<1>3. ChildInv'
  BY <1>0, <1>1 DEF ChildInv
<1>4. OrderInv'
  <2>1. \A n \in ordered : SentInOrder(n) => SentInOrder(n)'
    BY <1>0, <1>1 DEF SentInOrder
  <2> QED
    BY <1>0, <2>1 DEF OrderInv
<1>5. Conserved'
  <2>1. \A r : InMap(active, r)' = InMap(active, r)
    BY <1>0 DEF InMap
  <2>2. \A r : ToFile(r)' = ToFile(r)
    BY <1>0, <1>1 DEF ToFile
  <2> QED
    BY <1>0, <1>1, <2>1, <2>2 DEF Conserved
<1>6. FilingInv'
  BY <1>2, <1>3, <1>4, <1>5 DEF FilingInv
<1> QED
  BY <1>0, <1>1, <1>6 DEF LinesKept

LEMMA AskStep ==
  ASSUME FilingInv, QueryTyped, SearchInv, NEW q \in Requests, Ask(q)
  PROVE  FilingInv' /\ QueryTyped' /\ SearchInv'
<1>1. /\ query = None /\ query' = q /\ qpc' = "mem" /\ source' = active /\ left' = Held(active)
      /\ before' = stored /\ filed' = InFiles /\ quiet' = (pass # "moving")
      /\ mem' = mem /\ active' = active /\ pass' = pass /\ stored' = stored
      /\ ordered' = ordered /\ fails' = fails /\ iCurHour' = iCurHour
      /\ umUnique' = umUnique /\ fileResult' = fileResult
      /\ UNCHANGED <<maps, around, child, fails, sent>>
  BY DEF Ask, maps, sent, answer
<1>2. FilingInv' /\ InFiles' = InFiles /\ LinesKept
  BY <1>1, QueryFiling
<1>3. None \notin Requests
  BY AroundAssumption
<1>4. qpc = "idle" /\ umUnique = Nowhere /\ fileResult = Nowhere
  BY <1>1, <1>3 DEF QueryTyped
<1>5. active \in {1, 2} /\ OrderInv /\ Conserved /\ FilesInv /\ MapsInv
  BY DEF FilingInv, MapsInv
<1>6. \A k \in Keys : umUnique'[k] = None
  BY <1>1, <1>4 DEF Nowhere
<1>7. QueryTyped'
  <2>1. Held(active) \subseteq Keys
    BY DEF Held
  <2>2. Nowhere' = Nowhere
    BY DEF Nowhere
  <2> QED
    BY <1>1, <1>2, <1>4, <1>5, <1>6, <2>1, <2>2 DEF QueryTyped
<1>8. ASSUME NEW k \in ordered PROVE SeenOrToCome(k)'
  <2>1. k \in Keys /\ SentInOrder(k)
    BY <1>5 DEF OrderInv
  <2>2. \A r \in Sought(k)' : r \in InFiles /\ KeyOf[r] = k
    BY <1>1 DEF Sought
  <2>3. \A i \in DOMAIN mem[active][k] : \A r \in Sought(k)' :
          TimeOf[r] <= TimeOf[mem[active][k][i]]
    BY <2>1, <2>2 DEF SentInOrder
  <2> QED
    BY <1>1, <1>6, <2>1, <2>3 DEF SeenOrToCome
<1>9. ASSUME NEW k \in ordered, quiet', fails' = 0 PROVE MetInMap(k)'
  <2> SUFFICES ASSUME NEW r \in stored, KeyOf[r] = k, r \notin InFiles
               PROVE  k \in Held(active) /\ InMap(source, r)'
    BY <1>1 DEF MetInMap
  <2>1. ~ToFile(r)
    BY <1>1, <1>9 DEF ToFile
  <2>2. InMap(active, r)
    BY <1>1, <1>5, <1>9, <2>1 DEF Conserved
  <2>3. k \in Keys
    BY <1>5 DEF OrderInv
  <2>4. PICK i \in DOMAIN mem[active][k] : mem[active][k][i] = r
    BY <2>2 DEF InMap
  <2>5. mem[active][k] # <<>>
    BY <2>4
  <2> QED
    BY <1>1, <2>2, <2>3, <2>5 DEF InMap, Held
<1>10. SearchInv'
  BY <1>1, <1>8, <1>9 DEF SearchInv
<1> QED
  BY <1>2, <1>7, <1>10

LEMMA MemStep ==
  ASSUME FilingInv, QueryTyped, SearchInv, NEW d \in Keys, query_mem(d)
  PROVE  FilingInv' /\ QueryTyped' /\ SearchInv'
<1>1. /\ qpc = "mem" /\ d \in Held(source) /\ (d \in left \/ umUnique[d] = None)
      /\ umUnique' = [umUnique EXCEPT ![d] = LastWanted(mem[source][d])] /\ left' = left \ {d}
      /\ query' = query /\ before' = before /\ filed' = filed /\ qpc' = qpc /\ source' = source
      /\ iCurHour' = iCurHour /\ cells' = cells /\ fileResult' = fileResult /\ quiet' = quiet
      /\ mem' = mem /\ active' = active /\ pass' = pass /\ stored' = stored
      /\ ordered' = ordered /\ fails' = fails
      /\ UNCHANGED <<maps, around, child, fails, sent>>
  BY DEF query_mem, maps, sent, asked
<1>2. FilingInv' /\ InFiles' = InFiles /\ LinesKept
  BY <1>1, QueryFiling
<1>3. /\ MapsInv /\ OrderInv /\ source \in {1, 2} /\ query \in Requests
      /\ umUnique \in [Keys -> Records \cup {None}] /\ left \subseteq Keys
  BY <1>1 DEF FilingInv, QueryTyped
<1>4. PICK v \in Seq(Records) : v = mem[source][d]
  BY <1>3, Maps
<1>5. PICK p : p = LastWanted(v)
  OBVIOUS
<1>6. p # None => \E i \in DOMAIN v : p = v[i] /\ Wanted(v[i])
  BY <1>5, LastIs
<1>7. umUnique[d] = None
  BY <1>1 DEF QueryTyped
<1>8. /\ umUnique' = [umUnique EXCEPT ![d] = p] /\ p \in Records \cup {None}
      /\ umUnique' \in [Keys -> Records \cup {None}]
      /\ umUnique'[d] = p /\ \A k \in Keys : k # d => umUnique'[k] = umUnique[k]
  <2>1. p \in Records \cup {None}
    BY <1>6
  <2>2. umUnique' = [umUnique EXCEPT ![d] = p]
    BY <1>1, <1>4, <1>5
  <2> QED
    BY <1>3, <2>1, <2>2
<1>9. QueryTyped'
  BY <1>1, <1>2, <1>8 DEF QueryTyped
<1>10. SearchInv'
  <2> SUFFICES ASSUME NEW k \in ordered, Clean(k)'
               PROVE  /\ SeenOrToCome(k)'
                      /\ quiet /\ fails = 0 => MetInMap(k)'
    BY <1>1 DEF SearchInv
  <2>1. SeenOrToCome(k) /\ (quiet /\ fails = 0 => MetInMap(k))
    BY <1>1, <1>2, CleanKept DEF SearchInv
  <2>2. Sought(k)' = Sought(k) /\ \A r : Wanted(r)' = Wanted(r)
    BY <1>1 DEF Sought, Wanted, InPeriod
  <2>3. k \in Keys /\ \A b \in {1, 2} : Sorted(mem[b][k])
    BY <1>3 DEF OrderInv, SentInOrder
  <2>4. umUnique'[k] # None => \A r \in Sought(k) : Covers(umUnique'[k], r)
    <3>1. CASE k = d
      <4> SUFFICES ASSUME p # None, NEW r \in Sought(k) PROVE Covers(p, r)
        BY <1>8, <3>1
      <4>1. PICK i \in DOMAIN v : p = v[i]
        BY <1>6
      <4>2. TimeOf[r] <= TimeOf[mem[source][k][i]]
        BY <1>1, <1>4, <2>1, <3>1 DEF SeenOrToCome
      <4> QED
        BY <1>4, <3>1, <4>1, <4>2 DEF Covers
    <3>2. CASE k # d
      BY <1>8, <2>1, <2>3, <3>2 DEF SeenOrToCome
    <3> QED
      BY <3>1, <3>2
  <2>5. SeenOrToCome(k)'
    BY <1>1, <2>1, <2>2, <2>4 DEF SeenOrToCome
  <2>6. ASSUME quiet, fails = 0 PROVE MetInMap(k)'
    <3>1. CASE k # d
      <4>1. umUnique'[k] = umUnique[k] /\ (k \in left => k \in left')
        BY <1>1, <1>8, <2>3, <3>1
      <4>2. \A r : InMap(source, r)' = InMap(source, r)
        BY <1>1 DEF InMap
      <4> QED
        BY <1>1, <2>1, <2>2, <2>6, <4>1, <4>2 DEF MetInMap
    <3>2. CASE k = d
      <4> SUFFICES ASSUME NEW r \in before, KeyOf[r] = k, Wanted(r), r \notin filed
                   PROVE  Covers(p, r)
        BY <1>1, <1>8, <2>2, <3>2 DEF MetInMap
      <4>1. ~Covers(umUnique[k], r)
        BY <1>7, <3>2 DEF Covers
      <4>2. InMap(source, r)
        BY <2>1, <2>6, <4>1 DEF MetInMap
      <4>3. PICK i \in DOMAIN v : v[i] = r
        BY <1>4, <3>2, <4>2 DEF InMap
      <4>4. Sorted(v)
        BY <1>3, <1>4, <2>3, <3>2
      <4> QED
        BY <1>3, <1>5, <4>3, <4>4, LastCovers
    <3> QED
      BY <3>1, <3>2
  <2> QED
    BY <2>5, <2>6
<1> QED
  BY <1>2, <1>9, <1>10

LEMMA EndMemStep ==
  ASSUME FilingInv, QueryTyped, SearchInv, EndMem
  PROVE  FilingInv' /\ QueryTyped' /\ SearchInv'
<1>1. /\ qpc = "mem" /\ left = {} /\ qpc' = "files"
      /\ iCurHour' = HourOf(query.end) /\ cells' = query.cells
      /\ query' = query /\ before' = before /\ filed' = filed /\ source' = source
      /\ left' = left /\ umUnique' = umUnique /\ fileResult' = fileResult /\ quiet' = quiet
      /\ stored' = stored /\ ordered' = ordered /\ fails' = fails
      /\ UNCHANGED <<maps, around, child, fails, sent>>
  BY DEF EndMem, maps, sent, asked, answer
<1>2. FilingInv' /\ InFiles' = InFiles /\ LinesKept
  BY <1>1, QueryFiling
<1>3. /\ query \in Requests /\ fileResult = Nowhere /\ filed \subseteq Records
      /\ ordered \subseteq Keys
  BY <1>1 DEF FilingInv, QueryTyped, FilesInv, MapsInv, OrderInv
<1>4. query.end \in Nat /\ HourOf(query.end) \in Nat
      /\ \A r \in query.selects : CellOf[r] \in query.cells
  BY <1>3, AroundAssumption, HourIs
<1>5. QueryTyped'
  BY <1>1, <1>2, <1>4 DEF QueryTyped
<1>6. SearchInv'
  <2> SUFFICES ASSUME NEW k \in ordered, Clean(k)'
               PROVE  /\ SeenOrToCome(k)'
                      /\ quiet /\ fails = 0 => MetInMap(k)'
    BY <1>1 DEF SearchInv
  <2>1. SeenOrToCome(k) /\ (quiet /\ fails = 0 => MetInMap(k))
    BY <1>1, <1>2, CleanKept DEF SearchInv
  <2>2. Sought(k)' = Sought(k) /\ \A r : Wanted(r)' = Wanted(r)
    BY <1>1 DEF Sought, Wanted, InPeriod
  <2>3. ASSUME NEW r \in Sought(k)
        PROVE  HourOf(TimeOf[r]) <= HourOf(query.end) /\ CellOf[r] \in query.cells
    <3>1. r \in Records /\ Wanted(r)
      BY <1>3 DEF Sought
    <3>2. TimeOf[r] <= query.end /\ TimeOf[r] \in Nat /\ r \in query.selects
      BY <3>1, FileIs DEF Wanted, InPeriod
    <3> QED
      BY <1>4, <3>2, HoursGrow
  <2>4. fileResult[k] = None
    BY <1>3 DEF Nowhere
  <2>5. SeenOrToCome(k)'
    BY <1>1, <2>1, <2>2, <2>3, <2>4 DEF SeenOrToCome
  <2>6. MetInMap(k) => MetInMap(k)'
    BY <1>1, <2>2 DEF MetInMap
  <2> QED
    BY <2>1, <2>5, <2>6
<1> QED
  BY <1>2, <1>5, <1>6

LEMMA ReadFileStep ==
  ASSUME FilingInv, QueryTyped, SearchInv, NEW c \in Cells, ReadFile(c)
  PROVE  FilingInv' /\ QueryTyped' /\ SearchInv'
<1>1. /\ qpc = "files" /\ c \in cells /\ cells' = cells \ {c} /\ qpc' = qpc
      /\ fileResult' = IF <<iCurHour, c>> \in Files THEN Taken(<<iCurHour, c>>) ELSE fileResult
      /\ query' = query /\ before' = before /\ filed' = filed /\ source' = source
      /\ left' = left /\ umUnique' = umUnique /\ iCurHour' = iCurHour /\ quiet' = quiet
      /\ stored' = stored /\ ordered' = ordered /\ fails' = fails
      /\ UNCHANGED <<maps, around, child, fails, sent>>
  BY DEF ReadFile, maps, sent, asked
<1>2. FilingInv' /\ InFiles' = InFiles /\ LinesKept
  BY <1>1, QueryFiling
<1>3. /\ FilesInv /\ fileResult \in Answers /\ filed \subseteq InFiles /\ filed \subseteq Records
      /\ ordered \subseteq Keys /\ around \in [Files -> Seq(Records)]
  BY DEF FilingInv, QueryTyped, FilesInv, MapsInv, OrderInv, Answers
<1>4. PICK f : f = <<iCurHour, c>>
  OBVIOUS
<1>5. ASSUME f \in Files
      PROVE  /\ fileResult' \in Answers
             /\ \A k \in Keys : \/ fileResult'[k] = fileResult[k]
                                \/ \E i \in DOMAIN around[f] : /\ around[f][i] = fileResult'[k]
                                                               /\ KeyOf[around[f][i]] = k
             /\ \A s \in Records, k \in Keys :
                  Covers(fileResult[k], s) => Covers(fileResult'[k], s)
             /\ \A i \in DOMAIN around[f] :
                  around[f][i] \in Counting => Covers(fileResult'[KeyOf[around[f][i]]], around[f][i])
  <2>1. fileResult' = Taken(f)
    BY <1>1, <1>4, <1>5
  <2>2. around[f] \in Seq(Records)
    BY <1>3, <1>5
  <2>3. ReadSoFar(Taken(f), Counting, fileResult, around[f], Len(around[f]))
    BY <1>3, <1>5, <2>2, TakenIs
  <2>4. DOMAIN around[f] = 1 .. Len(around[f])
    BY <2>2
  <2> QED
    BY <2>1, <2>3, <2>4 DEF ReadSoFar
<1>6. f \notin Files => fileResult' = fileResult
  BY <1>1, <1>4
<1>7. QueryTyped'
  <2>1. fileResult' \in [Keys -> Records \cup {None}]
    BY <1>3, <1>5, <1>6 DEF Answers
  <2> QED
    BY <1>1, <1>2, <2>1 DEF QueryTyped
<1>8. SearchInv'
  <2> SUFFICES ASSUME NEW k \in ordered, Clean(k)'
               PROVE  /\ SeenOrToCome(k)'
                      /\ quiet /\ fails = 0 => MetInMap(k)'
    BY <1>1 DEF SearchInv
  <2>1. Clean(k) /\ SeenOrToCome(k) /\ (quiet /\ fails = 0 => MetInMap(k)) /\ k \in Keys
    BY <1>1, <1>2, <1>3, CleanKept DEF SearchInv
  <2>2. Sought(k)' = Sought(k) /\ \A r : Wanted(r)' = Wanted(r)
    BY <1>1 DEF Sought, Wanted, InPeriod
  <2>3. ASSUME NEW g \in Files, NEW i \in DOMAIN around[g], KeyOf[around[g][i]] = k
        PROVE  g = FileOf(around[g][i]) /\ around[g][i] \in Records
    <3>1. PICK r \in Records : r = around[g][i]
      BY <1>3
    <3>2. g[2] = CellOf[r] /\ g[1] % (DayHours + DayGap) = HourOfDay(TimeOf[r])
      BY <1>3, <3>1 DEF FilesInv
    <3>3. ~Misfiled(r)
      BY <2>1, <2>3, <3>1 DEF Clean
    <3> QED
      BY <3>1, <3>2, <3>3 DEF Misfiled
  <2>4. ASSUME umUnique[k] = None, NEW r \in Sought(k), HourOf(TimeOf[r]) = iCurHour,
               CellOf[r] \notin cells'
        PROVE  Covers(fileResult'[k], r)
    <3>1. r \in filed /\ KeyOf[r] = k /\ Wanted(r) /\ r \in Records
      BY <1>3 DEF Sought
    <3>2. CASE CellOf[r] \in cells
      <4>1. CellOf[r] = c
        BY <1>1, <2>4, <3>2
      <4>2. FileOf(r) = f
        BY <1>4, <2>4, <4>1 DEF FileOf
      <4>3. PICK g \in Files : \E i \in DOMAIN around[g] : around[g][i] = r
        BY <1>3, <3>1 DEF InFiles
      <4>4. PICK i \in DOMAIN around[g] : around[g][i] = r
        BY <4>3
      <4>5. g = f
        BY <2>3, <3>1, <4>2, <4>4
      <4>6. r \in Counting
        BY <2>4, <3>1 DEF Counting
      <4> QED
        BY <1>5, <3>1, <4>4, <4>5, <4>6
    <3>3. CASE CellOf[r] \notin cells
      <4>1. Covers(fileResult[k], r)
        BY <1>1, <2>1, <2>4, <3>3 DEF SeenOrToCome
      <4> QED
        BY <1>5, <1>6, <2>1, <3>1, <4>1
    <3> QED
      BY <3>2, <3>3
  <2>5. fileResult'[k] # None => HourOf(TimeOf[fileResult'[k]]) = iCurHour
    <3>1. CASE fileResult'[k] = fileResult[k]
      BY <1>1, <2>1, <3>1 DEF SeenOrToCome
    <3>2. CASE fileResult'[k] # fileResult[k]
      <4>1. f \in Files
        BY <1>6, <3>2
      <4>2. PICK i \in DOMAIN around[f] : /\ around[f][i] = fileResult'[k]
                                          /\ KeyOf[around[f][i]] = k
        BY <1>5, <2>1, <3>2, <4>1
      <4>3. f = FileOf(fileResult'[k])
        BY <2>3, <4>1, <4>2
      <4> QED
        BY <1>4, <4>3 DEF FileOf
    <3> QED
      BY <3>1, <3>2
  <2>6. SeenOrToCome(k)'
    BY <1>1, <2>1, <2>2, <2>4, <2>5 DEF SeenOrToCome
  <2>7. MetInMap(k) => MetInMap(k)'
    BY <1>1, <2>2 DEF MetInMap
  <2> QED
    BY <2>1, <2>6, <2>7
<1> QED
  BY <1>2, <1>7, <1>8

LEMMA EndHourStep ==
  ASSUME FilingInv, QueryTyped, SearchInv, EndHour
  PROVE  FilingInv' /\ QueryTyped' /\ SearchInv'
<1>1. /\ qpc = "files" /\ cells = {}
      /\ umUnique' = [k \in Keys |-> IF umUnique[k] = None THEN fileResult[k] ELSE umUnique[k]]
      /\ fileResult' = Nowhere
      /\ \/ MoreHours /\ iCurHour' = iCurHour - 1 /\ cells' = query.cells /\ qpc' = qpc
         \/ ~MoreHours /\ qpc' = "done" /\ iCurHour' = iCurHour /\ cells' = cells
      /\ query' = query /\ before' = before /\ filed' = filed /\ source' = source
      /\ left' = left /\ quiet' = quiet
      /\ stored' = stored /\ ordered' = ordered /\ fails' = fails
      /\ UNCHANGED <<maps, around, child, fails, sent>>
  BY DEF EndHour, maps, sent, asked
<1>2. FilingInv' /\ InFiles' = InFiles /\ LinesKept
  BY <1>1, QueryFiling
<1>3. /\ query \in Requests /\ filed \subseteq Records /\ ordered \subseteq Keys
      /\ umUnique \in [Keys -> Records \cup {None}] /\ fileResult \in [Keys -> Records \cup {None}]
      /\ iCurHour \in Int
  BY <1>1 DEF FilingInv, QueryTyped, FilesInv, MapsInv, OrderInv
<1>4. query.begin \in Nat /\ HourOf(query.begin) \in Nat
      /\ \A r \in query.selects : CellOf[r] \in query.cells
  BY <1>3, AroundAssumption, HourIs
<1>5. Nowhere \in [Keys -> Records \cup {None}] /\ Nowhere' = Nowhere
  BY DEF Nowhere
<1>6. umUnique' \in [Keys -> Records \cup {None}]
  BY <1>1, <1>3
<1>7. QueryTyped'
  <2>1. iCurHour' \in Int /\ qpc' \in {"files", "done"}
    BY <1>1, <1>3
  <2> QED
    BY <1>1, <1>2, <1>5, <1>6, <2>1 DEF QueryTyped
<1>8. SearchInv'
  <2> SUFFICES ASSUME NEW k \in ordered, Clean(k)'
               PROVE  /\ SeenOrToCome(k)'
                      /\ quiet /\ fails = 0 => MetInMap(k)'
    BY <1>1 DEF SearchInv
  <2>1. SeenOrToCome(k) /\ (quiet /\ fails = 0 => MetInMap(k)) /\ k \in Keys
    BY <1>1, <1>2, <1>3, CleanKept DEF SearchInv
  <2>2. Sought(k)' = Sought(k) /\ \A r : Wanted(r)' = Wanted(r)
    BY <1>1 DEF Sought, Wanted, InPeriod
  <2>3. umUnique'[k] = (IF umUnique[k] = None THEN fileResult[k] ELSE umUnique[k])
        /\ fileResult'[k] = None
    BY <1>1, <2>1 DEF Nowhere
  <2>4. ASSUME NEW r \in Sought(k)
        PROVE  /\ r \in Records /\ TimeOf[r] \in Nat /\ HourOf(TimeOf[r]) \in Nat
               /\ HourOf(query.begin) <= HourOf(TimeOf[r]) /\ CellOf[r] \in query.cells
    <3>1. r \in Records /\ Wanted(r)
      BY <1>3 DEF Sought
    <3>2. TimeOf[r] \in Nat /\ HourOf(TimeOf[r]) \in Nat
      BY <3>1, FileIs, HourIs
    <3>3. query.begin <= TimeOf[r] /\ r \in query.selects
      BY <3>1 DEF Wanted, InPeriod
    <3> QED
      BY <1>4, <3>1, <3>2, <3>3, HoursGrow
  <2>5. ASSUME umUnique[k] = None, NEW r \in Sought(k)
        PROVE  /\ HourOf(TimeOf[r]) <= iCurHour
               /\ HourOf(TimeOf[r]) = iCurHour => Covers(fileResult[k], r)
    BY <1>1, <2>1, <2>5 DEF SeenOrToCome
  <2>6. umUnique'[k] # None => \A r \in Sought(k) : Covers(umUnique'[k], r)
    <3>1. CASE umUnique[k] # None
      BY <2>1, <2>3, <3>1 DEF SeenOrToCome
    <3>2. CASE umUnique[k] = None
      <4> SUFFICES ASSUME fileResult[k] # None, NEW r \in Sought(k)
                   PROVE  Covers(fileResult[k], r)
        BY <2>3, <3>2
      <4>1. CASE HourOf(TimeOf[r]) = iCurHour
        BY <2>5, <3>2, <4>1
      <4>2. CASE HourOf(TimeOf[r]) # iCurHour
        <5>1. PICK g \in Records : g = fileResult[k]
          BY <1>3, <2>1
        <5>2. HourOf(TimeOf[g]) = iCurHour /\ TimeOf[g] \in Nat
          BY <1>1, <2>1, <5>1, FileIs DEF SeenOrToCome
        <5>3. HourOf(TimeOf[r]) < HourOf(TimeOf[g])
          BY <1>3, <2>4, <2>5, <3>2, <4>2, <5>2
        <5>4. ~(TimeOf[g] <= TimeOf[r])
          <6>1. HourOf(TimeOf[g]) \in Nat
            BY <5>2, HourIs
          <6> QED
            BY <2>4, <5>2, <5>3, <6>1, HoursGrow
        <5> QED
          BY <2>4, <5>1, <5>2, <5>4 DEF Covers
      <4> QED
        BY <4>1, <4>2
    <3> QED
      BY <3>1, <3>2
  <2>7. ASSUME umUnique'[k] = None
        PROVE  umUnique[k] = None /\ fileResult[k] = None
    BY <2>3, <2>7
  <2>8. ASSUME umUnique'[k] = None, NEW r \in Sought(k)
        PROVE  HourOf(TimeOf[r]) <= iCurHour - 1
    <3>1. ~Covers(fileResult[k], r)
      BY <2>7, <2>8 DEF Covers
    <3>2. HourOf(TimeOf[r]) <= iCurHour /\ HourOf(TimeOf[r]) # iCurHour
      BY <2>5, <2>7, <2>8, <3>1
    <3> QED
      BY <1>3, <2>4, <3>2
  <2>9. ASSUME qpc' = "done", umUnique'[k] = None PROVE Sought(k) = {}
    <3> SUFFICES ASSUME NEW r \in Sought(k) PROVE FALSE
      OBVIOUS
    <3>1. ~MoreHours
      BY <1>1, <2>9
    <3>2. ~(iCurHour >= HourOf(query.begin))
      BY <3>1 DEF MoreHours
    <3>3. HourOf(TimeOf[r]) <= iCurHour - 1
      BY <2>8, <2>9
    <3> QED
      BY <1>3, <1>4, <2>4, <3>2, <3>3
  <2>10. ASSUME qpc' = "files", umUnique'[k] = None, NEW r \in Sought(k)
         PROVE  HourOf(TimeOf[r]) <= iCurHour' /\ CellOf[r] \in cells'
    <3>1. iCurHour' = iCurHour - 1 /\ cells' = query.cells
      BY <1>1, <2>10
    <3> QED
      BY <2>4, <2>8, <2>10, <3>1
  <2>11. qpc' # "mem"
    BY <1>1
  <2>12. SeenOrToCome(k)'
    BY <2>2, <2>3, <2>6, <2>9, <2>10, <2>11 DEF SeenOrToCome
  <2>13. MetInMap(k) => MetInMap(k)'
    <3>1. ASSUME NEW r, Covers(umUnique[k], r) PROVE Covers(umUnique'[k], r)
      BY <2>3, <3>1 DEF Covers
    <3> QED
      BY <1>1, <2>2, <3>1 DEF MetInMap
  <2> QED
    BY <2>1, <2>12, <2>13
<1> QED
  BY <1>2, <1>7, <1>8

LEMMA LeaveStep ==
  ASSUME FilingInv, Reply \/ Fault
  PROVE  FilingInv' /\ QueryTyped' /\ SearchInv'
<1>1. Forget /\ UNCHANGED <<maps, around, child, fails, sent>>
  BY DEF Reply, Fault
<1> QED
  BY <1>1, QueryFiling, Forgotten

-----------------------------------------------------------------------------
LEMMA AroundInitially == AroundInit => AroundInv
<1> SUFFICES ASSUME AroundInit PROVE FilingInv /\ QueryTyped /\ SearchInv
  BY DEF AroundInv
<1>1. /\ mem = [b \in {1, 2} |-> [k \in Keys |-> <<>>]] /\ active = 1 /\ pass = "wait"
      /\ stored = {}
  BY DEF AroundInit, Init
<1>2. /\ around = [f \in Files |-> <<>>] /\ visited = {} /\ key = NoKey /\ usNum = 0 /\ fails = 0
      /\ iAChanged = -1 /\ sGeoKeyOld = NoKey /\ fdAround = NoFile
      /\ ordered = Keys /\ latest = [k \in Keys |-> 0]
      /\ query = None /\ qpc = "idle" /\ before = {} /\ filed = {} /\ quiet = TRUE
      /\ source = 1 /\ left = {} /\ iCurHour = 0 /\ cells = {}
      /\ umUnique = Nowhere /\ fileResult = Nowhere
  BY DEF AroundInit
<1>3. DOMAIN <<>> = {} /\ <<>> \in Seq(Records)
  OBVIOUS
<1>4. \A b \in {1, 2}, k \in Keys : mem[b][k] = <<>> /\ DOMAIN mem[b][k] = {}
  BY <1>1, <1>3
<1>5. MapsInv
  <2>1. mem \in [{1, 2} -> [Keys -> Seq(Records)]]
    BY <1>1, <1>3
  <2> QED
    BY <1>1, <1>4, <2>1 DEF MapsInv
<1>6. InFiles = {}
  BY <1>2, <1>3 DEF InFiles
<1>7. FilesInv
  <2>1. \A f \in Files : DOMAIN around[f] = {}
    BY <1>2, <1>3
  <2>2. around \in [Files -> Seq(Records)]
    BY <1>2, <1>3
  <2> QED
    BY <1>6, <2>1, <2>2 DEF FilesInv
<1>8. ChildInv
  BY <1>2 DEF ChildInv
<1>9. OrderInv
  <2>1. ASSUME NEW k \in Keys PROVE SentInOrder(k)
    <3>1. \A b \in {1, 2} : Sorted(mem[b][k])
      BY <1>4 DEF Sorted
    <3>2. DOMAIN mem[active][k] = {}
      BY <1>1, <1>4
    <3> QED
      BY <1>1, <3>1, <3>2 DEF SentInOrder
  <2> QED
    BY <1>2, <2>1 DEF OrderInv
<1>10. Conserved
  BY <1>1 DEF Conserved
<1>11. QueryTyped
  <2>1. Nowhere \in [Keys -> Records \cup {None}]
    BY DEF Nowhere
  <2> QED
    BY <1>2, <2>1 DEF QueryTyped
<1>12. SearchInv
  BY <1>2 DEF SearchInv
<1> QED
  BY <1>5, <1>7, <1>8, <1>9, <1>10, <1>11, <1>12 DEF FilingInv

(* a record that has missed the current map is never made good             *)
LEMMA RacedStays == [AroundNext]_vars => (raced => raced')
<1> SUFFICES ASSUME [AroundNext]_vars, raced PROVE raced'
  OBVIOUS
<1>1. CASE UNCHANGED maps
  BY <1>1 DEF maps
<1>2. CASE Beside
  BY <1>2 DEF Beside, StoreStep, Send, Store, BeginPass, SwapMem, MemToLast, EndPass
<1>3. ASSUME NEW k \in Keys, WriteRecord(k) \/ OpenFails(k) \/ query_mem(k) PROVE UNCHANGED maps
  BY <1>3 DEF WriteRecord, OpenFails, query_mem
<1>4. (\E q \in Requests : Ask(q)) => UNCHANGED maps
  BY DEF Ask
<1>5. EndMem \/ (\E c \in Cells : ReadFile(c)) \/ EndHour \/ Reply \/ Fault => UNCHANGED maps
  BY DEF EndMem, ReadFile, EndHour, Reply, Fault
<1>6. UNCHANGED vars => UNCHANGED maps
  BY DEF vars
<1> QED
  BY <1>1, <1>2, <1>3, <1>4, <1>5, <1>6 DEF AroundNext

LEMMA AroundStep == AroundInv /\ [AroundNext]_vars => AroundInv'
<1> SUFFICES ASSUME AroundInv, [AroundNext]_vars, ~raced'
             PROVE  FilingInv' /\ QueryTyped' /\ SearchInv'
  BY DEF AroundInv
<1>1. FilingInv /\ QueryTyped /\ SearchInv
  BY RacedStays DEF AroundInv
<1>2. CASE UNCHANGED vars
  <2>1. /\ UNCHANGED <<maps, around, child, fails, sent>> /\ UNCHANGED <<asked, search, answer>>
        /\ quiet' = quiet
    BY <1>2 DEF vars
  <2>2. /\ mem' = mem /\ active' = active /\ pass' = pass /\ stored' = stored
        /\ ordered' = ordered /\ fails' = fails /\ source' = source
    BY <2>1 DEF maps, sent, search
  <2>3. FilingInv' /\ InFiles' = InFiles /\ LinesKept
    BY <1>1, <2>1, QueryFiling
  <2>4. \A r : InMap(source, r)' = InMap(source, r)
    BY <2>2 DEF InMap
  <2> QED
    BY <1>1, <2>1, <2>2, <2>3, <2>4, BesideQuery
<1>3. CASE Beside
  BY <1>1, <1>3, BesideStep
<1>4. CASE \E k \in Keys : WriteRecord(k) \/ OpenFails(k)
  BY <1>1, <1>4, ChildStep
<1>5. CASE \E q \in Requests : Ask(q)
  BY <1>1, <1>5, AskStep
<1>6. CASE \E k \in Keys : query_mem(k)
  BY <1>1, <1>6, MemStep
<1>7. CASE EndMem
  BY <1>1, <1>7, EndMemStep
<1>8. CASE \E c \in Cells : ReadFile(c)
  BY <1>1, <1>8, ReadFileStep
<1>9. CASE EndHour
  BY <1>1, <1>9, EndHourStep
<1>10. CASE Reply \/ Fault
  BY <1>1, <1>10, LeaveStep
<1> QED
  BY <1>2, <1>3, <1>4, <1>5, <1>6, <1>7, <1>8, <1>9, <1>10 DEF AroundNext

(* The maps, the files and the queries are as AroundInv says.              *)
THEOREM AroundInvariant == AroundSpec => []AroundInv
<1> QED
  BY AroundInitially, AroundStep, PTL DEF AroundSpec

LEMMA InvSeesFiled == AroundInv => FiledIsSeen
<1> SUFFICES ASSUME AroundInv, qpc = "done", NEW r \in filed, Expected(r) PROVE NotOlder(r)
  BY DEF FiledIsSeen
<1>1. QueryTyped /\ SearchInv /\ FilingInv /\ Wanted(r) /\ KeyOf[r] \in ordered
      /\ \A s \in Records : KeyOf[s] = KeyOf[r] => ~Misfiled(s)
  BY DEF AroundInv, Expected
<1>2. SeenOrToCome(KeyOf[r])
  BY <1>1 DEF SearchInv, Clean
<1>3. r \in Sought(KeyOf[r])
  BY <1>1 DEF Sought
<1>4. Covers(umUnique[KeyOf[r]], r)
  BY <1>2, <1>3 DEF SeenOrToCome
<1>5. r \in Records
  BY <1>1 DEF QueryTyped, FilingInv, FilesInv, MapsInv
<1>6. TimeOf[r] \in Nat /\ KeyOf[r] \in Keys /\ umUnique[KeyOf[r]] \in Records \cup {None}
  BY <1>1, <1>5, FileIs DEF QueryTyped
<1>7. umUnique[KeyOf[r]] \in Records /\ TimeOf[umUnique[KeyOf[r]]] \in Nat
  BY <1>4, <1>6, FileIs DEF Covers
<1> QED
  BY <1>4, <1>6, <1>7 DEF Covers, NotOlder

LEMMA InvIsNewest == AroundInv => AroundNewest
<1> SUFFICES ASSUME AroundInv, qpc = "done", quiet, fails = 0, NEW r \in before, Expected(r)
             PROVE  NotOlder(r)
  BY DEF AroundNewest
<1>1. QueryTyped /\ SearchInv /\ FilingInv /\ Wanted(r) /\ KeyOf[r] \in ordered
      /\ \A s \in Records : KeyOf[s] = KeyOf[r] => ~Misfiled(s)
  BY DEF AroundInv, Expected
<1>2. MetInMap(KeyOf[r])
  BY <1>1 DEF SearchInv, Clean
<1>3. CASE r \in filed
  BY <1>3, InvSeesFiled DEF FiledIsSeen
<1>4. CASE r \notin filed
  <2>1. Covers(umUnique[KeyOf[r]], r)
    BY <1>1, <1>2, <1>4 DEF MetInMap
  <2>2. r \in Records
    BY <1>1 DEF QueryTyped, FilingInv, MapsInv
  <2>3. TimeOf[r] \in Nat /\ KeyOf[r] \in Keys /\ umUnique[KeyOf[r]] \in Records \cup {None}
    BY <1>1, <2>2, FileIs DEF QueryTyped
  <2>4. umUnique[KeyOf[r]] \in Records /\ TimeOf[umUnique[KeyOf[r]]] \in Nat
    BY <2>1, <2>3, FileIs DEF Covers
  <2> QED
    BY <2>1, <2>3, <2>4 DEF Covers, NotOlder
<1> QED
  BY <1>3, <1>4

(* Whatever is stored and filed while a query runs, it reports of each     *)
(* device of the area a record that is not older than any that was in a    *)
(* file when it began: query_his_around goes back from the last hour, and  *)
(* what the children and the pass do meanwhile only adds newer records.    *)
THEOREM FiledSeen == AroundSpec => []FiledIsSeen
<1> QED
  BY AroundInvariant, InvSeesFiled, PTL

(* A query that meets no record on its way from the map to a file answers  *)
(* of each device of the area the last position of the period.             *)
THEOREM NewestAnswered == AroundSpec => []AroundNewest
<1> QED
  BY AroundInvariant, InvIsNewest, PTL
=============================================================================
