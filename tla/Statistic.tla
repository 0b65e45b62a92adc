----------------------------- MODULE Statistic -----------------------------
(***************************************************************************)
(* The statistic thread and the statistic queries.  Writers count every    *)
(* record in m_EachTotalData.  The thread looks at the clock every ten     *)
(* seconds: once per interval it appends each count, and their sum, to     *)
(* windows of the last m_cycleNum intervals; after midnight it writes them *)
(* to the file of the day that has ended.  Writers go on counting while it *)
(* iterates, and each count is read twice: for the device and for the sum. *)
(* A query of days reads the files backwards and reports the differences;  *)
(* it never closes a file it has read.                                     *)
(*                                                                         *)
(* Time is counted in ticks of ten seconds.  An iteration takes less than  *)
(* a tick.  The totals survive a restart: module TideStore shows how.      *)
(***************************************************************************)
EXTENDS Calendar, Sequences, SequencesExt, FiniteSets, FiniteSetsExt

CONSTANTS
  Keys,            (* device ids *)
  NoKey,           (* no device *)
  PartOf,          (* PartOf[k]: the ids in whose lines the text of k occurs *)
  FirstDay,        (* the date of tick 0 *)
  DayTicks,        (* ticks of a day *)
  m_intervalTime,  (* ticks between two statistics *)
  m_cycleNum,      (* length of the windows *)
  LastTick,        (* bound: the last tick *)
  MaxCount,        (* bound: records received *)
  MaxFds,          (* descriptors the process may still open *)
  MaxCrashes       (* bound: how often the process is killed *)

ASSUME StatisticAssumption ==
  /\ IsFiniteSet(Keys) /\ NoKey \notin Keys
  /\ PartOf \in [Keys -> SUBSET Keys] /\ \A k \in Keys : k \in PartOf[k]
  /\ IsDate(FirstDay)
  /\ DayTicks \in Nat \ {0} /\ m_intervalTime \in Nat \ {0} /\ m_cycleNum \in Nat \ {0}
  /\ LastTick \in Nat /\ MaxCount \in Nat /\ MaxFds \in Nat /\ MaxCrashes \in Nat

VARIABLES
  now,               (* the clock *)
  m_EachTotalData,   (* records counted per device; 0: not in the map *)
  m_TimerEachData,   (* window of each device *)
  m_TimerTotalData,  (* window of the sums *)
  m_nextTime,        (* when the next statistic is due *)
  nextTime,          (* the static of timer_day; 0: not initialised *)
  dayFile,           (* the files DayData/<date>: lines of devices, and the sum *)
  pc,                (* next step of the thread *)
  lTime,             (* when the thread looked last *)
  left,              (* devices the iteration has still to visit *)
  key,               (* the device whose count is to be added to the sum *)
  totalNum,          (* the sum so far *)
  fds,               (* descriptors that queries have left open *)
  crashes,
  midnight,          (* history: the counts when each day ended *)
  since,             (* history: day of the first look since the start; 0: none *)
  unfiled            (* history: days whose file could not be opened *)

windows == <<m_TimerEachData, m_TimerTotalData>>
timers  == <<m_nextTime, nextTime>>
scan    == <<left, key, totalNum>>
history == <<midnight, since, unfiled>>
vars == <<now, m_EachTotalData, windows, timers, dayFile, pc, lTime, scan, fds,
          crashes, history>>

(* the date of each day of the clock, the days counted from 1 *)
DayOf(t) == t \div DayTicks + 1
DateOfDay == LET dates[n \in 1 .. DayOf(LastTick)] ==
                   IF n = 1 THEN FirstDay ELSE Tomorrow(dates[n - 1])
             IN  dates
Date(t)  == DateOfDay[DayOf(t)]
today    == Date(now)
Midnight == (now \div DayTicks) * DayTicks + DayTicks

Sum(counts) == MapThenSumSet(LAMBDA k : counts[k], Keys)
Total       == Sum(m_EachTotalData)
Counted     == {k \in Keys : m_EachTotalData[k] > 0}

NoLines  == [k \in Keys |-> 0]
NoTotal  == -1
Complete(d) == d \in DOMAIN dayFile /\ dayFile[d].total # NoTotal

TypeOK ==
  /\ now \in 0 .. LastTick
  /\ m_EachTotalData \in [Keys -> Nat]
  /\ \A k \in Keys : Len(m_TimerEachData[k]) \in 0 .. m_cycleNum
  /\ Len(m_TimerTotalData) \in 0 .. m_cycleNum
  /\ m_nextTime \in Nat /\ nextTime \in Nat
  /\ \A d \in DOMAIN dayFile : /\ IsDate(d)
                               /\ dayFile[d].each \in [Keys -> Nat]
                               /\ dayFile[d].total \in Nat \cup {NoTotal}
  /\ pc \in {"down", "sleep", "statistic", "timer_day", "day"}
  /\ lTime \in 0 .. now
  /\ left \subseteq Keys /\ key \in Keys \cup {NoKey} /\ totalNum \in Nat
  /\ fds \in 0 .. MaxFds /\ crashes \in 0 .. MaxCrashes
  /\ since \in 0 .. DayOf(now)

Init ==
  /\ now = 0
  /\ m_EachTotalData = NoLines
  /\ m_TimerEachData = [k \in Keys |-> <<>>] /\ m_TimerTotalData = <<>>
  /\ m_nextTime = 0 /\ nextTime = 0
  /\ dayFile = << >>
  /\ pc = "down" /\ lTime = 0
  /\ left = {} /\ key = NoKey /\ totalNum = 0
  /\ fds = 0 /\ crashes = 0
  /\ midnight = << >> /\ since = 0 /\ unfiled = {}

(* f with the value v at d *)
Put(f, d, v) == [e \in DOMAIN f \cup {d} |-> IF e = d THEN v ELSE f[e]]

-----------------------------------------------------------------------------
(* time, and the writers *)

Tick ==
  /\ pc \in {"down", "sleep"}
  /\ now < LastTick
  /\ now' = now + 1
  /\ midnight' = IF now + 1 = Midnight THEN Put(midnight, today, m_EachTotalData) ELSE midnight
  /\ UNCHANGED <<m_EachTotalData, windows, timers, dayFile, pc, lTime, scan, fds,
                 crashes, since, unfiled>>

(* write_data.  An iteration may or may not meet a device that is inserted *)
(* while it runs.                                                          *)
write_data(k) ==
  /\ pc # "down"
  /\ Total < MaxCount
  /\ m_EachTotalData' = [m_EachTotalData EXCEPT ![k] = @ + 1]
  /\ \/ UNCHANGED left
     \/ /\ k \notin Counted /\ pc \in {"statistic", "day"}
        /\ left' = left \cup {k}
  /\ UNCHANGED <<now, windows, timers, dayFile, pc, lTime, key, totalNum, fds, crashes,
                 history>>

-----------------------------------------------------------------------------
(* the statistic thread *)

init_server ==
  /\ pc = "down"
  /\ pc' = "sleep"
  /\ lTime' = now
  /\ m_nextTime' = now + (m_intervalTime - (now % m_intervalTime))
  /\ UNCHANGED <<now, m_EachTotalData, windows, nextTime, dayFile, scan, fds, crashes, history>>

BugDueEarly == m_nextTime <= now + 1
Due         == m_nextTime <= now

(* start_server after a sleep of ten seconds, and timer: an interval that  *)
(* was missed is made up for at the next look.                             *)
Look ==
  /\ pc = "sleep"
  /\ now > lTime
  /\ lTime' = now
  /\ since' = IF since = 0 THEN DayOf(now) ELSE since
  /\ \/ /\ ~Due
        /\ pc' = "timer_day"
        /\ UNCHANGED <<m_nextTime, left>>
     \/ /\ Due
        /\ m_nextTime' = m_nextTime + m_intervalTime
        /\ pc' = "statistic"
        /\ left' = Counted
  /\ UNCHANGED <<now, m_EachTotalData, windows, nextTime, dayFile, key, totalNum, fds,
                 crashes, midnight, unfiled>>

(* a window with one entry more, without its oldest one if it was full *)
BugDropNewest(w, n) ==
  Append(IF Len(w) = m_cycleNum THEN Front(w) ELSE w, [time |-> lTime, count |-> n])
PushBack(w, n) ==
  Append(IF Len(w) = m_cycleNum THEN Tail(w) ELSE w, [time |-> lTime, count |-> n])

(* do_statistic: the count of a device goes to its window, and, read once  *)
(* more, to the sum                                                        *)
VisitDevice ==
  /\ pc = "statistic" /\ key = NoKey
  /\ \E k \in left :
       /\ m_TimerEachData' = [m_TimerEachData EXCEPT ![k] = PushBack(@, m_EachTotalData[k])]
       /\ left' = left \ {k}
       /\ key' = k
  /\ UNCHANGED <<now, m_EachTotalData, m_TimerTotalData, timers, dayFile, pc, lTime,
                 totalNum, fds, crashes, history>>

AddToTotal ==
  /\ pc \in {"statistic", "day"} /\ key # NoKey
  /\ totalNum' = totalNum + m_EachTotalData[key]
  /\ key' = NoKey
  /\ UNCHANGED <<now, m_EachTotalData, windows, timers, dayFile, pc, lTime, left, fds,
                 crashes, history>>

EndStatistic ==
  /\ pc = "statistic" /\ key = NoKey /\ left = {}
  /\ m_TimerTotalData' = PushBack(m_TimerTotalData, totalNum)
  /\ totalNum' = 0
  /\ pc' = "timer_day"
  /\ UNCHANGED <<now, m_EachTotalData, m_TimerEachData, timers, dayFile, lTime, left, key,
                 fds, crashes, history>>

(* timer_day; do_statistic_day names the file after the day before.  The   *)
(* static is initialised by the first look after the start.                *)
BugLookDay == Date(lTime)
FileDate   == DateOfDay[DayOf(lTime) - 1]

BugDayLater == IF nextTime = 0 THEN Midnight + DayTicks ELSE nextTime
DayEnd      == IF nextTime = 0 THEN Midnight ELSE nextTime

timer_day ==
  /\ pc = "timer_day"
  /\ \/ /\ DayEnd > lTime
        /\ nextTime' = DayEnd
        /\ pc' = "sleep"
        /\ UNCHANGED <<dayFile, left, unfiled>>
     \/ /\ DayEnd <= lTime
        /\ nextTime' = DayEnd + DayTicks
        /\ \/ /\ fds < MaxFds
              /\ dayFile' = Put(dayFile, FileDate, [each |-> NoLines, total |-> NoTotal])
              /\ left' = Counted
              /\ pc' = "day"
              /\ UNCHANGED unfiled
           \/ /\ fds = MaxFds
              /\ unfiled' = unfiled \cup {FileDate}
              /\ pc' = "sleep"
              /\ UNCHANGED <<dayFile, left>>
  /\ UNCHANGED <<now, m_EachTotalData, windows, m_nextTime, lTime, key, totalNum, fds,
                 crashes, midnight, since>>

WriteLine ==
  /\ pc = "day" /\ key = NoKey
  /\ \E k \in left :
       /\ dayFile' = [dayFile EXCEPT ![FileDate].each[k] = m_EachTotalData[k]]
       /\ left' = left \ {k}
       /\ key' = k
  /\ UNCHANGED <<now, m_EachTotalData, windows, timers, pc, lTime, totalNum, fds, crashes,
                 history>>

WriteTotal ==
  /\ pc = "day" /\ key = NoKey /\ left = {}
  /\ dayFile' = [dayFile EXCEPT ![FileDate].total = totalNum]
  /\ totalNum' = 0
  /\ pc' = "sleep"
  /\ UNCHANGED <<now, m_EachTotalData, windows, timers, lTime, left, key, fds, crashes,
                 history>>

(* The windows and the timers are lost, the descriptors are closed.        *)
Kill ==
  /\ pc # "down"
  /\ crashes < MaxCrashes
  /\ crashes' = crashes + 1
  /\ pc' = "down"
  /\ m_TimerEachData' = [k \in Keys |-> <<>>] /\ m_TimerTotalData' = <<>>
  /\ m_nextTime' = 0 /\ nextTime' = 0
  /\ left' = {} /\ key' = NoKey /\ totalNum' = 0
  /\ fds' = 0 /\ since' = 0
  /\ UNCHANGED <<now, m_EachTotalData, dayFile, lTime, midnight, unfiled>>

-----------------------------------------------------------------------------
(* The queries run in the REST thread.  query_statistic_daytotal and       *)
(* query_statistic_dayeach visit the days from the end of the query down   *)
(* to the day before its beginning.                                        *)
BugFromBegin(begin) == reduce_days2(begin, 1)
StartTime(begin)    == reduce_days2(begin, 2)

AllRanges == {r \in Range(DateOfDay) \X Range(DateOfDay) : r[1] <= r[2]}
Ranges    == {r \in AllRanges : r[2] <= today}

Visited == [r \in AllRanges |->
  LET n == Min({i \in 1 .. Cardinality(DOMAIN DateOfDay) + 2 :
                  reduce_days2(r[2], i) = StartTime(r[1])})
  IN [i \in 1 .. n |-> reduce_days2(r[2], i - 1)]]

(* the positions of days that have a file, and of those that are opened    *)
(* before descriptors run out                                              *)
HasFile(days) ==
  LET files == DOMAIN dayFile \ {today} IN {i \in DOMAIN days : days[i] \in files}
Opened(days)  ==
  LET has == HasFile(days)
  IN {i \in has : Cardinality({j \in has : j < i}) < MaxFds - fds}

Entry(d, n) == [time |-> d, count |-> n]

(* the numbers of a finite set from the least to the greatest *)
InOrder(S) ==
  [n \in 1 .. Cardinality(S) |-> CHOOSE i \in S : Cardinality({j \in S : j <= i}) = n]

(* Today's entry is the running count, that of another day its last line.  *)
(* The end of a file that was never completed may be read as any number:   *)
(* NoTotal stands for it.                                                  *)
TotalData(r) ==
  LET days == Visited[r]
      Has  == {i \in DOMAIN days : days[i] = today} \cup Opened(days)
      Data(i) == Entry(days[i], IF days[i] = today THEN Total ELSE dayFile[days[i]].total)
      order == InOrder(Has)
  IN [i \in DOMAIN order |-> Data(order[i])]

(* The line that strstr finds for k: that of any device whose id contains  *)
(* k.  Behind the lines of a file that was never completed the buffer holds *)
(* what it held before: NoTotal stands for what may be found there.        *)
Lines(k, d) == {k2 \in PartOf[k] : dayFile[d].each[k2] > 0}
LineCount(k, d) ==
  IF Lines(k, d) = {} THEN NoTotal
  ELSE dayFile[d].each[CHOOSE k2 \in Lines(k, d) : TRUE]

EachData(k, r) ==
  LET days == Visited[r]
      Has  == {i \in DOMAIN days : days[i] = today /\ k \in Counted}
              \cup {i \in Opened(days) : Lines(k, days[i]) # {} \/ ~Complete(days[i])}
      Data(i) == Entry(days[i], IF days[i] = today THEN m_EachTotalData[k]
                                ELSE LineCount(k, days[i]))
      order == InOrder(Has)
  IN [i \in DOMAIN order |-> Data(order[i])]

(* the rows of an answer, newest first; the oldest entry only serves as the *)
(* base unless it lies in the range                                        *)
DayRows(data, begin) ==
  LET Base(i) == IF i < Len(data) THEN data[i + 1].count ELSE 0
      All == [i \in DOMAIN data |-> Entry(data[i].time, data[i].count - Base(i))]
  IN IF data = <<>> \/ data[Len(data)].time >= begin THEN All ELSE Front(All)

(* query_statistic_realtotal and query_statistic_realeach, the difference  *)
(* of each interval                                                        *)
RealRows(window, current) ==
  [i \in DOMAIN window |->
     (IF i < Len(window) THEN window[i + 1].count ELSE current) - window[i].count]

QueryDays(r) ==
  /\ pc # "down"
  /\ fds' = fds + Cardinality(Opened(Visited[r]))
  /\ UNCHANGED <<now, m_EachTotalData, windows, timers, dayFile, pc, lTime, scan,
                 crashes, history>>

Next ==
  \/ Tick \/ init_server \/ Look \/ timer_day \/ Kill
  \/ VisitDevice \/ AddToTotal \/ EndStatistic \/ WriteLine \/ WriteTotal
  \/ \E k \in Keys : write_data(k)
  \/ \E r \in Ranges : QueryDays(r)

Spec == Init /\ [][Next]_vars

-----------------------------------------------------------------------------
SumAt(i) ==
  LET Back(k) == Len(m_TimerEachData[k]) - i
  IN Sum([k \in Keys |-> IF Back(k) >= 0 THEN m_TimerEachData[k][Back(k) + 1].count ELSE 0])

(* The windows stay in step, although a device joins later than the others *)
(* and each drops its oldest entry by itself: the entries of a device are  *)
(* those of the last intervals of the sum, their counts never decrease up  *)
(* to the present one, which the unsigned differences of the queries rely  *)
(* on, and add up to at most the sum, which is read later.                 *)
WindowsInStep ==
  pc # "statistic" =>
    /\ \A k \in Keys :
         LET w == m_TimerEachData[k]
             s == m_TimerTotalData
         IN /\ Len(w) <= Len(s)
            /\ \A i \in DOMAIN w : w[i].time = s[Len(s) - Len(w) + i].time
            /\ \A i \in DOMAIN w : RealRows(w, m_EachTotalData[k])[i] >= 0
    /\ \A i \in DOMAIN m_TimerTotalData :
         /\ RealRows(m_TimerTotalData, Total)[i] >= 0
         /\ SumAt(Len(m_TimerTotalData) - i + 1) <= m_TimerTotalData[i].count

(* No interval is counted before its end or twice, also after looks that   *)
(* came late: the n-th entry from the end is not older than n intervals    *)
(* before the next due time.                                               *)
NoEarlyInterval ==
  pc # "statistic" => \A i \in DOMAIN m_TimerTotalData :
    m_TimerTotalData[i].time
      >= m_nextTime - (Len(m_TimerTotalData) - i + 1) * m_intervalTime

(* the counts when the day d ended, and when the day after it did          *)
AtEnd(d)     == IF d = today THEN m_EachTotalData ELSE midnight[d]
AtNextEnd(d) == IF d = today THEN m_EachTotalData ELSE AtEnd(Tomorrow(d))

(* The file of a day is written after its midnight and before the next:    *)
(* its sum counts all records of the day and none that came later than the *)
(* day after; its lines add up to at most its sum.                         *)
DayFileInTime ==
  \A d \in DOMAIN dayFile : Complete(d) =>
    /\ dayFile[d].total \in Sum(AtEnd(d)) .. Sum(AtNextEnd(d))
    /\ Sum(dayFile[d].each) <= dayFile[d].total

(* Once the thread has looked on an earlier day, its first look of a day   *)
(* writes the file of the day before, unless no descriptor was left.       *)
MidnightFiled ==
  (pc = "sleep" /\ since # 0 /\ since < DayOf(lTime)) =>
    Complete(FileDate) \/ FileDate \in unfiled

(* The rows of an answer, given its data and the bounds of what had been   *)
(* counted at the end of a day and a day later: they are of days in range, *)
(* a row counts nothing that the row before it counted, and no day of the  *)
(* range that has data is left out.                                        *)
SoundRows(data, r, low, high) ==
  LET rows == DayRows(data, r[1])
  IN /\ \A i \in DOMAIN rows :
          LET d == data[i].time
              n == rows[i].count
          IN /\ rows[i].time = d /\ r[1] <= d /\ d <= r[2]
             /\ IF i = Len(data) THEN low[d] <= n /\ n <= high[d]
                ELSE LET e == data[i + 1].time
                     IN low[d] - high[e] <= n /\ n <= high[d] - low[e]
     /\ \A i \in DOMAIN data : data[i].time >= r[1] => i \in DOMAIN rows

AllOpened(r) == Opened(Visited[r]) = HasFile(Visited[r])

(* Whatever files are missing, the rows of the days are right as long as   *)
(* every file read was completed, for a device if its id is not part of    *)
(* another's.  While descriptors last, every day of the range that has a   *)
(* file is in the answer, and the day before it as the base.  At the other *)
(* steps of the thread files and counts are as at one of these two.        *)
DayRowsSound ==
  LET has      == DOMAIN dayFile \cup {today}
      low      == [d \in has |-> Sum(AtEnd(d))]
      high     == [d \in has |-> Sum(AtNextEnd(d))]
      lowOf(k) == [d \in has |-> AtEnd(d)[k]]
      highOf(k) == [d \in has |-> AtNextEnd(d)[k]]
      Sound(data, r, l, h) ==
        (\A i \in DOMAIN data : data[i].count # NoTotal) => SoundRows(data, r, l, h)
  IN pc \in {"sleep", "day"} => \A r \in Ranges :
       LET data == TotalData(r)
       IN /\ Sound(data, r, low, high)
          /\ AllOpened(r) => \A d \in DOMAIN dayFile : DayBefore(r[1]) <= d /\ d <= r[2] =>
                                \E i \in DOMAIN data : data[i].time = d
          /\ \A k \in Keys : PartOf[k] = {k} =>
               Sound(EachData(k, r), r, lowOf(k), highOf(k))
=============================================================================
