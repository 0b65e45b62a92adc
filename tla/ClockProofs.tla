---------------------------- MODULE ClockProofs ----------------------------
(***************************************************************************)
(* Proofs about the threads that live by the date: the cleaning (Cleaning) *)
(* and the statistics (Statistic).                                         *)
(*                                                                         *)
(* The first part is the calendar: dates in order have numbers in order,   *)
(* and Tomorrow and reduce_days2 move by one day and by the days told.     *)
(*                                                                         *)
(* The second is what the cleaning keeps and what it deletes, for any days *)
(* to save, any dates and any minutes missed.  reduce_days counts months   *)
(* of 30 days and years of 365; the calendar has 28 to 31 and 365 or 366.  *)
(* So a date is put between bounds in months of 30 days (AboutRough), the  *)
(* limit lies the given days back in those (Limit), and the 29ths of       *)
(* February of the at most four years between them are at most one         *)
(* (LeapsGrow).                                                            *)
(*                                                                         *)
(* The third is the statistics.  For any devices, lengths of days,         *)
(* intervals and windows, and any number of kills:                         *)
(*   - IntervalsApart, from an invariant that numbers the entries of the   *)
(*     window of the sums from the next due time back;                     *)
(*   - DaysFiled, from MidnightInv: the static of timer_day is a midnight  *)
(*     between the first look and the last one;                            *)
(*   - WindowsAgree, from AddInv (what an iteration has added and what it  *)
(*     has still to add never exceed what was counted) and an invariant on *)
(*     each device's window, in the middle of an iteration too;            *)
(*   - DayFilesInTime, from FileInv: while the file of a day is written,   *)
(*     its lines are behind the sum, and the sum will reach what had been  *)
(*     counted when the day ended.  It needs that no two days of the clock *)
(*     have one date, so Tomorrow is shown to lead to later dates;         *)
(*   - DayRowsRight, from LinesInv (the same of each line, in the files    *)
(*     that were never completed too) and from what a query reads: the     *)
(*     days it goes back to one by one (DaysVisited), those with a file in *)
(*     their order (InOrderIs), and the differences (RowsSound).           *)
(* Sums over the devices are sums over a finite set: this part begins with *)
(* how they change with one count.                                         *)
(***************************************************************************)
EXTENDS Statistic, Cleaning, FiniteSetTheorems, WellFoundedInduction, TLAPS

-----------------------------------------------------------------------------
(* Induction over the numbers of a set.                                    *)
LEMMA SetInduction ==
  ASSUME NEW S, 0 \in S, \A n \in Nat : n \in S => n + 1 \in S
  PROVE  \A n \in Nat : n \in S
<1> DEFINE less == OpToRel(<, Nat)
           out  == Nat \ S
<1> SUFFICES ASSUME out # {} PROVE FALSE
  OBVIOUS
<1>1. IsWellFoundedOn(less, Nat)
  BY NatLessThanWellFounded
<1>2. PICK n \in out : \A m \in out : <<m, n>> \notin less
  <2> out \subseteq Nat
    OBVIOUS
  <2> HIDE DEF less, out
  <2> QED
    BY <1>1, WFMin
<1>3. \A m \in out : ~(m < n)
  BY <1>2 DEF OpToRel
<1>4. n \in Nat /\ n # 0
  BY <1>2
<1>5. n - 1 \notin out /\ n - 1 \in Nat
  BY <1>3, <1>4
<1>6. (n - 1) + 1 = n
  BY <1>4
<1> QED
  BY <1>2, <1>5, <1>6

(* Division by the definition.                                             *)
LEMMA Quotient ==
  ASSUME NEW n \in Nat, NEW t \in Nat \ {0}, NEW q \in Nat, NEW r \in 0 .. t - 1, n = q * t + r
  PROVE  n \div t = q /\ n % t = r
<1>1. n \div t \in Nat /\ n = (n \div t) * t + (n % t) /\ n % t \in 0 .. t - 1
  OBVIOUS
<1>2. PICK p \in Nat, s \in 0 .. t - 1 : p = n \div t /\ s = n % t /\ n = p * t + s
  BY <1>1
<1>3. ~(p < q)
  <2> SUFFICES ASSUME p < q PROVE FALSE
    OBVIOUS
  <2>1. p * t + t <= q * t /\ p * t \in Nat /\ q * t \in Nat
    OBVIOUS
  <2> QED
    BY <1>2, <2>1
<1>4. ~(q < p)
  <2> SUFFICES ASSUME q < p PROVE FALSE
    OBVIOUS
  <2>1. q * t + t <= p * t /\ p * t \in Nat /\ q * t \in Nat
    OBVIOUS
  <2> QED
    BY <1>2, <2>1
<1>5. p = q /\ q * t \in Nat
  BY <1>3, <1>4
<1> QED
  BY <1>2, <1>5

(* The dates of the days, which the calendar makes follow each other.      *)
OnCalendar(d) == /\ d \in Nat /\ Month(d) \in 1 .. 12
                 /\ Day(d) \in 1 .. MonthDays(Year(d), Month(d))

LEMMA MonthBounds == ASSUME NEW y, NEW m PROVE MonthDays(y, m) \in 28 .. 31
BY DEF MonthDays

LEMMA DateParts ==
  ASSUME NEW y \in Nat, NEW m \in 0 .. 99, NEW x \in 0 .. 99
  PROVE  /\ DateOf(y, m, x) \in Nat
         /\ Year(DateOf(y, m, x)) = y /\ Month(DateOf(y, m, x)) = m /\ Day(DateOf(y, m, x)) = x
<1>1. PICK n \in Nat, q \in Nat : /\ n = DateOf(y, m, x) /\ q = y * 100 + m
                                 /\ n = q * 100 + x /\ n = y * 10000 + (m * 100 + x)
  BY DEF DateOf
<1>2. n \div 100 = q /\ n % 100 = x
  BY <1>1, Quotient
<1>3. q % 100 = m
  BY <1>1, Quotient
<1>4. n \div 10000 = y
  <2>1. m * 100 + x \in 0 .. 10000 - 1
    OBVIOUS
  <2> QED
    BY <1>1, <2>1, Quotient
<1> QED
  BY <1>1, <1>2, <1>3, <1>4 DEF Year, Month, Day

LEMMA DateFrom ==
  ASSUME NEW d \in Nat
  PROVE  /\ Year(d) \in Nat /\ Month(d) \in 0 .. 99 /\ Day(d) \in 0 .. 99
         /\ d = DateOf(Year(d), Month(d), Day(d))
<1>1. PICK q \in Nat, x \in 0 .. 99 : q = d \div 100 /\ x = d % 100 /\ d = q * 100 + x
  <2>1. d \div 100 \in Nat /\ d % 100 \in 0 .. 99 /\ d = (d \div 100) * 100 + (d % 100)
    OBVIOUS
  <2> QED
    BY <2>1
<1>2. PICK y \in Nat, m \in 0 .. 99 : m = q % 100 /\ q = y * 100 + m
  <2>1. q \div 100 \in Nat /\ q % 100 \in 0 .. 99 /\ q = (q \div 100) * 100 + (q % 100)
    OBVIOUS
  <2> QED
    BY <2>1
<1>3. d = DateOf(y, m, x)
  BY <1>1, <1>2 DEF DateOf
<1>4. Year(d) = y /\ Month(d) = m /\ Day(d) = x
  BY <1>3, DateParts
<1> QED
  BY <1>3, <1>4

LEMMA DateOrder ==
  ASSUME NEW y \in Nat, NEW m \in 1 .. 12, NEW x \in 1 .. 31
  PROVE  /\ DateOf(y, m, x) + 1 = DateOf(y, m, x + 1)
         /\ DateOf(y, m, x) < DateOf(y, m, x + 1)
         /\ DateOf(y, m, x) < DateOf(y, m + 1, 1)
         /\ DateOf(y, m, x) < DateOf(y + 1, 1, 1)
BY DEF DateOf

LEMMA DateIs ==
  ASSUME NEW y \in Nat, NEW m \in 1 .. 12, NEW x \in 1 .. 31, x <= MonthDays(y, m)
  PROVE  OnCalendar(DateOf(y, m, x))
<1>1. m \in 0 .. 99 /\ x \in 0 .. 99
  OBVIOUS
<1>2. /\ DateOf(y, m, x) \in Nat /\ Year(DateOf(y, m, x)) = y
      /\ Month(DateOf(y, m, x)) = m /\ Day(DateOf(y, m, x)) = x
  BY <1>1, DateParts, Zenon
<1>3. MonthDays(y, m) \in 28 .. 31
  BY MonthBounds, Zenon
<1>4. x \in 1 .. MonthDays(y, m)
  BY <1>3
<1> QED
  BY <1>2, <1>4, Zenon DEF OnCalendar

LEMMA NextDate ==
  ASSUME NEW d, OnCalendar(d)
  PROVE  OnCalendar(Tomorrow(d)) /\ d < Tomorrow(d)
<1>a. d \in Nat /\ Month(d) \in 1 .. 12 /\ Day(d) \in 1 .. MonthDays(Year(d), Month(d))
  BY Zenon DEF OnCalendar
<1>b. Year(d) \in Nat /\ d = DateOf(Year(d), Month(d), Day(d))
  BY <1>a, DateFrom, Zenon
<1>c. MonthDays(Year(d), Month(d)) \in 28 .. 31
  BY MonthBounds, Zenon
<1>d. Day(d) \in 1 .. 31 /\ Day(d) <= MonthDays(Year(d), Month(d))
  BY <1>a, <1>c
<1>1. PICK y \in Nat, m \in 1 .. 12, x \in 1 .. 31 :
         /\ y = Year(d) /\ m = Month(d) /\ x = Day(d) /\ d = DateOf(y, m, x)
         /\ x <= MonthDays(y, m)
  BY <1>a, <1>b, <1>d, Zenon
<1>2. PICK l \in 28 .. 31 : l = MonthDays(y, m)
  BY <1>1, <1>c, Zenon
<1>3. CASE x < l
  <2>1. x + 1 \in 1 .. 31 /\ x + 1 <= l
    BY <1>3
  <2>2. OnCalendar(DateOf(y, m, x + 1))
    BY <1>2, <2>1, DateIs, Zenon
  <2>3. DateOf(y, m, x) + 1 = DateOf(y, m, x + 1) /\ DateOf(y, m, x) < DateOf(y, m, x + 1)
    BY DateOrder, Zenon
  <2>4. Tomorrow(d) = d + 1
    BY <1>1, <1>2, <1>3, Zenon DEF Tomorrow
  <2> QED
    BY <1>1, <2>2, <2>3, <2>4, Zenon
<1>4. CASE ~(x < l) /\ m < 12
  <2>1. m + 1 \in 1 .. 12
    BY <1>4
  <2>2. MonthDays(y, m + 1) \in 28 .. 31
    BY MonthBounds, Zenon
  <2>3. 1 \in 1 .. 31 /\ 1 <= MonthDays(y, m + 1)
    BY <2>2
  <2>4. OnCalendar(DateOf(y, m + 1, 1))
    BY <2>1, <2>3, DateIs, Zenon
  <2>5. DateOf(y, m, x) < DateOf(y, m + 1, 1)
    BY DateOrder, Zenon
  <2>6. Tomorrow(d) = DateOf(y, m + 1, 1)
    BY <1>1, <1>2, <1>4, Zenon DEF Tomorrow
  <2> QED
    BY <1>1, <2>4, <2>5, <2>6, Zenon
<1>5. CASE ~(x < l) /\ ~(m < 12)
  <2>1. y + 1 \in Nat /\ 1 \in 1 .. 12
    OBVIOUS
  <2>2. MonthDays(y + 1, 1) \in 28 .. 31
    BY MonthBounds, Zenon
  <2>3. 1 \in 1 .. 31 /\ 1 <= MonthDays(y + 1, 1)
    BY <2>2
  <2>4. OnCalendar(DateOf(y + 1, 1, 1))
    BY <2>1, <2>3, DateIs, Zenon
  <2>5. DateOf(y, m, x) < DateOf(y + 1, 1, 1)
    BY DateOrder, Zenon
  <2>6. Tomorrow(d) = DateOf(y + 1, 1, 1)
    BY <1>1, <1>2, <1>5, Zenon DEF Tomorrow
  <2> QED
    BY <1>1, <2>4, <2>5, <2>6, Zenon
<1> QED
  BY <1>3, <1>4, <1>5


-----------------------------------------------------------------------------
(* The count of days.                                                      *)
Leaps(y)     == y \div 4 - y \div 100 + y \div 400
LeapDay(y)   == IF LeapYear(y) THEN 1 ELSE 0
InYear(y, m) == DaysBefore[m] + (IF LeapYear(y) /\ m > 2 THEN 1 ELSE 0)
Num(y, m, x) == 365 * (y - 1) + Leaps(y - 1) + InYear(y, m) + x

LEMMA NumberIs ==
  ASSUME NEW d \in Nat, Month(d) \in 1 .. 12
  PROVE  DayNumber(d) = Num(Year(d), Month(d), Day(d))
<1>1. PICK y \in Int : y = Year(d) - 1
  <2>1. Year(d) \in Nat
    BY DateFrom
  <2> QED
    BY <2>1
<1>2. PICK b \in Int : b = DaysBefore[Month(d)]
  BY DEF DaysBefore
<1>3. PICK x \in Int : x = Day(d)
  BY DateFrom
<1>4. PICK l \in Int : l = IF LeapYear(Year(d)) /\ Month(d) > 2 THEN 1 ELSE 0
  OBVIOUS
<1>5. DayNumber(d) = 365 * y + y \div 4 - y \div 100 + y \div 400 + b + x + l
  BY <1>1, <1>2, <1>3, <1>4 DEF DayNumber
<1>6. Num(Year(d), Month(d), Day(d)) = 365 * y + (y \div 4 - y \div 100 + y \div 400) + (b + l) + x
  BY <1>1, <1>2, <1>3, <1>4 DEF Num, Leaps, InYear
<1>7. y \div 4 \in Int /\ y \div 100 \in Int /\ y \div 400 \in Int
  OBVIOUS
<1> QED
  BY <1>5, <1>6, <1>7

LEMMA LeapsAre ==
  ASSUME NEW c \in Nat, NEW b \in 0 .. 3, NEW a \in 0 .. 24, NEW r \in 0 .. 3, NEW y \in Nat,
         y = 400 * c + 100 * b + 4 * a + r
  PROVE  /\ Leaps(y) = 97 * c + 24 * b + a
         /\ r = 0 /\ (a # 0 \/ b = 0) => LeapYear(y)
         /\ r # 0 \/ (a = 0 /\ b # 0) => ~LeapYear(y)
<1>1. PICK f \in Nat, h \in Nat : /\ f = 100 * c + 25 * b + a /\ h = 4 * c + b
                                  /\ y = 400 * c + 100 * b + 4 * a + r
  OBVIOUS
<1>2. y \div 4 = f /\ y % 4 = r
  <2>1. y = f * 4 + r
    BY <1>1
  <2> QED
    BY <2>1, Quotient
<1>3. y \div 100 = h /\ y % 100 = 4 * a + r
  <2>1. y = h * 100 + (4 * a + r) /\ 4 * a + r \in 0 .. 100 - 1
    BY <1>1
  <2> QED
    BY <2>1, Quotient
<1>4. y \div 400 = c /\ y % 400 = 100 * b + 4 * a + r
  <2>1. y = c * 400 + (100 * b + 4 * a + r) /\ 100 * b + 4 * a + r \in 0 .. 400 - 1
    BY <1>1
  <2> QED
    BY <2>1, Quotient
<1>5. Leaps(y) = 97 * c + 24 * b + a
  BY <1>1, <1>2, <1>3, <1>4 DEF Leaps
<1>6. /\ r = 0 /\ (a # 0 \/ b = 0) => LeapYear(y)
      /\ r # 0 \/ (a = 0 /\ b # 0) => ~LeapYear(y)
  BY <1>2, <1>3, <1>4 DEF LeapYear
<1> QED
  BY <1>1, <1>5, <1>6

LEMMA YearParts ==
  ASSUME NEW y \in Nat
  PROVE  \E c \in Nat, b \in 0 .. 3, a \in 0 .. 24, r \in 0 .. 3 : y = 400 * c + 100 * b + 4 * a + r
<1>1. PICK c \in Nat, t \in 0 .. 399 : y = c * 400 + t
  <2>1. y \div 400 \in Nat /\ y % 400 \in 0 .. 399 /\ y = (y \div 400) * 400 + (y % 400)
    OBVIOUS
  <2> QED
    BY <2>1
<1>2. PICK b \in 0 .. 3, s \in 0 .. 99 : t = b * 100 + s
  <2>1. t \div 100 \in 0 .. 3 /\ t % 100 \in 0 .. 99 /\ t = (t \div 100) * 100 + (t % 100)
    OBVIOUS
  <2> QED
    BY <2>1
<1>3. PICK a \in 0 .. 24, r \in 0 .. 3 : s = a * 4 + r
  <2>1. s \div 4 \in 0 .. 24 /\ s % 4 \in 0 .. 3 /\ s = (s \div 4) * 4 + (s % 4)
    OBVIOUS
  <2> QED
    BY <2>1
<1>4. y = 400 * c + 100 * b + 4 * a + r
  BY <1>1, <1>2, <1>3
<1> QED
  BY <1>4

LEMMA NextLeap ==
  ASSUME NEW y \in Nat
  PROVE  /\ Leaps(y) \in Nat /\ Leaps(y + 1) = Leaps(y) + LeapDay(y + 1)
         /\ Leaps(y + 4) <= Leaps(y) + 1
<1>1. PICK c \in Nat, b \in 0 .. 3, a \in 0 .. 24, r \in 0 .. 3 : y = 400 * c + 100 * b + 4 * a + r
  BY YearParts
<1>2. Leaps(y) = 97 * c + 24 * b + a
  BY <1>1, LeapsAre
<1>3. PICK y1 \in Nat, y4 \in Nat, c1 \in Nat : y1 = y + 1 /\ y4 = y + 4 /\ c1 = c + 1
  OBVIOUS
<1>4. LeapYear(y1) => LeapDay(y1) = 1
  BY Zenon DEF LeapDay
<1>5. ~LeapYear(y1) => LeapDay(y1) = 0
  BY Zenon DEF LeapDay
<1>6. Leaps(y1) = Leaps(y) + LeapDay(y1)
  <2>a. CASE r < 3
    <3>1. y1 = 400 * c + 100 * b + 4 * a + (r + 1) /\ b \in 0 .. 3 /\ a \in 0 .. 24
          /\ (r + 1) \in 0 .. 3 /\ ((r + 1) = 0 => a # 0 \/ b # 0)
      BY <1>1, <1>3, <2>a
    <3>2. Leaps(y1) = 97 * c + 24 * b + a /\ ~LeapYear(y1)
      BY <2>a, <3>1, LeapsAre
    <3>3. LeapDay(y1) = 0
      BY <1>4, <1>5, <3>2, Zenon
    <3> QED
      BY <1>2, <1>3, <2>a, <3>2, <3>3
  <2>b. CASE r = 3 /\ a < 24
    <3>1. y1 = 400 * c + 100 * b + 4 * (a + 1) + 0 /\ b \in 0 .. 3 /\ (a + 1) \in 0 .. 24
          /\ 0 \in 0 .. 3 /\ (0 = 0 => (a + 1) # 0 \/ b = 0)
      BY <1>1, <1>3, <2>b
    <3>2. Leaps(y1) = 97 * c + 24 * b + (a + 1) /\ LeapYear(y1)
      BY <2>b, <3>1, LeapsAre
    <3>3. LeapDay(y1) = 1
      BY <1>4, <1>5, <3>2, Zenon
    <3> QED
      BY <1>2, <1>3, <2>b, <3>2, <3>3
  <2>c. CASE r = 3 /\ a = 24 /\ b < 3
    <3>1. y1 = 400 * c + 100 * (b + 1) + 4 * 0 + 0 /\ (b + 1) \in 0 .. 3 /\ 0 \in 0 .. 24
          /\ 0 \in 0 .. 3 /\ (0 = 0 => 0 # 0 \/ (b + 1) # 0)
      BY <1>1, <1>3, <2>c
    <3>2. Leaps(y1) = 97 * c + 24 * (b + 1) + 0 /\ ~LeapYear(y1)
      BY <2>c, <3>1, LeapsAre
    <3>3. LeapDay(y1) = 0
      BY <1>4, <1>5, <3>2, Zenon
    <3> QED
      BY <1>2, <1>3, <2>c, <3>2, <3>3
  <2>d. CASE r = 3 /\ a = 24 /\ b = 3
    <3>1. y1 = 400 * c1 + 100 * 0 + 4 * 0 + 0 /\ 0 \in 0 .. 3 /\ 0 \in 0 .. 24
          /\ 0 \in 0 .. 3 /\ (0 = 0 => 0 # 0 \/ 0 = 0)
      BY <1>1, <1>3, <2>d
    <3>2. Leaps(y1) = 97 * c1 + 24 * 0 + 0 /\ LeapYear(y1)
      BY <2>d, <3>1, LeapsAre
    <3>3. LeapDay(y1) = 1
      BY <1>4, <1>5, <3>2, Zenon
    <3> QED
      BY <1>2, <1>3, <2>d, <3>2, <3>3
  <2> QED
    BY <2>a, <2>b, <2>c, <2>d
<1>7. Leaps(y4) <= Leaps(y) + 1
  <2>a. CASE a < 24
    <3>1. y4 = 400 * c + 100 * b + 4 * (a + 1) + r /\ b \in 0 .. 3 /\ (a + 1) \in 0 .. 24
      BY <1>1, <1>3, <2>a
    <3>2. Leaps(y4) = 97 * c + 24 * b + (a + 1)
      BY <3>1, LeapsAre
    <3> QED
      BY <1>2, <1>3, <2>a, <3>2
  <2>b. CASE a = 24 /\ b < 3
    <3>1. y4 = 400 * c + 100 * (b + 1) + 4 * 0 + r /\ (b + 1) \in 0 .. 3 /\ 0 \in 0 .. 24
      BY <1>1, <1>3, <2>b
    <3>2. Leaps(y4) = 97 * c + 24 * (b + 1) + 0
      BY <3>1, LeapsAre
    <3> QED
      BY <1>2, <1>3, <2>b, <3>2
  <2>c. CASE a = 24 /\ b = 3
    <3>1. y4 = 400 * c1 + 100 * 0 + 4 * 0 + r /\ 0 \in 0 .. 3 /\ 0 \in 0 .. 24
      BY <1>1, <1>3, <2>c
    <3>2. Leaps(y4) = 97 * c1 + 24 * 0 + 0
      BY <3>1, LeapsAre
    <3> QED
      BY <1>2, <1>3, <2>c, <3>2
  <2> QED
    BY <2>a, <2>b, <2>c
<1> QED
  BY <1>2, <1>3, <1>6, <1>7

LEMMA LeapsGrow ==
  ASSUME NEW y \in Nat, NEW k \in 0 .. 4
  PROVE  Leaps(y) <= Leaps(y + k) /\ Leaps(y + k) <= Leaps(y) + 1
<1>1. /\ Leaps(y) \in Nat /\ Leaps(y + 4) <= Leaps(y) + 1
      /\ Leaps(y + 1) = Leaps(y) + LeapDay(y + 1)
  BY NextLeap
<1>2. Leaps(y + 1) \in Nat /\ Leaps(y + 2) = Leaps(y + 1) + LeapDay(y + 2)
  <2>1. y + 1 \in Nat /\ (y + 1) + 1 = y + 2
    OBVIOUS
  <2> QED
    BY <2>1, NextLeap
<1>3. Leaps(y + 2) \in Nat /\ Leaps(y + 3) = Leaps(y + 2) + LeapDay(y + 3)
  <2>1. y + 2 \in Nat /\ (y + 2) + 1 = y + 3
    OBVIOUS
  <2> QED
    BY <2>1, NextLeap
<1>4. Leaps(y + 3) \in Nat /\ Leaps(y + 4) = Leaps(y + 3) + LeapDay(y + 4)
  <2>1. y + 3 \in Nat /\ (y + 3) + 1 = y + 4
    OBVIOUS
  <2> QED
    BY <2>1, NextLeap
<1>5. \A z : LeapDay(z) \in {0, 1}
  BY DEF LeapDay
<1>6. y + 0 = y
  OBVIOUS
<1>7. k \in {0, 1, 2, 3, 4}
  OBVIOUS
<1> QED
  BY <1>1, <1>2, <1>3, <1>4, <1>5, <1>6, <1>7

LEMMA LeapsOrder ==
  ASSUME NEW y \in Nat, NEW z \in Nat, y <= z
  PROVE  Leaps(y) <= Leaps(z)
<1> DEFINE N == {k \in Nat : Leaps(y) <= Leaps(y + k)}
<1>1. 0 \in N
  <2>1. y + 0 = y /\ Leaps(y) \in Nat
    BY NextLeap
  <2> QED
    BY <2>1
<1>2. ASSUME NEW k \in Nat, k \in N PROVE k + 1 \in N
  <2>1. PICK w \in Nat : w = y + k /\ y + (k + 1) = w + 1
    OBVIOUS
  <2>2. Leaps(w) \in Nat /\ Leaps(w + 1) = Leaps(w) + LeapDay(w + 1) /\ Leaps(y) \in Nat
    BY NextLeap
  <2>3. LeapDay(w + 1) \in {0, 1}
    BY DEF LeapDay
  <2>4. Leaps(y) <= Leaps(w)
    BY <1>2, <2>1
  <2>5. Leaps(y) <= Leaps(w + 1)
    BY <2>2, <2>3, <2>4
  <2> QED
    BY <2>1, <2>5
<1> HIDE DEF N
<1>3. \A k \in Nat : k \in N
  BY <1>1, <1>2, SetInduction
<1>4. z - y \in Nat /\ y + (z - y) = z
  OBVIOUS
<1> QED
  BY <1>3, <1>4 DEF N

YearStart(y) == 365 * (y - 1) + Leaps(y - 1)

LEMMA YearStarts ==
  ASSUME NEW y \in Nat \ {0}
  PROVE  /\ YearStart(y) \in Int /\ LeapDay(y) \in {0, 1}
         /\ YearStart(y + 1) = YearStart(y) + 365 + LeapDay(y)
         /\ \A z \in Nat : y <= z => YearStart(y) <= YearStart(z)
<1>1. PICK w \in Nat : w = y - 1 /\ w + 1 = y /\ (y + 1) - 1 = w + 1
  OBVIOUS
<1>2. Leaps(w) \in Nat /\ Leaps(w + 1) = Leaps(w) + LeapDay(w + 1)
  BY NextLeap
<1>3. LeapDay(y) \in {0, 1}
  BY DEF LeapDay
<1>4. YearStart(y) = 365 * w + Leaps(w) /\ YearStart(y + 1) = 365 * y + Leaps(w + 1)
  BY <1>1 DEF YearStart
<1>5. ASSUME NEW z \in Nat, y <= z PROVE YearStart(y) <= YearStart(z)
  <2>1. PICK v \in Nat : v = z - 1 /\ w <= v
    BY <1>1, <1>5
  <2>2. Leaps(w) <= Leaps(v) /\ Leaps(v) \in Nat
    BY <2>1, LeapsOrder, NextLeap
  <2>3. YearStart(z) = 365 * v + Leaps(v)
    BY <2>1 DEF YearStart
  <2> QED
    BY <1>2, <1>4, <2>1, <2>2, <2>3
<1> QED
  BY <1>1, <1>2, <1>3, <1>4, <1>5

LEMMA MonthTable ==
  ASSUME NEW y, NEW l \in {0, 1}, l = LeapDay(y)
  PROVE  /\ InYear(y, 1) = 0 /\ InYear(y, 2) = 31
         /\ InYear(y, 3) = 59 + l /\ InYear(y, 4) = 90 + l /\ InYear(y, 5) = 120 + l
         /\ InYear(y, 6) = 151 + l /\ InYear(y, 7) = 181 + l /\ InYear(y, 8) = 212 + l
         /\ InYear(y, 9) = 243 + l /\ InYear(y, 10) = 273 + l /\ InYear(y, 11) = 304 + l
         /\ InYear(y, 12) = 334 + l
         /\ MonthDays(y, 2) = 28 + l
         /\ \A m \in {1, 3, 5, 7, 8, 10, 12} : MonthDays(y, m) = 31
         /\ \A m \in {4, 6, 9, 11} : MonthDays(y, m) = 30
<1>0. /\ DaysBefore[1] = 0 /\ DaysBefore[2] = 31 /\ DaysBefore[3] = 59 /\ DaysBefore[4] = 90
      /\ DaysBefore[5] = 120 /\ DaysBefore[6] = 151 /\ DaysBefore[7] = 181
      /\ DaysBefore[8] = 212 /\ DaysBefore[9] = 243 /\ DaysBefore[10] = 273
      /\ DaysBefore[11] = 304 /\ DaysBefore[12] = 334
  BY DEF DaysBefore
<1>1. CASE LeapYear(y)
  <2>1. l = 1
    BY <1>1, Zenon DEF LeapDay
  <2>2. /\ InYear(y, 1) = DaysBefore[1] + 0 /\ InYear(y, 2) = DaysBefore[2] + 0
        /\ \A m \in 3 .. 12 : InYear(y, m) = DaysBefore[m] + 1
    <3>1. \A m : InYear(y, m) = DaysBefore[m] + (IF m > 2 THEN 1 ELSE 0)
      BY <1>1, Zenon DEF InYear
    <3> QED
      BY <3>1
  <2>3. MonthDays(y, 2) = 29
    <3>1. MonthDays(y, 2) = IF LeapYear(y) THEN 29 ELSE 28
      BY DEF MonthDays
    <3> QED
      BY <1>1, <3>1, Zenon
  <2>4. /\ \A m \in {1, 3, 5, 7, 8, 10, 12} : MonthDays(y, m) = 31
        /\ \A m \in {4, 6, 9, 11} : MonthDays(y, m) = 30
    BY DEF MonthDays
  <2> QED
    BY <1>0, <2>1, <2>2, <2>3, <2>4
<1>2. CASE ~LeapYear(y)
  <2>1. l = 0
    BY <1>2, Zenon DEF LeapDay
  <2>2. \A m : InYear(y, m) = DaysBefore[m] + 0
    BY <1>2, Zenon DEF InYear
  <2>3. MonthDays(y, 2) = 28
    <3>1. MonthDays(y, 2) = IF LeapYear(y) THEN 29 ELSE 28
      BY DEF MonthDays
    <3> QED
      BY <1>2, <3>1, Zenon
  <2>4. /\ \A m \in {1, 3, 5, 7, 8, 10, 12} : MonthDays(y, m) = 31
        /\ \A m \in {4, 6, 9, 11} : MonthDays(y, m) = 30
    BY DEF MonthDays
  <2> QED
    BY <1>0, <2>1, <2>2, <2>3, <2>4
<1> QED
  BY <1>1, <1>2

LEMMA Months ==
  ASSUME NEW y, NEW m \in 1 .. 12
  PROVE  /\ InYear(y, m) \in Nat
         /\ 30 * (m - 1) - 1 + LeapDay(y) <= InYear(y, m)
         /\ InYear(y, m) <= 30 * (m - 1) + 4 + LeapDay(y)
         /\ m = 1 => InYear(y, m) = 0
         /\ m < 12 => InYear(y, m + 1) = InYear(y, m) + MonthDays(y, m)
         /\ m = 12 => InYear(y, m) + MonthDays(y, m) = 365 + LeapDay(y)
         /\ \A n \in 1 .. 12 : m < n => InYear(y, m) + MonthDays(y, m) <= InYear(y, n)
<1>1. PICK l \in {0, 1} : l = LeapDay(y)
  BY DEF LeapDay
<1>2. /\ InYear(y, 1) = 0 /\ InYear(y, 2) = 31
      /\ InYear(y, 3) = 59 + l /\ InYear(y, 4) = 90 + l /\ InYear(y, 5) = 120 + l
      /\ InYear(y, 6) = 151 + l /\ InYear(y, 7) = 181 + l /\ InYear(y, 8) = 212 + l
      /\ InYear(y, 9) = 243 + l /\ InYear(y, 10) = 273 + l /\ InYear(y, 11) = 304 + l
      /\ InYear(y, 12) = 334 + l
  BY <1>1, MonthTable
<1>3. /\ MonthDays(y, 1) = 31 /\ MonthDays(y, 2) = 28 + l /\ MonthDays(y, 3) = 31
      /\ MonthDays(y, 4) = 30 /\ MonthDays(y, 5) = 31 /\ MonthDays(y, 6) = 30
      /\ MonthDays(y, 7) = 31 /\ MonthDays(y, 8) = 31 /\ MonthDays(y, 9) = 30
      /\ MonthDays(y, 10) = 31 /\ MonthDays(y, 11) = 30 /\ MonthDays(y, 12) = 31
  BY <1>1, MonthTable
<1>4. ASSUME NEW i \in 1 .. 12
      PROVE  /\ InYear(y, i) \in Nat /\ MonthDays(y, i) \in Nat
             /\ 30 * (i - 1) - 1 + l <= InYear(y, i) /\ InYear(y, i) <= 30 * (i - 1) + 4 + l
  <2>1. i \in {1, 2, 3, 4, 5, 6, 7, 8, 9, 10, 11, 12}
    OBVIOUS
  <2> QED
    BY <1>2, <1>3, <2>1
<1>5. ASSUME NEW i \in 1 .. 11
      PROVE  InYear(y, i + 1) = InYear(y, i) + MonthDays(y, i)
  <2>1. i \in {1, 2, 3, 4, 5, 6, 7, 8, 9, 10, 11}
    OBVIOUS
  <2> QED
    BY <1>2, <1>3, <2>1
<1>6. ASSUME NEW n \in 1 .. 12, m < n
      PROVE  InYear(y, m) + MonthDays(y, m) <= InYear(y, n)
  <2> DEFINE N == {k \in Nat : m + 1 + k <= 12 =>
                                 InYear(y, m) + MonthDays(y, m) <= InYear(y, m + 1 + k)}
  <2>1. 0 \in N
    <3>1. m \in 1 .. 11 /\ m + 1 + 0 = m + 1 /\ m + 1 \in 1 .. 12
      BY <1>6
    <3> QED
      BY <1>4, <1>5, <3>1
  <2>2. ASSUME NEW k \in Nat, k \in N PROVE k + 1 \in N
    <3> SUFFICES ASSUME m + 1 + (k + 1) <= 12
                 PROVE  InYear(y, m) + MonthDays(y, m) <= InYear(y, m + 1 + (k + 1))
      OBVIOUS
    <3>1. PICK i \in 1 .. 11 : i = m + 1 + k /\ i + 1 = m + 1 + (k + 1)
      OBVIOUS
    <3>2. InYear(y, m) + MonthDays(y, m) <= InYear(y, i)
      BY <2>2, <3>1
    <3>3. InYear(y, i + 1) = InYear(y, i) + MonthDays(y, i)
      BY <1>5
    <3>4. i \in 1 .. 12 /\ m \in 1 .. 12
      OBVIOUS
    <3>a. /\ InYear(y, m) \in Nat /\ MonthDays(y, m) \in Nat
          /\ InYear(y, i) \in Nat /\ MonthDays(y, i) \in Nat
      BY <1>4, <3>4
    <3>b. InYear(y, m) + MonthDays(y, m) \in Nat
      BY <3>a
    <3>5. PICK p \in Nat, q \in Nat, s \in Nat :
             p = InYear(y, m) + MonthDays(y, m) /\ q = InYear(y, i) /\ s = MonthDays(y, i)
      BY <3>a, <3>b, Zenon
    <3>6. p <= q /\ InYear(y, i + 1) = q + s
      BY <3>2, <3>3, <3>5, Zenon
    <3> QED
      BY <3>1, <3>5, <3>6
  <2> HIDE DEF N
  <2>3. \A k \in Nat : k \in N
    BY <2>1, <2>2, SetInduction
  <2>4. PICK k \in Nat : m + 1 + k = n
    <3>1. n - m - 1 \in Nat /\ m + 1 + (n - m - 1) = n
      BY <1>6
    <3> QED
      BY <3>1
  <2>5. k \in N /\ n <= 12
    BY <2>3
  <2> QED
    BY <2>4, <2>5 DEF N
<1> QED
  BY <1>1, <1>2, <1>3, <1>4, <1>5, <1>6

(* the parts of a date on the calendar *)
LEMMA Parts ==
  ASSUME NEW d, OnCalendar(d), Year(d) # 0
  PROVE  /\ d \in Nat /\ Year(d) \in Nat \ {0} /\ Month(d) \in 1 .. 12
         /\ Day(d) \in Nat /\ 1 <= Day(d) /\ Day(d) <= 31
         /\ Day(d) <= MonthDays(Year(d), Month(d)) /\ MonthDays(Year(d), Month(d)) \in 28 .. 31
         /\ d = DateOf(Year(d), Month(d), Day(d))
         /\ DayNumber(d) = YearStart(Year(d)) + InYear(Year(d), Month(d)) + Day(d)
         /\ YearStart(Year(d)) \in Int /\ InYear(Year(d), Month(d)) \in Nat
<1>1. d \in Nat /\ Month(d) \in 1 .. 12 /\ Day(d) \in 1 .. MonthDays(Year(d), Month(d))
  BY Zenon DEF OnCalendar
<1>2. Year(d) \in Nat /\ d = DateOf(Year(d), Month(d), Day(d))
  BY <1>1, DateFrom, Zenon
<1>3. MonthDays(Year(d), Month(d)) \in 28 .. 31
  BY MonthBounds, Zenon
<1>4. Year(d) \in Nat \ {0}
  BY <1>2
<1>5. YearStart(Year(d)) \in Int /\ InYear(Year(d), Month(d)) \in Nat
  BY <1>1, <1>4, YearStarts, Months
<1>6. DayNumber(d) = YearStart(Year(d)) + InYear(Year(d), Month(d)) + Day(d)
  BY <1>1, NumberIs, Zenon DEF Num, YearStart
<1> QED
  BY <1>1, <1>2, <1>3, <1>4, <1>5, <1>6

(* Later dates have greater numbers.                                       *)
LEMMA DatesCompare ==
  ASSUME NEW y \in Nat, NEW m \in 0 .. 99, NEW x \in 0 .. 99,
         NEW z \in Nat, NEW n \in 0 .. 99, NEW w \in 0 .. 99
  PROVE  DateOf(y, m, x) < DateOf(z, n, w)
           <=> (y < z \/ (y = z /\ m < n) \/ (y = z /\ m = n /\ x < w))
BY DEF DateOf

LEMMA PartsOf ==
  ASSUME NEW d, OnCalendar(d), Year(d) # 0
  PROVE  \E y \in Nat \ {0}, m \in 1 .. 12, x \in 1 .. 31 :
           /\ y = Year(d) /\ m = Month(d) /\ x = Day(d) /\ d = DateOf(y, m, x)
           /\ x <= MonthDays(y, m)
<1>1. /\ Year(d) \in Nat \ {0} /\ Month(d) \in 1 .. 12
      /\ Day(d) \in Nat /\ 1 <= Day(d) /\ Day(d) <= 31
      /\ Day(d) <= MonthDays(Year(d), Month(d)) /\ d = DateOf(Year(d), Month(d), Day(d))
  BY Parts
<1>2. Day(d) \in 1 .. 31
  BY <1>1
<1> QED
  BY <1>1, <1>2, Zenon

LEMMA NumberOrder ==
  ASSUME NEW d, OnCalendar(d), Year(d) # 0, NEW e, OnCalendar(e), Year(e) # 0, d < e
  PROVE  DayNumber(d) < DayNumber(e)
<1>1. PICK y \in Nat \ {0}, m \in 1 .. 12, x \in 1 .. 31 :
         /\ y = Year(d) /\ m = Month(d) /\ x = Day(d) /\ d = DateOf(y, m, x)
         /\ x <= MonthDays(y, m)
  BY PartsOf, Zenon
<1>2. PICK z \in Nat \ {0}, n \in 1 .. 12, w \in 1 .. 31 :
         /\ z = Year(e) /\ n = Month(e) /\ w = Day(e) /\ e = DateOf(z, n, w)
         /\ w <= MonthDays(z, n)
  BY PartsOf, Zenon
<1>a. /\ DayNumber(d) = YearStart(y) + InYear(y, m) + x /\ YearStart(y) \in Int
      /\ InYear(y, m) \in Nat /\ LeapDay(y) \in {0, 1}
  BY <1>1, Parts, YearStarts, Zenon
<1>b. /\ DayNumber(e) = YearStart(z) + InYear(z, n) + w /\ YearStart(z) \in Int
      /\ InYear(z, n) \in Nat
  BY <1>2, Parts, Zenon
<1>3. PICK a \in Int, b \in Nat, l \in {0, 1} :
         a = YearStart(y) /\ b = InYear(y, m) /\ DayNumber(d) = a + b + x /\ l = LeapDay(y)
  BY <1>a
<1>4. PICK a1 \in Int, b1 \in Nat :
         a1 = YearStart(z) /\ b1 = InYear(z, n) /\ DayNumber(e) = a1 + b1 + w
  BY <1>b, Zenon
<1>5. y < z \/ (y = z /\ m < n) \/ (y = z /\ m = n /\ x < w)
  <2>1. /\ y \in Nat /\ m \in 0 .. 99 /\ x \in 0 .. 99
        /\ z \in Nat /\ n \in 0 .. 99 /\ w \in 0 .. 99
    OBVIOUS
  <2>2. DateOf(y, m, x) < DateOf(z, n, w)
    BY <1>1, <1>2, Zenon
  <2> QED
    BY <2>2 DEF DateOf
<1>6. CASE y < z
  <2>1. b + x <= 365 + l
    <3>1. PICK s \in 28 .. 31 : s = MonthDays(y, m) /\ x <= s
      BY <1>1, MonthBounds
    <3>2. CASE m = 12
      BY <1>3, <3>1, <3>2, Months
    <3>3. CASE m < 12
      <4>1. 12 \in 1 .. 12
        OBVIOUS
      <4>2. InYear(y, m) + MonthDays(y, m) <= InYear(y, 12)
        BY <3>3, <4>1, Months
      <4>3. InYear(y, 12) \in Nat /\ InYear(y, 12) <= 30 * (12 - 1) + 4 + LeapDay(y)
        BY <4>1, Months
      <4> QED
        BY <1>3, <3>1, <4>2, <4>3
    <3> QED
      BY <3>2, <3>3
  <2>2. YearStart(y + 1) = a + 365 + l
    BY <1>3, YearStarts
  <2>3. YearStart(y + 1) <= a1
    BY <1>4, <1>6, YearStarts
  <2> QED
    BY <1>3, <1>4, <2>1, <2>2, <2>3
<1>7. CASE y = z /\ m < n
  <2>1. PICK s \in 28 .. 31 : s = MonthDays(y, m) /\ x <= s
    BY <1>1, MonthBounds
  <2>2. b + s <= b1
    BY <1>3, <1>4, <1>7, <2>1, Months
  <2> QED
    BY <1>3, <1>4, <1>7, <2>1, <2>2
<1>8. CASE y = z /\ m = n /\ x < w
  BY <1>3, <1>4, <1>8
<1> QED
  BY <1>5, <1>6, <1>7, <1>8

(* yesterday has the number before, and tomorrow the number after *)
LEMMA NumberOf ==
  ASSUME NEW y \in Nat \ {0}, NEW m \in 1 .. 12, NEW x \in 1 .. 31, x <= MonthDays(y, m)
  PROVE  /\ OnCalendar(DateOf(y, m, x)) /\ Year(DateOf(y, m, x)) = y
         /\ DayNumber(DateOf(y, m, x)) = YearStart(y) + InYear(y, m) + x
<1>1. y \in Nat /\ m \in 0 .. 99 /\ x \in 0 .. 99
  OBVIOUS
<1>2. /\ DateOf(y, m, x) \in Nat /\ Year(DateOf(y, m, x)) = y
      /\ Month(DateOf(y, m, x)) = m /\ Day(DateOf(y, m, x)) = x
  BY <1>1, DateParts, Zenon
<1>3. OnCalendar(DateOf(y, m, x))
  BY <1>1, DateIs, Zenon
<1>4. Year(DateOf(y, m, x)) # 0
  BY <1>2
<1>5. DayNumber(DateOf(y, m, x)) = YearStart(y) + InYear(y, m) + x
  BY <1>2, <1>3, <1>4, Parts, Zenon
<1> QED
  BY <1>2, <1>3, <1>5

LEMMA TomorrowNumber ==
  ASSUME NEW d, OnCalendar(d), Year(d) # 0
  PROVE  /\ OnCalendar(Tomorrow(d)) /\ d < Tomorrow(d) /\ Year(d) <= Year(Tomorrow(d))
         /\ DayNumber(Tomorrow(d)) = DayNumber(d) + 1
<1>1. PICK y \in Nat \ {0}, m \in 1 .. 12, x \in 1 .. 31 :
         /\ y = Year(d) /\ m = Month(d) /\ x = Day(d) /\ d = DateOf(y, m, x)
         /\ x <= MonthDays(y, m)
  BY PartsOf, Zenon
<1>2. /\ DayNumber(d) = YearStart(y) + InYear(y, m) + x /\ YearStart(y) \in Int
      /\ InYear(y, m) \in Nat /\ LeapDay(y) \in {0, 1}
  BY <1>1, Parts, YearStarts, Zenon
<1>3. PICK l \in 28 .. 31 : l = MonthDays(y, m) /\ x <= l
  BY <1>1, MonthBounds
<1>4. OnCalendar(Tomorrow(d)) /\ d < Tomorrow(d)
  BY NextDate, Zenon
<1>5. CASE x < l
  <2>1. PICK x1 \in 1 .. 31 : x1 = x + 1 /\ x1 <= l
    BY <1>5
  <2>2. Tomorrow(d) = d + 1
    BY <1>1, <1>3, <1>5, Zenon DEF Tomorrow
  <2>3. d + 1 = DateOf(y, m, x1)
    <3>1. DateOf(y, m, x) + 1 = DateOf(y, m, x + 1)
      BY DateOrder
    <3> QED
      BY <1>1, <2>1, <3>1, Zenon
  <2>x. x1 <= MonthDays(y, m)
    BY <1>3, <2>1, Zenon
  <2>4. /\ Year(DateOf(y, m, x1)) = y
        /\ DayNumber(DateOf(y, m, x1)) = YearStart(y) + InYear(y, m) + x1
    BY <2>x, NumberOf, Zenon
  <2>5. Year(Tomorrow(d)) = y /\ DayNumber(Tomorrow(d)) = YearStart(y) + InYear(y, m) + x1
    BY <2>2, <2>3, <2>4, Zenon
  <2> QED
    <3>1. y <= Year(Tomorrow(d))
      BY <2>5
    <3>2. YearStart(y) + InYear(y, m) + x1 = YearStart(y) + InYear(y, m) + x + 1
      BY <1>2, <2>1
    <3> QED
      BY <1>1, <1>2, <1>4, <2>5, <3>1, <3>2, Zenon
<1>6. CASE x = l /\ m < 12
  <2>1. PICK n \in 1 .. 12 : n = m + 1
    BY <1>6
  <2>2. Tomorrow(d) = DateOf(y, n, 1)
    <3>1. ~(x < l)
      BY <1>6
    <3> QED
      BY <1>1, <1>3, <1>6, <2>1, <3>1, Zenon DEF Tomorrow
  <2>3. 1 \in 1 .. 31 /\ 1 <= MonthDays(y, n)
    <3>1. PICK k \in 28 .. 31 : k = MonthDays(y, n)
      BY MonthBounds
    <3> QED
      BY <3>1
  <2>4. Year(Tomorrow(d)) = y /\ DayNumber(Tomorrow(d)) = YearStart(y) + InYear(y, n) + 1
    <3>1. /\ Year(DateOf(y, n, 1)) = y
          /\ DayNumber(DateOf(y, n, 1)) = YearStart(y) + InYear(y, n) + 1
      BY <2>3, NumberOf
    <3> QED
      BY <2>2, <3>1, Zenon
  <2>5. InYear(y, n) = InYear(y, m) + l
    BY <1>3, <1>6, <2>1, Months
  <2> QED
    <3>1. y <= Year(Tomorrow(d))
      BY <2>4
    <3>2. YearStart(y) + InYear(y, n) + 1 = YearStart(y) + InYear(y, m) + x + 1
      BY <1>2, <1>3, <1>6, <2>5
    <3> QED
      BY <1>1, <1>2, <1>4, <2>4, <3>1, <3>2, Zenon
<1>7. CASE x = l /\ m = 12
  <2>1. PICK z \in Nat \ {0} : z = y + 1
    OBVIOUS
  <2>2. Tomorrow(d) = DateOf(z, 1, 1)
    <3>1. ~(x < l) /\ ~(m < 12)
      BY <1>7
    <3> QED
      BY <1>1, <1>3, <2>1, <3>1, Zenon DEF Tomorrow
  <2>3. 1 \in 1 .. 31 /\ 1 <= MonthDays(z, 1) /\ 1 \in 1 .. 12
    <3>1. PICK k \in 28 .. 31 : k = MonthDays(z, 1)
      BY MonthBounds
    <3> QED
      BY <3>1
  <2>4. Year(Tomorrow(d)) = z /\ DayNumber(Tomorrow(d)) = YearStart(z) + InYear(z, 1) + 1
    <3>1. /\ Year(DateOf(z, 1, 1)) = z
          /\ DayNumber(DateOf(z, 1, 1)) = YearStart(z) + InYear(z, 1) + 1
      BY <2>3, NumberOf
    <3> QED
      BY <2>2, <3>1, Zenon
  <2>5. InYear(z, 1) = 0 /\ InYear(y, m) + l = 365 + LeapDay(y)
    BY <1>3, <1>7, <2>3, Months
  <2>6. YearStart(z) = YearStart(y) + 365 + LeapDay(y)
    BY <2>1, YearStarts
  <2> QED
    <3>1. y <= Year(Tomorrow(d))
      BY <2>1, <2>4
    <3>2. YearStart(z) + InYear(z, 1) + 1 = YearStart(y) + InYear(y, m) + x + 1
      BY <1>2, <1>3, <1>7, <2>5, <2>6
    <3> QED
      BY <1>1, <1>2, <1>4, <2>4, <3>1, <3>2, Zenon
<1> QED
  BY <1>3, <1>5, <1>6, <1>7

LEMMA DateBounds ==
  ASSUME NEW d, IsDate(d)
  PROVE  OnCalendar(d) /\ Year(d) >= 1000 /\ ~OutOfRange(d)
<1>1. OnCalendar(d)
  BY SMT DEF IsDate, OnCalendar
<1>2. Year(d) >= 1000 /\ ~OutOfRange(d)
  BY SMT DEF IsDate, Year, OutOfRange
<1> QED
  BY <1>1, <1>2, SMT

LEMMA DayBeforeNumber ==
  ASSUME NEW d, OnCalendar(d), Year(d) >= 1000
  PROVE  /\ OnCalendar(DayBefore(d)) /\ Year(DayBefore(d)) # 0
         /\ DayNumber(DayBefore(d)) = DayNumber(d) - 1
<1>0. Year(d) \in Nat
  <2>1. d \in Nat
    BY DEF OnCalendar
  <2> QED
    BY <2>1, DateFrom
<1>a. Year(d) # 0
  BY <1>0
<1>1. PICK y \in Nat \ {0}, m \in 1 .. 12, x \in 1 .. 31 :
         /\ y = Year(d) /\ m = Month(d) /\ x = Day(d) /\ d = DateOf(y, m, x)
         /\ x <= MonthDays(y, m)
  BY <1>a, PartsOf, Zenon
<1>2. /\ DayNumber(d) = YearStart(y) + InYear(y, m) + x /\ YearStart(y) \in Int
      /\ InYear(y, m) \in Nat /\ LeapDay(y) \in {0, 1}
  BY <1>1, <1>a, Parts, YearStarts, Zenon
<1>3. PICK l \in 28 .. 31 : l = MonthDays(y, m) /\ x <= l
  BY <1>1, MonthBounds
<1>5. CASE x # 1
  <2>1. PICK x1 \in 1 .. 31 : x1 = x - 1 /\ x1 <= l
    BY <1>3, <1>5
  <2>2. DayBefore(d) = d - 1
    BY <1>1, <1>5 DEF DayBefore
  <2>3. d - 1 = DateOf(y, m, x1)
    <3>1. DateOf(y, m, x1) + 1 = DateOf(y, m, x1 + 1) /\ x1 + 1 = x
      <4>1. x1 + 1 = x
        BY <2>1
      <4> QED
        BY <4>1, DateOrder, Zenon
    <3>2. DateOf(y, m, x1) \in Nat
      BY DEF DateOf
    <3> QED
      BY <1>1, <3>1, <3>2
  <2>x. x1 <= MonthDays(y, m)
    BY <1>3, <2>1, Zenon
  <2>4. /\ OnCalendar(DateOf(y, m, x1)) /\ Year(DateOf(y, m, x1)) = y
        /\ DayNumber(DateOf(y, m, x1)) = YearStart(y) + InYear(y, m) + x1
    BY <2>x, NumberOf, Zenon
  <2>5. /\ OnCalendar(DayBefore(d)) /\ Year(DayBefore(d)) = y
        /\ DayNumber(DayBefore(d)) = YearStart(y) + InYear(y, m) + x1
    BY <2>2, <2>3, <2>4, Zenon
  <2> QED
    BY <1>2, <2>1, <2>5
<1>6. CASE x = 1 /\ m # 1
  <2>1. PICK n \in 1 .. 12 : n = m - 1 /\ n < 12 /\ n + 1 = m
    BY <1>6
  <2>2. PICK w \in 1 .. 31 : w = MonthDays(y, n) /\ w <= MonthDays(y, n)
    BY MonthBounds
  <2>3. DayBefore(d) = DateOf(y, n, w)
    BY <1>1, <1>6, <2>1, <2>2 DEF DayBefore
  <2>4. /\ OnCalendar(DayBefore(d)) /\ Year(DayBefore(d)) = y
        /\ DayNumber(DayBefore(d)) = YearStart(y) + InYear(y, n) + w
    <3>1. /\ OnCalendar(DateOf(y, n, w)) /\ Year(DateOf(y, n, w)) = y
          /\ DayNumber(DateOf(y, n, w)) = YearStart(y) + InYear(y, n) + w
      BY <2>2, NumberOf
    <3> QED
      BY <2>3, <3>1, Zenon
  <2>5. InYear(y, m) = InYear(y, n) + w /\ InYear(y, n) \in Nat
    BY <2>1, <2>2, Months
  <2> QED
    BY <1>2, <1>6, <2>4, <2>5
<1>7. CASE x = 1 /\ m = 1
  <2>1. PICK z \in Nat \ {0} : z = y - 1 /\ z + 1 = y
    BY <1>0, <1>1
  <2>2. DayBefore(d) = DateOf(z, 12, 31)
    BY <1>1, <1>7, <2>1 DEF DayBefore
  <2>3. 31 \in 1 .. 31 /\ MonthDays(z, 12) = 31 /\ 31 <= MonthDays(z, 12) /\ 12 \in 1 .. 12
        /\ 1 \in 1 .. 12
    BY DEF MonthDays
  <2>4. /\ OnCalendar(DayBefore(d)) /\ Year(DayBefore(d)) = z
        /\ DayNumber(DayBefore(d)) = YearStart(z) + InYear(z, 12) + 31
    <3>1. /\ OnCalendar(DateOf(z, 12, 31)) /\ Year(DateOf(z, 12, 31)) = z
          /\ DayNumber(DateOf(z, 12, 31)) = YearStart(z) + InYear(z, 12) + 31
      BY <2>3, NumberOf
    <3> QED
      BY <2>2, <3>1, Zenon
  <2>5. InYear(y, 1) = 0 /\ InYear(z, 12) + 31 = 365 + LeapDay(z) /\ InYear(z, 12) \in Nat
    BY <2>3, Months
  <2>6. YearStart(y) = YearStart(z) + 365 + LeapDay(z) /\ YearStart(z) \in Int
        /\ LeapDay(z) \in {0, 1}
    BY <2>1, YearStarts
  <2> QED
    BY <1>2, <1>7, <2>4, <2>5, <2>6
<1> QED
  BY <1>5, <1>6, <1>7

-----------------------------------------------------------------------------
(* reduce_days2: the days before d, one after the other.                   *)
IsBack(f, d, n) == f = [i \in 0 .. n |-> IF i = 0 THEN d ELSE DayBefore(f[i - 1])]

LEMMA BackExists == ASSUME NEW d, NEW n \in Nat PROVE \E f : IsBack(f, d, n)
<1> DEFINE N == {k \in Nat : \E f : IsBack(f, d, k)}
<1>1. 0 \in N
  <2> DEFINE g == [i \in 0 .. 0 |-> d]
  <2>1. g = [i \in 0 .. 0 |-> IF i = 0 THEN d ELSE DayBefore(g[i - 1])]
    OBVIOUS
  <2> HIDE DEF g
  <2>2. IsBack(g, d, 0)
    BY <2>1, Zenon DEF IsBack
  <2> QED
    BY <2>2
<1>2. ASSUME NEW k \in Nat, k \in N PROVE k + 1 \in N
  <2>1. PICK f : IsBack(f, d, k)
    BY <1>2
  <2>2. \A i \in 0 .. k : f[i] = IF i = 0 THEN d ELSE DayBefore(f[i - 1])
    BY <2>1 DEF IsBack
  <2> DEFINE g == [i \in 0 .. k + 1 |->
                     IF i \in 0 .. k THEN f[i] ELSE IF i = 0 THEN d ELSE DayBefore(f[i - 1])]
  <2>3. ASSUME NEW i \in 0 .. k + 1
        PROVE  g[i] = IF i = 0 THEN d ELSE DayBefore(g[i - 1])
    <3>1. g[i] = IF i = 0 THEN d ELSE DayBefore(f[i - 1])
      BY <2>2
    <3>2. i # 0 => i - 1 \in 0 .. k /\ i - 1 \in 0 .. k + 1
      OBVIOUS
    <3>3. i # 0 => g[i - 1] = f[i - 1]
      BY <3>2
    <3> QED
      BY <3>1, <3>3
  <2>4. IsBack(g, d, k + 1)
    <3>1. g = [i \in 0 .. k + 1 |-> g[i]]
      OBVIOUS
    <3> HIDE DEF g
    <3> QED
      BY <2>3, <3>1, Zenon DEF IsBack
  <2> QED
    BY <2>4
<1> HIDE DEF N
<1>3. \A k \in Nat : k \in N
  BY <1>1, <1>2, SetInduction
<1> QED
  BY <1>3 DEF N

LEMMA BackIs ==
  ASSUME NEW d, ~OutOfRange(d), NEW n \in Nat
  PROVE  \E f : IsBack(f, d, n) /\ reduce_days2(d, n) = f[n]
<1> DEFINE F == CHOOSE f : IsBack(f, d, n)
<1>1. IsBack(F, d, n)
  BY BackExists
<1>2. reduce_days2(d, n) = F[n]
  BY DEF reduce_days2, IsBack
<1> HIDE DEF F
<1> QED
  BY <1>1, <1>2

LEMMA BackAgrees ==
  ASSUME NEW d, NEW n \in Nat, NEW f, IsBack(f, d, n), NEW g, IsBack(g, d, n + 1)
  PROVE  f[n] = g[n]
<1> DEFINE N == {k \in Nat : k <= n => f[k] = g[k]}
<1>1. \A i \in 0 .. n : f[i] = IF i = 0 THEN d ELSE DayBefore(f[i - 1])
  BY DEF IsBack
<1>2. \A i \in 0 .. n + 1 : g[i] = IF i = 0 THEN d ELSE DayBefore(g[i - 1])
  BY DEF IsBack
<1>3. 0 \in N
  <2>1. 0 \in 0 .. n /\ 0 \in 0 .. n + 1
    OBVIOUS
  <2> QED
    BY <1>1, <1>2, <2>1
<1>4. ASSUME NEW k \in Nat, k \in N PROVE k + 1 \in N
  <2> SUFFICES ASSUME k + 1 <= n PROVE f[k + 1] = g[k + 1]
    OBVIOUS
  <2>1. k + 1 \in 0 .. n /\ k + 1 \in 0 .. n + 1 /\ k + 1 # 0 /\ (k + 1) - 1 = k /\ k <= n
    OBVIOUS
  <2>2. f[k + 1] = DayBefore(f[k]) /\ g[k + 1] = DayBefore(g[k])
    BY <1>1, <1>2, <2>1
  <2> QED
    BY <1>4, <2>1, <2>2
<1> HIDE DEF N
<1>5. \A k \in Nat : k \in N
  BY <1>3, <1>4, SetInduction
<1> QED
  BY <1>5 DEF N

LEMMA BackStep ==
  ASSUME NEW d, ~OutOfRange(d)
  PROVE  /\ reduce_days2(d, 0) = d
         /\ \A n \in Nat : reduce_days2(d, n + 1) = DayBefore(reduce_days2(d, n))
<1>1. reduce_days2(d, 0) = d
  <2>1. PICK f : IsBack(f, d, 0) /\ reduce_days2(d, 0) = f[0]
    BY BackIs
  <2> QED
    BY <2>1 DEF IsBack
<1>2. ASSUME NEW n \in Nat PROVE reduce_days2(d, n + 1) = DayBefore(reduce_days2(d, n))
  <2>1. PICK f : IsBack(f, d, n) /\ reduce_days2(d, n) = f[n]
    BY BackIs
  <2>2. n + 1 \in Nat
    OBVIOUS
  <2>3. PICK g : IsBack(g, d, n + 1) /\ reduce_days2(d, n + 1) = g[n + 1]
    BY <2>2, BackIs
  <2>4. g[n + 1] = DayBefore(g[n])
    <3>1. n + 1 \in 0 .. n + 1 /\ n + 1 # 0 /\ (n + 1) - 1 = n
      OBVIOUS
    <3> QED
      BY <2>3, <3>1 DEF IsBack
  <2>5. f[n] = g[n]
    BY <2>1, <2>3, BackAgrees
  <2> QED
    BY <2>1, <2>3, <2>4, <2>5
<1> QED
  BY <1>1, <1>2

(* reduce_days2 (utils.cpp:530) goes back exactly the days it is told to,  *)
(* over any months, years and 29ths of February, as long as it stays among *)
(* the dates of eight digits.                                              *)
THEOREM ExactDaysBack ==
  ASSUME NEW d, NEW n \in Nat, \A i \in 0 .. n : IsDate(reduce_days2(d, i))
  PROVE  DayNumber(reduce_days2(d, n)) = DayNumber(d) - n
<1> DEFINE N == {k \in Nat : k <= n => DayNumber(reduce_days2(d, k)) = DayNumber(d) - k}
<1>0. ~OutOfRange(d)
  <2> SUFFICES ASSUME OutOfRange(d) PROVE FALSE
    OBVIOUS
  <2>1. reduce_days2(d, 0) = d /\ 0 \in 0 .. n
    BY DEF reduce_days2
  <2> QED
    BY <2>1, DateBounds
<1>1. 0 \in 0 .. n /\ reduce_days2(d, 0) = d
  BY <1>0, BackStep
<1>2. IsDate(d)
  BY <1>1
<1>3. DayNumber(d) \in Int
  <2>1. OnCalendar(d) /\ Year(d) >= 1000 /\ Year(d) \in Nat
    BY <1>2, DateBounds, DateFrom DEF OnCalendar
  <2>2. Year(d) # 0
    BY <2>1
  <2>3. /\ DayNumber(d) = YearStart(Year(d)) + InYear(Year(d), Month(d)) + Day(d)
        /\ YearStart(Year(d)) \in Int /\ InYear(Year(d), Month(d)) \in Nat /\ Day(d) \in Nat
    BY <2>1, <2>2, Parts, Zenon
  <2> QED
    BY <2>3
<1>4. 0 \in N
  BY <1>1, <1>3
<1>5. ASSUME NEW k \in Nat, k \in N PROVE k + 1 \in N
  <2> SUFFICES ASSUME k + 1 <= n
               PROVE  DayNumber(reduce_days2(d, k + 1)) = DayNumber(d) - (k + 1)
    OBVIOUS
  <2>1. k \in 0 .. n /\ k <= n
    OBVIOUS
  <2>2. OnCalendar(reduce_days2(d, k)) /\ Year(reduce_days2(d, k)) >= 1000
    BY <2>1, DateBounds
  <2>3. DayNumber(DayBefore(reduce_days2(d, k))) = DayNumber(reduce_days2(d, k)) - 1
    BY <2>2, DayBeforeNumber
  <2>4. reduce_days2(d, k + 1) = DayBefore(reduce_days2(d, k))
    BY <1>0, BackStep
  <2>5. DayNumber(reduce_days2(d, k)) = DayNumber(d) - k
    BY <1>5, <2>1
  <2> QED
    BY <1>3, <2>3, <2>4, <2>5
<1> HIDE DEF N
<1>6. \A k \in Nat : k \in N
  BY <1>4, <1>5, SetInduction
<1> QED
  BY <1>6 DEF N

-----------------------------------------------------------------------------
(* reduce_days: counted in months of 30 days and years of 365, and with a  *)
(* month and a day that may be 0, the limit lies the given days back.      *)
Rough(y, m, x) == 365 * (y - 1) + 30 * (m - 1) + x

FourDigits(y) == y >= 1000
FewDays(n)    == ~(n > 1000)

LEMMA ReducedIs ==
  ASSUME NEW d, ~OutOfRange(d), NEW n, FewDays(n)
  PROVE  reduce_days(d, n) =
           IF Day(d) - n >= 0 THEN DateOf(Year(d), Month(d), Day(d) - n)
           ELSE IF Month(d) * 30 + (Day(d) - n) >= 0
           THEN DateOf(Year(d), (Month(d) * 30 + (Day(d) - n)) \div 30,
                                (Month(d) * 30 + (Day(d) - n)) % 30)
           ELSE DateOf(Year(d) - 3 + (3 * 365 + (Month(d) * 30 + (Day(d) - n))) \div 365,
                       ((3 * 365 + (Month(d) * 30 + (Day(d) - n))) % 365) \div 30,
                       ((3 * 365 + (Month(d) * 30 + (Day(d) - n))) % 365) % 30)
BY Zenon DEF reduce_days, FewDays

LEMMA Limit ==
  ASSUME NEW d, OnCalendar(d), FourDigits(Year(d)), ~OutOfRange(d), NEW n \in Nat, FewDays(n)
  PROVE  \E y \in Nat \ {0}, m \in 0 .. 12, x \in 0 .. 31 :
           /\ reduce_days(d, n) = DateOf(y, m, x)
           /\ Year(d) - 3 <= y /\ y <= Year(d)
           /\ Rough(y, m, x) = Rough(Year(d), Month(d), Day(d)) - n
<1>0. Year(d) # 0
  <2>1. Year(d) \in Nat
    BY DateFrom DEF OnCalendar
  <2> QED
    BY <2>1 DEF FourDigits
<1>1. PICK yy \in Nat \ {0}, mm \in 1 .. 12, xx \in 1 .. 31 :
         yy = Year(d) /\ mm = Month(d) /\ xx = Day(d) /\ xx <= MonthDays(yy, mm)
  BY <1>0, PartsOf, Zenon
<1>2. yy >= 1000
  BY <1>1 DEF FourDigits
<1>3. ~(n > 1000)
  BY DEF FewDays
<1>r. reduce_days(d, n) =
           IF xx - n >= 0 THEN DateOf(yy, mm, xx - n)
           ELSE IF mm * 30 + (xx - n) >= 0
           THEN DateOf(yy, (mm * 30 + (xx - n)) \div 30, (mm * 30 + (xx - n)) % 30)
           ELSE DateOf(yy - 3 + (3 * 365 + (mm * 30 + (xx - n))) \div 365,
                       ((3 * 365 + (mm * 30 + (xx - n))) % 365) \div 30,
                       ((3 * 365 + (mm * 30 + (xx - n))) % 365) % 30)
  BY <1>1, ReducedIs
<1> DEFINE IsLimit(y, m, x) ==
             /\ reduce_days(d, n) = DateOf(y, m, x) /\ yy - 3 <= y /\ y <= yy
             /\ Rough(y, m, x) = Rough(yy, mm, xx) - n
<1>s. SUFFICES \E y \in Nat \ {0}, m \in 0 .. 12, x \in 0 .. 31 : IsLimit(y, m, x)
  BY <1>1, Zenon
<1>4. CASE xx - n >= 0
  <2>1. PICK x \in 0 .. 31 : x = xx - n
    BY <1>4
  <2>2. reduce_days(d, n) = DateOf(yy, mm, x)
    BY <1>r, <1>1, <1>4, <2>1, Zenon
  <2>3. Rough(yy, mm, x) = Rough(yy, mm, xx) - n
    BY <2>1 DEF Rough
  <2>4. mm \in 0 .. 12 /\ yy - 3 <= yy
    OBVIOUS
  <2>5. IsLimit(yy, mm, x)
    BY <2>2, <2>3, <2>4
  <2> HIDE DEF IsLimit
  <2> QED
    BY <2>4, <2>5
<1>5. CASE ~(xx - n >= 0) /\ mm * 30 + (xx - n) >= 0
  <2>1. PICK k \in 0 .. 359 : k = mm * 30 + (xx - n)
    BY <1>5
  <2>2. PICK m \in 0 .. 12, x \in 0 .. 31 : m = k \div 30 /\ x = k % 30 /\ k = 30 * m + x
    <3>1. k \div 30 \in 0 .. 12 /\ k % 30 \in 0 .. 31 /\ k = (k \div 30) * 30 + (k % 30)
      OBVIOUS
    <3> QED
      BY <3>1
  <2>3. reduce_days(d, n) = DateOf(yy, m, x)
    BY <1>r, <1>1, <1>5, <2>1, <2>2, Zenon
  <2>4. Rough(yy, m, x) = Rough(yy, mm, xx) - n
    BY <2>1, <2>2 DEF Rough
  <2>5. yy - 3 <= yy
    OBVIOUS
  <2>6. IsLimit(yy, m, x)
    BY <2>3, <2>4, <2>5
  <2> HIDE DEF IsLimit
  <2> QED
    BY <2>6
<1>6. CASE ~(xx - n >= 0) /\ ~(mm * 30 + (xx - n) >= 0)
  <2>1. PICK k \in 126 .. 1094 : k = 3 * 365 + (mm * 30 + (xx - n))
    BY <1>3, <1>6
  <2>2. PICK q \in 0 .. 2, r \in 0 .. 364 : q = k \div 365 /\ r = k % 365 /\ k = 365 * q + r
    <3>1. k \div 365 \in 0 .. 2 /\ k % 365 \in 0 .. 364 /\ k = (k \div 365) * 365 + (k % 365)
      OBVIOUS
    <3> QED
      BY <3>1
  <2>3. PICK m \in 0 .. 12, x \in 0 .. 31 : m = r \div 30 /\ x = r % 30 /\ r = 30 * m + x
    <3>1. r \div 30 \in 0 .. 12 /\ r % 30 \in 0 .. 31 /\ r = (r \div 30) * 30 + (r % 30)
      OBVIOUS
    <3> QED
      BY <3>1
  <2>4. PICK y \in Nat \ {0} : y = yy - 3 + q
    BY <1>2
  <2>5. reduce_days(d, n) = DateOf(y, m, x)
    BY <1>r, <1>1, <1>6, <2>1, <2>2, <2>3, <2>4
  <2>6. Rough(y, m, x) = Rough(yy, mm, xx) - n /\ yy - 3 <= y /\ y <= yy
    BY <2>1, <2>2, <2>3, <2>4 DEF Rough
  <2>7. IsLimit(y, m, x)
    BY <2>5, <2>6
  <2> HIDE DEF IsLimit
  <2> QED
    BY <2>7
<1> QED
  BY <1>4, <1>5, <1>6

(* the number of a date, against months of 30 days *)
LEMMA AboutRough ==
  ASSUME NEW d, OnCalendar(d), Year(d) # 0
  PROVE  /\ DayNumber(d) \in Int /\ Rough(Year(d), Month(d), Day(d)) \in Int
         /\ Leaps(Year(d)) \in Nat
         /\ Rough(Year(d), Month(d), Day(d)) + Leaps(Year(d)) - 1 <= DayNumber(d)
         /\ DayNumber(d) <= Rough(Year(d), Month(d), Day(d)) + Leaps(Year(d)) + 4
<1>1. PICK y \in Nat \ {0}, m \in 1 .. 12, x \in 1 .. 31 :
         y = Year(d) /\ m = Month(d) /\ x = Day(d)
  BY PartsOf, Zenon
<1>2. /\ DayNumber(d) = YearStart(y) + InYear(y, m) + x
      /\ YearStart(y) \in Int /\ InYear(y, m) \in Nat
  BY <1>1, Parts, Zenon
<1>3. PICK a \in Nat, w \in Nat : w = y - 1 /\ w + 1 = y /\ a = Leaps(w)
  <2>1. y - 1 \in Nat /\ (y - 1) + 1 = y
    OBVIOUS
  <2>2. Leaps(y - 1) \in Nat
    BY <2>1, NextLeap
  <2> QED
    BY <2>1, <2>2
<1>4. Leaps(y) = a + LeapDay(y) /\ LeapDay(y) \in {0, 1}
  <2>1. Leaps(w + 1) = Leaps(w) + LeapDay(w + 1)
    BY NextLeap
  <2>2. LeapDay(y) \in {0, 1}
    BY YearStarts
  <2> QED
    BY <1>3, <2>1, <2>2
<1>5. YearStart(y) = 365 * (y - 1) + a
  BY <1>3 DEF YearStart
<1>6. /\ 30 * (m - 1) - 1 + LeapDay(y) <= InYear(y, m)
      /\ InYear(y, m) <= 30 * (m - 1) + 4 + LeapDay(y)
  BY Months
<1>7. PICK b \in Nat, l \in {0, 1}, g \in Int : /\ b = InYear(y, m) /\ l = LeapDay(y) /\ g = DayNumber(d)
                                                /\ g = 365 * (y - 1) + a + b + x
  BY <1>2, <1>4, <1>5
<1>8. PICK h \in Int : h = Rough(y, m, x) /\ h = 365 * (y - 1) + 30 * (m - 1) + x
  BY DEF Rough
<1>9. h + (a + l) - 1 <= g /\ g <= h + (a + l) + 4
  BY <1>6, <1>7, <1>8
<1> QED
  BY <1>1, <1>4, <1>7, <1>8, <1>9

(* a date on either side of the limit *)
LEMMA NotBefore ==
  ASSUME NEW f, OnCalendar(f), Year(f) # 0,
         NEW y \in Nat \ {0}, NEW m \in 0 .. 12, NEW x \in 0 .. 31, ~(f < DateOf(y, m, x))
  PROVE  Rough(y, m, x) + Leaps(y - 1) - 1 <= DayNumber(f)
<1>1. PICK z \in Nat \ {0}, n \in 1 .. 12, w \in 1 .. 31 :
         /\ z = Year(f) /\ n = Month(f) /\ w = Day(f) /\ f = DateOf(z, n, w)
         /\ w <= MonthDays(z, n)
  BY PartsOf, Zenon
<1>2. /\ DayNumber(f) = YearStart(z) + InYear(z, n) + w
      /\ YearStart(z) \in Int /\ InYear(z, n) \in Nat
  BY <1>1, Parts, Zenon
<1>3. PICK a \in Int, b \in Nat, g \in Int :
         a = YearStart(z) /\ b = InYear(z, n) /\ g = DayNumber(f) /\ g = a + b + w
  BY <1>2
<1>4. PICK s \in Nat : s = Leaps(y - 1)
  <2>1. y - 1 \in Nat
    OBVIOUS
  <2> QED
    BY <2>1, NextLeap
<1>5. PICK h \in Int : h = Rough(y, m, x) /\ h = 365 * (y - 1) + 30 * (m - 1) + x
  BY DEF Rough
<1>6. y < z \/ (y = z /\ m < n) \/ (y = z /\ m = n /\ x <= w)
  <2>1. ~(DateOf(z, n, w) < DateOf(y, m, x))
    BY <1>1, Zenon
  <2> QED
    BY <2>1 DEF DateOf
<1>7. YearStart(y) = 365 * (y - 1) + s /\ YearStart(y) \in Int
  BY <1>4, YearStarts DEF YearStart
<1>8. CASE y < z
  <2>1. PICK l \in {0, 1} : YearStart(y + 1) = YearStart(y) + 365 + l
    BY YearStarts
  <2>2. YearStart(y + 1) <= YearStart(z)
    <3>1. y + 1 \in Nat \ {0} /\ z \in Nat /\ y + 1 <= z
      BY <1>8
    <3> QED
      BY <3>1, YearStarts
  <2> QED
    BY <1>3, <1>4, <1>5, <1>7, <2>1, <2>2
<1>9. CASE y = z
  <2>1. PICK l \in {0, 1} : l = LeapDay(z)
    BY YearStarts
  <2>2. 30 * (n - 1) - 1 + l <= b
    BY <1>3, <2>1, Months
  <2> QED
    BY <1>3, <1>4, <1>5, <1>6, <1>7, <1>9, <2>2
<1> QED
  BY <1>6, <1>8, <1>9

LEMMA Before ==
  ASSUME NEW f, OnCalendar(f), Year(f) # 0,
         NEW y \in Nat \ {0}, NEW m \in 1 .. 12, NEW x \in 0 .. 31, f < DateOf(y, m, x)
  PROVE  DayNumber(f) <= Rough(y, m, x) + Leaps(y) + 4
<1>1. PICK z \in Nat \ {0}, n \in 1 .. 12, w \in 1 .. 31 :
         /\ z = Year(f) /\ n = Month(f) /\ w = Day(f) /\ f = DateOf(z, n, w)
         /\ w <= MonthDays(z, n)
  BY PartsOf, Zenon
<1>2. /\ DayNumber(f) = YearStart(z) + InYear(z, n) + w
      /\ YearStart(z) \in Int /\ InYear(z, n) \in Nat
  BY <1>1, Parts, Zenon
<1>3. PICK a \in Int, b \in Nat, g \in Int :
         a = YearStart(z) /\ b = InYear(z, n) /\ g = DayNumber(f) /\ g = a + b + w
  BY <1>2
<1>4. PICK k \in 28 .. 31 : k = MonthDays(z, n) /\ w <= k
  BY <1>1, MonthBounds
<1>5. PICK h \in Int : h = Rough(y, m, x) /\ h = 365 * (y - 1) + 30 * (m - 1) + x
  BY DEF Rough
<1>6. z < y \/ (y = z /\ n < m) \/ (y = z /\ m = n /\ w < x)
  <2>1. DateOf(z, n, w) < DateOf(y, m, x)
    BY <1>1, Zenon
  <2> QED
    BY <2>1 DEF DateOf
<1>7. PICK s \in Nat, l \in {0, 1} :
         s = Leaps(y) /\ l = LeapDay(y) /\ YearStart(y) = 365 * (y - 1) + s - l
  <2>1. PICK v \in Nat : v = y - 1 /\ v + 1 = y
    OBVIOUS
  <2>2. Leaps(v + 1) = Leaps(v) + LeapDay(v + 1) /\ Leaps(v) \in Nat
    BY NextLeap
  <2>3. LeapDay(y) \in {0, 1}
    BY YearStarts
  <2>4. YearStart(y) = 365 * (y - 1) + Leaps(v)
    BY <2>1 DEF YearStart
  <2>5. Leaps(y) \in Nat
    BY <2>1, <2>2, <2>3
  <2> QED
    BY <2>1, <2>2, <2>3, <2>4, <2>5
<1>8. CASE z < y
  <2>1. PICK j \in {0, 1} : j = LeapDay(z) /\ YearStart(z + 1) = YearStart(z) + 365 + j
    BY YearStarts
  <2>2. YearStart(z + 1) <= YearStart(y)
    <3>1. z + 1 \in Nat \ {0} /\ y \in Nat /\ z + 1 <= y
      BY <1>8
    <3> QED
      BY <3>1, YearStarts
  <2>3. b + k <= 365 + j
    <3>1. CASE n = 12
      BY <1>3, <1>4, <2>1, <3>1, Months
    <3>2. CASE n < 12
      <4>1. 12 \in 1 .. 12
        OBVIOUS
      <4>2. InYear(z, n) + MonthDays(z, n) <= InYear(z, 12)
        BY <3>2, <4>1, Months
      <4>3. InYear(z, 12) \in Nat /\ InYear(z, 12) <= 30 * (12 - 1) + 4 + LeapDay(z)
        BY <4>1, Months
      <4> QED
        BY <1>3, <1>4, <2>1, <4>2, <4>3
    <3> QED
      BY <3>1, <3>2
  <2> QED
    BY <1>3, <1>4, <1>5, <1>7, <2>1, <2>2, <2>3
<1>9. CASE y = z
  <2>1. PICK c \in Nat : c = InYear(y, m) /\ c <= 30 * (m - 1) + 4 + l
    BY <1>7, Months
  <2>2. CASE n < m
    <3>1. b + k <= c
      BY <1>3, <1>4, <1>9, <2>1, <2>2, Months
    <3> QED
      BY <1>3, <1>4, <1>5, <1>7, <1>9, <2>1, <3>1
  <2>3. CASE m = n /\ w < x
    <3>1. b = c
      BY <1>3, <1>9, <2>1, <2>3
    <3> QED
      BY <1>3, <1>5, <1>7, <1>9, <2>1, <2>3, <3>1
  <2> QED
    BY <1>6, <1>9, <2>2, <2>3
<1> QED
  BY <1>6, <1>8, <1>9

(* What reduce_days leaves is at most 6 days too old, and what it takes is *)
(* at most 5 days too young, unless its month is 0.                        *)
LEMMA StillYoung ==
  ASSUME NEW d, OnCalendar(d), FourDigits(Year(d)), ~OutOfRange(d), NEW n \in Nat,
         NEW f, OnCalendar(f), Year(f) # 0, ~(reduce_days(d, n) > f)
  PROVE  DayNumber(d) - DayNumber(f) <= n + 6
<1>0. Year(d) # 0
  <2>1. Year(d) \in Nat
    BY DateFrom DEF OnCalendar
  <2> QED
    BY <2>1 DEF FourDigits
<1>1. DayNumber(d) \in Int /\ DayNumber(f) \in Int
  BY <1>0, AboutRough
<1>2. CASE FewDays(n)
  <2>0. n \in 0 .. 1000
    BY <1>2 DEF FewDays
  <2>1. PICK y \in Nat \ {0}, m \in 0 .. 12, x \in 0 .. 31 :
           /\ reduce_days(d, n) = DateOf(y, m, x)
           /\ Year(d) - 3 <= y /\ y <= Year(d)
           /\ Rough(y, m, x) = Rough(Year(d), Month(d), Day(d)) - n
    BY <1>2, Limit
  <2>2. Rough(y, m, x) + Leaps(y - 1) - 1 <= DayNumber(f)
    <3>1. f \in Nat /\ DateOf(y, m, x) \in Nat
      BY DEF OnCalendar, DateOf
    <3>2. ~(f < DateOf(y, m, x))
      BY <2>1, <3>1
    <3> QED
      BY <3>2, NotBefore
  <2>3. Leaps(Year(d)) <= Leaps(y - 1) + 1 /\ Leaps(y - 1) \in Nat
    <3>1. PICK z \in Nat, k \in 0 .. 4 : z = y - 1 /\ z + k = Year(d)
      <4>1. Year(d) \in Nat /\ y - 1 \in Nat
        BY DateFrom DEF OnCalendar
      <4>2. Year(d) - (y - 1) \in 0 .. 4 /\ (y - 1) + (Year(d) - (y - 1)) = Year(d)
        BY <2>1, <4>1
      <4> QED
        BY <4>1, <4>2
    <3> QED
      BY <3>1, LeapsGrow, NextLeap
  <2>4. /\ DayNumber(d) <= Rough(Year(d), Month(d), Day(d)) + Leaps(Year(d)) + 4
        /\ Rough(Year(d), Month(d), Day(d)) \in Int /\ Leaps(Year(d)) \in Nat
    BY <1>0, AboutRough
  <2>5. PICK r \in Int : r = Rough(Year(d), Month(d), Day(d)) /\ Rough(y, m, x) = r - n
    BY <2>1, <2>4
  <2> QED
    BY <1>1, <2>2, <2>3, <2>4, <2>5
<1>3. CASE ~FewDays(n)
  <2>1. reduce_days(d, n) = d
    BY <1>3 DEF FewDays, reduce_days
  <2>2. ~(d > f)
    BY <2>1
  <2>3. d \in Nat /\ f \in Nat
    BY DEF OnCalendar
  <2>4. d = f \/ d < f
    BY <2>2, <2>3
  <2>5. d < f => DayNumber(d) < DayNumber(f)
    BY <1>0, NumberOrder
  <2> QED
    BY <1>1, <2>4, <2>5
<1> QED
  BY <1>2, <1>3

LEMMA Outlived ==
  ASSUME NEW d, OnCalendar(d), FourDigits(Year(d)), ~OutOfRange(d), NEW n \in Nat, FewDays(n),
         NEW f, OnCalendar(f), Year(f) # 0, reduce_days(d, n) > f
  PROVE  \/ DayNumber(d) - DayNumber(f) > n - 6
         \/ Month(reduce_days(d, n)) = 0 /\ Year(f) < Year(d)
<1>0. Year(d) # 0
  <2>1. Year(d) \in Nat
    BY DateFrom DEF OnCalendar
  <2> QED
    BY <2>1 DEF FourDigits
<1>1. DayNumber(d) \in Int /\ DayNumber(f) \in Int
  BY <1>0, AboutRough
<1>2. PICK y \in Nat \ {0}, m \in 0 .. 12, x \in 0 .. 31 :
         /\ reduce_days(d, n) = DateOf(y, m, x)
         /\ Year(d) - 3 <= y /\ y <= Year(d)
         /\ Rough(y, m, x) = Rough(Year(d), Month(d), Day(d)) - n
  BY Limit
<1>3. f \in Nat /\ DateOf(y, m, x) \in Nat /\ f < DateOf(y, m, x)
  <2>1. f \in Nat /\ DateOf(y, m, x) \in Nat
    BY DEF OnCalendar, DateOf
  <2>2. DateOf(y, m, x) > f
    BY <1>2
  <2> QED
    BY <2>1, <2>2
<1>4. CASE m = 0
  <2>1. Month(DateOf(y, m, x)) = 0
    <3>1. y \in Nat /\ m \in 0 .. 99 /\ x \in 0 .. 99
      OBVIOUS
    <3> QED
      BY <1>4, <3>1, DateParts
  <2>2. Year(f) < y
    <3>1. PICK z \in Nat \ {0}, k \in 1 .. 12, w \in 1 .. 31 :
             /\ z = Year(f) /\ k = Month(f) /\ w = Day(f) /\ f = DateOf(z, k, w)
             /\ w <= MonthDays(z, k)
      BY PartsOf, Zenon
    <3>2. z < y
      BY <1>3, <1>4, <3>1 DEF DateOf
    <3> QED
      BY <3>1, <3>2
  <2>3. Year(f) \in Nat /\ Year(d) \in Nat
    BY DateFrom DEF OnCalendar
  <2> QED
    BY <1>2, <2>1, <2>2, <2>3
<1>5. CASE m # 0
  <2>0. m \in 1 .. 12
    BY <1>5
  <2>1. DayNumber(f) <= Rough(y, m, x) + Leaps(y) + 4
    BY <1>3, <2>0, Before
  <2>2. /\ Rough(Year(d), Month(d), Day(d)) + Leaps(Year(d)) - 1 <= DayNumber(d)
        /\ Rough(Year(d), Month(d), Day(d)) \in Int /\ Leaps(Year(d)) \in Nat
    BY <1>0, AboutRough
  <2>3. Leaps(y) <= Leaps(Year(d)) /\ Leaps(y) \in Nat
    <3>1. Year(d) \in Nat /\ y \in Nat
      BY DateFrom DEF OnCalendar
    <3> QED
      BY <1>2, <3>1, LeapsOrder, NextLeap
  <2>4. PICK r \in Int : r = Rough(Year(d), Month(d), Day(d)) /\ Rough(y, m, x) = r - n
    BY <1>2, <2>2
  <2> QED
    BY <1>1, <2>1, <2>2, <2>3, <2>4
<1> QED
  BY <1>4, <1>5

-----------------------------------------------------------------------------
(* The clock stays on the calendar and within its bound, and the files are *)
(* days of the calendar, none of them older than OldFilesGone allows.      *)
CleanInv ==
  /\ CleanTypeOK /\ date <= CleanLast
  /\ files = [dir \in Dirs |-> files[dir]]
  /\ OldFilesGone

LEMMA Dated ==
  ASSUME NEW d, IsDate(d)
  PROVE  /\ OnCalendar(d) /\ FourDigits(Year(d)) /\ ~OutOfRange(d) /\ Year(d) # 0
         /\ DayNumber(d) \in Int /\ d \in Nat
<1>1. OnCalendar(d) /\ FourDigits(Year(d)) /\ ~OutOfRange(d)
  BY DateBounds, Zenon DEF FourDigits
<1>2. d \in Nat
  BY <1>1, Zenon DEF OnCalendar
<1>3. Year(d) \in Nat
  BY <1>2, DateFrom
<1>4. Year(d) # 0
  BY <1>1, <1>3 DEF FourDigits
<1> QED
  BY <1>1, <1>2, <1>4, AboutRough, Zenon

LEMMA TomorrowDated ==
  ASSUME NEW d, IsDate(d), NEW l, IsDate(l), d <= l, d # l
  PROVE  IsDate(Tomorrow(d)) /\ Tomorrow(d) <= l /\ DayNumber(Tomorrow(d)) = DayNumber(d) + 1
<1>1. OnCalendar(d) /\ Year(d) # 0 /\ DayNumber(d) \in Int /\ d \in Nat
  BY Dated, Zenon
<1>2. OnCalendar(l) /\ Year(l) # 0 /\ DayNumber(l) \in Int /\ l \in Nat
  BY Dated, Zenon
<1>3. /\ OnCalendar(Tomorrow(d)) /\ d < Tomorrow(d) /\ Year(d) <= Year(Tomorrow(d))
      /\ DayNumber(Tomorrow(d)) = DayNumber(d) + 1
  BY <1>1, TomorrowNumber, Zenon
<1>4. Tomorrow(d) \in Nat /\ Year(d) \in Nat /\ Year(Tomorrow(d)) \in Nat
  BY <1>1, <1>3, DateFrom, Zenon DEF OnCalendar
<1>5. Year(Tomorrow(d)) # 0
  BY <1>1, <1>3, <1>4, SMT
<1>6. DayNumber(d) < DayNumber(l)
  <2>1. d < l
    BY <1>1, <1>2, SMT
  <2> QED
    BY <1>1, <1>2, <2>1, NumberOrder, Zenon
<1>7. ~(l < Tomorrow(d))
  <2>1. l < Tomorrow(d) => DayNumber(l) < DayNumber(Tomorrow(d))
    BY <1>2, <1>3, <1>5, NumberOrder, Zenon
  <2> QED
    BY <1>1, <1>2, <1>3, <1>6, <2>1, SMT
<1>8. Tomorrow(d) <= l
  BY <1>2, <1>4, <1>7, SMT
<1>9. IsDate(Tomorrow(d))
  BY <1>3, <1>4, <1>8, SMT DEF IsDate, OnCalendar
<1> QED
  BY <1>3, <1>8, <1>9, SMT

LEMMA CleanStart == CleanInit => CleanInv
<1> SUFFICES ASSUME CleanInit PROVE CleanInv
  OBVIOUS
<1>1. /\ m_file_save_days \in SaveDays /\ m_file_save_days \in Nat
      /\ date = CleanFirst /\ minute = "before" /\ clean_pc = "sleep"
      /\ missed = [dir \in Dirs |-> 0]
  BY CleaningAssumption DEF CleanInit
<1>2. ASSUME NEW dir \in Dirs, NEW f \in files[dir]
      PROVE  IsDate(f) /\ DayNumber(date) - DayNumber(f) <= m_file_save_days
  <2>1. f \in {reduce_days2(CleanFirst, n) : n \in 0 .. m_file_save_days}
    BY <1>2 DEF CleanInit
  <2>2. PICK n \in 0 .. m_file_save_days : f = reduce_days2(CleanFirst, n)
    BY <2>1
  <2>3. \A i \in 0 .. m_file_save_days : IsDate(reduce_days2(CleanFirst, i))
    BY <1>1, CleaningAssumption, Zenon
  <2>4. n \in Nat /\ \A i \in 0 .. n : i \in 0 .. m_file_save_days
    BY <1>1, <2>2
  <2>5. DayNumber(f) = DayNumber(date) - n
    BY <1>1, <2>2, <2>3, <2>4, ExactDaysBack, Zenon
  <2>6. DayNumber(date) \in Int
    BY <1>1, CleaningAssumption, Dated, Zenon
  <2>7. DayNumber(date) - DayNumber(f) <= m_file_save_days
    BY <1>1, <2>4, <2>5, <2>6
  <2> QED
    BY <2>2, <2>3, <2>7, Zenon
<1>3. CleanTypeOK
  <2>1. IsDate(date) /\ minute \in {"before", "at", "after"} /\ clean_pc \in {"sleep"} \cup Dirs
    BY <1>1, CleaningAssumption, Zenon
  <2>2. missed \in [Dirs -> 0 .. MaxMissed]
    <3>1. 0 \in 0 .. MaxMissed
      BY CleaningAssumption, SMT
    <3> QED
      BY <1>1, <3>1
  <2> QED
    BY <1>1, <1>2, <2>1, <2>2, Zenon DEF CleanTypeOK
<1>4. OldFilesGone
  <2> SUFFICES ASSUME NEW dir \in Dirs, NEW f \in files[dir]
               PROVE  DayNumber(date) - DayNumber(f) <= m_file_save_days + Drift + missed[dir]
    BY Zenon DEF OldFilesGone
  <2>1. Drift \in Nat /\ missed[dir] = 0
    BY <1>1, CleaningAssumption, SMT
  <2>2. DayNumber(date) \in Int /\ DayNumber(f) \in Int
    BY <1>1, <1>2, CleaningAssumption, Dated, Zenon
  <2> QED
    BY <1>1, <1>2, <2>1, <2>2, SMT
<1>5. files = [dir \in Dirs |-> files[dir]] /\ date <= CleanLast
  BY <1>1, CleaningAssumption DEF CleanInit
<1> QED
  BY <1>3, <1>4, <1>5, Zenon DEF CleanInv

LEMMA CleanStep ==
  ASSUME Drift >= 6
  PROVE  CleanInv /\ [CleanNext]_clean_vars => CleanInv'
<1> SUFFICES ASSUME CleanInv, [CleanNext]_clean_vars PROVE CleanInv'
  OBVIOUS
<1>a. /\ m_file_save_days \in SaveDays /\ IsDate(date)
      /\ minute \in {"before", "at", "after"} /\ clean_pc \in {"sleep"} \cup Dirs
      /\ \A dir \in Dirs : \A f \in files[dir] : IsDate(f)
      /\ missed \in [Dirs -> 0 .. MaxMissed]
      /\ date <= CleanLast /\ files = [dir \in Dirs |-> files[dir]]
  BY Zenon DEF CleanInv, CleanTypeOK
<1>b. ASSUME NEW dir \in Dirs, NEW f \in files[dir]
      PROVE  DayNumber(date) - DayNumber(f) <= m_file_save_days + Drift + missed[dir]
  BY Zenon DEF CleanInv, OldFilesGone
<1>c. /\ m_file_save_days \in Nat /\ Drift \in Nat /\ MaxMissed \in Nat /\ IsDate(CleanLast)
      /\ \A dir \in Dirs : missed[dir] \in Nat
  <2>1. SaveDays \subseteq Nat /\ Drift \in Nat /\ MaxMissed \in Nat /\ IsDate(CleanLast)
    BY CleaningAssumption, Zenon
  <2> QED
    BY <1>a, <2>1
<1>d. DayNumber(date) \in Int /\ \A dir \in Dirs : \A f \in files[dir] : DayNumber(f) \in Int
  BY <1>a, Dated, Zenon
(* a step that changes only the minute or what the thread does next *)
<1>1. ASSUME UNCHANGED <<m_file_save_days, date, files, missed>>,
             minute' \in {"before", "at", "after"}, clean_pc' \in {"sleep"} \cup Dirs
      PROVE  CleanInv'
  <2>1. CleanTypeOK'
    BY <1>a, <1>1, Zenon DEF CleanTypeOK
  <2>2. OldFilesGone'
    BY <1>b, <1>1, Zenon DEF OldFilesGone
  <2>3. (date <= CleanLast)' /\ (files = [dir \in Dirs |-> files[dir]])'
    BY <1>a, <1>1, Zenon
  <2> QED
    BY <2>1, <2>2, <2>3, Zenon DEF CleanInv
<1>2. CASE MinutePasses
  BY <1>1, <1>2, <1>a, Zenon DEF MinutePasses
<1>3. CASE LookAtClock
  BY <1>1, <1>3, <1>a, Zenon DEF LookAtClock, Dirs
<1>4. CASE CleanKill
  BY <1>1, <1>4, <1>a, Zenon DEF CleanKill
<1>5. CASE UNCHANGED clean_vars
  BY <1>1, <1>5, <1>a, Zenon DEF clean_vars
<1>6. CASE NextDay
  <2>1. /\ date # CleanLast /\ \A dir \in Dirs : missed[dir] < MaxMissed
        /\ date' = Tomorrow(date) /\ minute' = "before"
        /\ files' = [dir \in Dirs |-> files[dir] \cup {Tomorrow(date)}]
        /\ missed' = [dir \in Dirs |-> missed[dir] + 1]
        /\ UNCHANGED <<m_file_save_days, clean_pc>>
    BY <1>6, Zenon DEF NextDay
  <2>2. /\ IsDate(Tomorrow(date)) /\ Tomorrow(date) <= CleanLast
        /\ DayNumber(Tomorrow(date)) = DayNumber(date) + 1
    BY <1>a, <1>c, <2>1, TomorrowDated, Zenon
  <2>3. missed' \in [Dirs -> 0 .. MaxMissed]
    <3>1. \A dir \in Dirs : missed[dir] + 1 \in 0 .. MaxMissed
      BY <1>c, <2>1, SMT
    <3> QED
      BY <2>1, <3>1, Zenon
  <2>4. ASSUME NEW dir \in Dirs, NEW f \in files'[dir]
        PROVE  IsDate(f) /\ (f \in files[dir] \/ f = Tomorrow(date))
    <3>1. f \in files[dir] \cup {Tomorrow(date)}
      BY <2>1, <2>4, Zenon
    <3> QED
      BY <1>a, <2>2, <3>1, Zenon
  <2>5. CleanTypeOK'
    <3>1. m_file_save_days' \in SaveDays /\ IsDate(date') /\ minute' \in {"before", "at", "after"}
          /\ clean_pc' \in {"sleep"} \cup Dirs
      BY <1>a, <2>1, <2>2, Zenon
    <3> QED
      BY <2>3, <2>4, <3>1, Zenon DEF CleanTypeOK
  <2>6. OldFilesGone'
    <3> SUFFICES ASSUME NEW dir \in Dirs, NEW f \in files'[dir]
                 PROVE  DayNumber(date') - DayNumber(f) <= m_file_save_days' + Drift + missed'[dir]
      BY Zenon DEF OldFilesGone
    <3>1. /\ DayNumber(date') = DayNumber(date) + 1 /\ m_file_save_days' = m_file_save_days
          /\ missed'[dir] = missed[dir] + 1
      BY <2>1, <2>2, Zenon
    <3>2. CASE f \in files[dir]
      BY <1>b, <1>c, <1>d, <3>1, <3>2, SMT
    <3>3. CASE f = Tomorrow(date)
      BY <1>c, <1>d, <2>2, <3>1, <3>3, SMT
    <3> QED
      BY <2>4, <3>2, <3>3, Zenon
  <2>7. (date <= CleanLast)' /\ (files = [dir \in Dirs |-> files[dir]])'
    <3>1. date' <= CleanLast
      BY <2>1, <2>2, Zenon
    <3>2. files' = [dir \in Dirs |-> files'[dir]]
      BY <2>1
    <3> QED
      BY <3>1, <3>2, Zenon
  <2> QED
    BY <2>5, <2>6, <2>7, Zenon DEF CleanInv
<1>7. ASSUME NEW d \in Dirs, CleanDir(d) PROVE CleanInv'
  <2>1. /\ files' = [files EXCEPT ![d] = {f \in @ : ~Outdated(f, OldestKept(date))}]
        /\ missed' = [missed EXCEPT ![d] = 0]
        /\ clean_pc' \in {"sleep"} \cup Dirs
        /\ UNCHANGED <<m_file_save_days, date, minute>>
    BY <1>7, Zenon DEF CleanDir, Dirs
  <2>2. /\ files'[d] = {f \in files[d] : ~Outdated(f, OldestKept(date))} /\ missed'[d] = 0
        /\ \A dir \in Dirs : dir # d => files'[dir] = files[dir] /\ missed'[dir] = missed[dir]
        /\ files' = [dir \in Dirs |-> files'[dir]]
    BY <1>a, <2>1
  <2>3. missed' \in [Dirs -> 0 .. MaxMissed]
    <3>1. 0 \in 0 .. MaxMissed
      BY <1>c, SMT
    <3> QED
      BY <1>a, <2>1, <3>1
  <2>4. ASSUME NEW dir \in Dirs, NEW f \in files'[dir] PROVE f \in files[dir]
    BY <2>2, <2>4, Zenon
  <2>5. CleanTypeOK'
    BY <1>a, <2>1, <2>3, <2>4, Zenon DEF CleanTypeOK
  <2>6. OldFilesGone'
    <3> SUFFICES ASSUME NEW dir \in Dirs, NEW f \in files'[dir]
                 PROVE  DayNumber(date) - DayNumber(f) <= m_file_save_days + Drift + missed'[dir]
      BY <2>1, Zenon DEF OldFilesGone
    <3>1. f \in files[dir]
      BY <2>4
    <3>2. CASE dir = d
      <4>1. ~(reduce_days(date, m_file_save_days) > f)
        BY <2>2, <3>2, Zenon DEF Outdated, OldestKept
      <4>2. IsDate(f) /\ OnCalendar(f) /\ Year(f) # 0
        BY <1>a, <3>1, Dated, Zenon
      <4>3. OnCalendar(date) /\ FourDigits(Year(date)) /\ ~OutOfRange(date)
        BY <1>a, Dated, Zenon
      <4>4. DayNumber(date) - DayNumber(f) <= m_file_save_days + 6
        BY <1>c, <4>1, <4>2, <4>3, StillYoung, Zenon
      <4>5. missed'[dir] = 0
        BY <2>2, <3>2, Zenon
      <4> QED
        BY <1>c, <1>d, <3>1, <4>4, <4>5, SMT
    <3>3. CASE dir # d
      BY <1>b, <2>2, <3>1, <3>3, Zenon
    <3> QED
      BY <3>2, <3>3, Zenon
  <2>7. (date <= CleanLast)' /\ (files = [dir \in Dirs |-> files[dir]])'
    BY <1>a, <2>1, <2>2, Zenon
  <2> QED
    BY <2>5, <2>6, <2>7, Zenon DEF CleanInv
<1> QED
  BY <1>2, <1>3, <1>4, <1>5, <1>6, <1>7, Zenon DEF CleanNext

LEMMA CleanInvariant == ASSUME Drift >= 6 PROVE CleanSpec => []CleanInv
<1>1. CleanInit => CleanInv
  BY CleanStart
<1>2. CleanInv /\ [CleanNext]_clean_vars => CleanInv'
  BY CleanStep
<1> QED
  BY <1>1, <1>2, PTL DEF CleanSpec

(* Whatever minutes the thread misses and wherever it is killed, and for   *)
(* any days to keep, no file outlives the limit by more than the days that *)
(* were missed: months of 30 days make reduce_days (utils.cpp:493) at most *)
(* 6 days late.                                                            *)
THEOREM OldFilesDeleted == ASSUME Drift >= 6 PROVE CleanSpec => []OldFilesGone
<1>1. CleanInv => OldFilesGone
  BY DEF CleanInv
<1> QED
  BY <1>1, CleanInvariant, PTL

(* The other way round: up to the 1000 days reduce_days takes, a file is   *)
(* deleted at most 5 days too early, unless the limit has fallen into a    *)
(* month 0, where the files of an earlier year go.                         *)
THEOREM YoungFilesKept ==
  ASSUME Drift >= 6, SaveDays \subseteq 0 .. 1000
  PROVE  CleanSpec => KeptOutsideMonthZero
<1>1. ASSUME CleanInv, [CleanNext]_clean_vars
      PROVE  [\A dir \in Dirs : \A f \in Deleted(dir) :
                \/ Age(f) > m_file_save_days - Drift
                \/ MonthZero /\ Year(f) < Year(date)]_clean_vars
  <2> SUFFICES ASSUME CleanNext, NEW dir \in Dirs, NEW f \in Deleted(dir)
               PROVE  \/ Age(f) > m_file_save_days - Drift
                      \/ MonthZero /\ Year(f) < Year(date)
    BY <1>1, Zenon
  <2>1. f \in files[dir] /\ f \notin files'[dir]
    BY Zenon DEF Deleted
  <2>2. files = [e \in Dirs |-> files[e]] /\ IsDate(date) /\ IsDate(f)
        /\ m_file_save_days \in SaveDays
    BY <1>1, <2>1, Zenon DEF CleanInv, CleanTypeOK
  <2>3. PICK d \in Dirs : CleanDir(d)
    <3>1. CASE MinutePasses \/ LookAtClock \/ CleanKill
      BY <2>1, <3>1, Zenon DEF MinutePasses, LookAtClock, CleanKill
    <3>2. CASE NextDay
      <4>1. files'[dir] = files[dir] \cup {Tomorrow(date)}
        BY <3>2, Zenon DEF NextDay
      <4> QED
        BY <2>1, <4>1, Zenon
    <3> QED
      BY <3>1, <3>2, Zenon DEF CleanNext
  <2>4. files' = [files EXCEPT ![d] = {g \in @ : ~Outdated(g, OldestKept(date))}]
    BY <2>3, Zenon DEF CleanDir
  <2>5. d = dir /\ OldestKept(date) > f
    BY <2>1, <2>2, <2>4 DEF Outdated
  <2>6. reduce_days(date, m_file_save_days) > f
    BY <2>5, Zenon DEF OldestKept
  <2>7. m_file_save_days \in Nat /\ FewDays(m_file_save_days) /\ Drift \in Nat
    BY <2>2, CleaningAssumption, SMT DEF FewDays
  <2>8. /\ OnCalendar(date) /\ FourDigits(Year(date)) /\ ~OutOfRange(date)
        /\ DayNumber(date) \in Int /\ DayNumber(f) \in Int
        /\ OnCalendar(f) /\ Year(f) # 0
    BY <2>2, Dated, SMT
  <2>9. \/ DayNumber(date) - DayNumber(f) > m_file_save_days - 6
        \/ Month(reduce_days(date, m_file_save_days)) = 0 /\ Year(f) < Year(date)
    BY <2>6, <2>7, <2>8, Outlived, Zenon
  <2>10. Age(f) = DayNumber(date) - DayNumber(f)
    BY Zenon DEF Age, DaysBetween
  <2>11. CASE DayNumber(date) - DayNumber(f) > m_file_save_days - 6
    BY <2>7, <2>8, <2>10, <2>11, SMT
  <2>12. CASE Month(reduce_days(date, m_file_save_days)) = 0 /\ Year(f) < Year(date)
    BY <2>12, Zenon DEF MonthZero, OldestKept
  <2> QED
    BY <2>9, <2>11, <2>12, Zenon
<1> QED
  BY <1>1, CleanInvariant, PTL DEF CleanSpec, KeptOutsideMonthZero

-----------------------------------------------------------------------------
(* Sums over the devices.  Sums(c)[S] is the sum of the numbers of the     *)
(* devices in S; the definition takes the devices in one order, and the    *)
(* sum is that in any.                                                     *)
Pick(S) == CHOOSE k \in S : TRUE
Sums(c) == LET iter[S \in SUBSET Keys] == IF S = {} THEN 0 ELSE c[Pick(S)] + iter[S \ {Pick(S)}]
           IN  iter
UpTo(n) == {S \in SUBSET Keys : Cardinality(S) <= n}
IsSums(f, c, D) == f = [S \in D |-> IF S = {} THEN 0 ELSE c[Pick(S)] + f[S \ {Pick(S)}]]
Counts  == [Keys -> Nat]

LEMMA SumIsSums == ASSUME NEW c PROVE Sum(c) = Sums(c)[Keys]
BY DEF Sum, Sums, Pick, MapThenSumSet, MapThenFoldSet

LEMMA KeysFinite ==
  /\ IsFiniteSet(Keys) /\ Cardinality(Keys) \in Nat
  /\ \A S \in SUBSET Keys : /\ IsFiniteSet(S) /\ Cardinality(S) \in Nat
                            /\ Cardinality(S) <= Cardinality(Keys)
BY StatisticAssumption, FS_Subset, FS_CardinalityType

LEMMA Picked ==
  ASSUME NEW S \in SUBSET Keys, S # {}
  PROVE  /\ Pick(S) \in S /\ Pick(S) \in Keys
         /\ S \ {Pick(S)} \in SUBSET Keys
BY DEF Pick

LEMMA Smaller ==
  ASSUME NEW S \in SUBSET Keys, NEW k \in S
  PROVE  /\ S \ {k} \in SUBSET Keys
         /\ Cardinality(S \ {k}) = Cardinality(S) - 1
         /\ Cardinality(S) \in Nat /\ Cardinality(S) # 0
<1>1. IsFiniteSet(S)
  BY KeysFinite
<1>2. Cardinality(S \ {k}) = Cardinality(S) - 1 /\ Cardinality(S \ {k}) \in Nat
      /\ Cardinality(S) \in Nat
  BY <1>1, FS_RemoveElement, FS_CardinalityType, KeysFinite
<1> QED
  BY <1>2

LEMMA Induction ==
  ASSUME NEW X, {} \in X,
         \A S \in SUBSET Keys : S # {} /\ (\A k \in S : S \ {k} \in X) => S \in X
  PROVE  \A S \in SUBSET Keys : S \in X
<1> DEFINE N == {n \in Nat : \A S \in SUBSET Keys : Cardinality(S) = n => S \in X}
<1>1. 0 \in N
  <2>1. \A S \in SUBSET Keys : Cardinality(S) = 0 => S = {}
    BY KeysFinite, FS_EmptySet
  <2> QED
    BY <2>1
<1>2. ASSUME NEW n \in Nat, n \in N PROVE n + 1 \in N
  <2> SUFFICES ASSUME NEW S \in SUBSET Keys, Cardinality(S) = n + 1 PROVE S \in X
    OBVIOUS
  <2>1. S # {}
    BY FS_EmptySet
  <2>2. ASSUME NEW k \in S PROVE S \ {k} \in X
    <3>1. S \ {k} \in SUBSET Keys /\ Cardinality(S \ {k}) = (n + 1) - 1
      BY Smaller
    <3> QED
      BY <1>2, <3>1
  <2> QED
    BY <2>1, <2>2
<1> HIDE DEF N
<1>3. \A n \in Nat : n \in N
  BY <1>1, <1>2, SetInduction
<1> QED
  BY <1>3, KeysFinite DEF N

LEMMA SumsExist ==
  ASSUME NEW c
  PROVE  Sums(c) = [S \in SUBSET Keys |->
                      IF S = {} THEN 0 ELSE c[Pick(S)] + Sums(c)[S \ {Pick(S)}]]
<1> DEFINE N == {n \in Nat : \E f : IsSums(f, c, UpTo(n))}
<1>1. 0 \in N
  <2>1. UpTo(0) = {{}}
    BY KeysFinite, FS_EmptySet DEF UpTo
  <2>2. IsSums([S \in UpTo(0) |-> 0], c, UpTo(0))
    BY <2>1 DEF IsSums
  <2> QED
    BY <2>2
<1>2. ASSUME NEW n \in Nat, n \in N PROVE n + 1 \in N
  <2>1. PICK f : IsSums(f, c, UpTo(n))
    BY <1>2
  <2> DEFINE g == [S \in UpTo(n + 1) |->
                     IF S \in UpTo(n) THEN f[S] ELSE c[Pick(S)] + f[S \ {Pick(S)}]]
  <2>2. \A S \in UpTo(n) : f[S] = IF S = {} THEN 0 ELSE c[Pick(S)] + f[S \ {Pick(S)}]
    BY <2>1 DEF IsSums
  <2>3. UpTo(n) \subseteq UpTo(n + 1) /\ {} \in UpTo(n)
    BY KeysFinite, FS_EmptySet DEF UpTo
  <2>4. ASSUME NEW S \in UpTo(n + 1), S # {}
        PROVE  S \ {Pick(S)} \in UpTo(n) /\ S \ {Pick(S)} \in UpTo(n + 1)
    <3>1. S \in SUBSET Keys /\ Cardinality(S) <= n + 1 /\ Pick(S) \in S
      BY <2>4, Picked DEF UpTo
    <3>2. Cardinality(S \ {Pick(S)}) = Cardinality(S) - 1 /\ Cardinality(S) \in Nat
          /\ S \ {Pick(S)} \in SUBSET Keys
      BY <3>1, Smaller
    <3>3. Cardinality(S \ {Pick(S)}) <= n
      BY <3>1, <3>2
    <3> QED
      BY <2>3, <3>2, <3>3 DEF UpTo
  <2>5. ASSUME NEW S \in UpTo(n + 1)
        PROVE  g[S] = IF S = {} THEN 0 ELSE c[Pick(S)] + g[S \ {Pick(S)}]
    <3>1. CASE S = {}
      BY <2>2, <2>3, <3>1
    <3>2. CASE S # {}
      <4>1. g[S \ {Pick(S)}] = f[S \ {Pick(S)}]
        BY <2>4, <3>2
      <4>2. g[S] = c[Pick(S)] + f[S \ {Pick(S)}]
        BY <2>2, <3>2
      <4> QED
        BY <3>2, <4>1, <4>2
    <3> QED
      BY <3>1, <3>2
  <2>6. IsSums(g, c, UpTo(n + 1))
    <3>1. g = [S \in UpTo(n + 1) |-> g[S]]
      OBVIOUS
    <3> HIDE DEF g
    <3> QED
      BY <2>5, <3>1, Zenon DEF IsSums
  <2> QED
    BY <2>6
<1> HIDE DEF N
<1>3. Cardinality(Keys) \in N
  BY <1>1, <1>2, SetInduction, KeysFinite
<1>4. UpTo(Cardinality(Keys)) = SUBSET Keys
  BY KeysFinite DEF UpTo
<1>5. \E f : IsSums(f, c, SUBSET Keys)
  BY <1>3, <1>4 DEF N
<1>6. IsSums(CHOOSE f : IsSums(f, c, SUBSET Keys), c, SUBSET Keys)
  BY <1>5
<1> QED
  BY <1>6 DEF IsSums, Sums

LEMMA SumsAre ==
  ASSUME NEW c \in Counts
  PROVE  /\ Sums(c) \in [SUBSET Keys -> Nat] /\ Sums(c)[{}] = 0
         /\ \A S \in SUBSET Keys : S # {} =>
              Sums(c)[S] = c[Pick(S)] + Sums(c)[S \ {Pick(S)}]
<1>1. DOMAIN Sums(c) = SUBSET Keys
  BY SumsExist
<1>2. Sums(c)[{}] = 0
  BY SumsExist
<1>3. \A S \in SUBSET Keys : S # {} => Sums(c)[S] = c[Pick(S)] + Sums(c)[S \ {Pick(S)}]
  BY SumsExist
<1> DEFINE X == {S \in SUBSET Keys : Sums(c)[S] \in Nat}
<1>4. {} \in X
  BY <1>2
<1>5. ASSUME NEW S \in SUBSET Keys, S # {}, \A k \in S : S \ {k} \in X
      PROVE  S \in X
  <2>1. Pick(S) \in S /\ c[Pick(S)] \in Nat
    BY <1>5, Picked DEF Counts
  <2>2. Sums(c)[S \ {Pick(S)}] \in Nat
    BY <1>5, <2>1
  <2> QED
    BY <1>3, <1>5, <2>1, <2>2
<1> HIDE DEF X
<1>6. \A S \in SUBSET Keys : S \in X
  BY <1>4, <1>5, Induction
<1>7. \A S \in SUBSET Keys : Sums(c)[S] \in Nat
  BY <1>6 DEF X
<1>8. Sums(c) = [S \in SUBSET Keys |-> Sums(c)[S]]
  BY <1>1, SumsExist
<1> QED
  BY <1>2, <1>3, <1>7, <1>8

LEMMA SumsRemove ==
  ASSUME NEW c \in Counts, NEW S \in SUBSET Keys, NEW k \in S
  PROVE  Sums(c)[S] = c[k] + Sums(c)[S \ {k}]
<1> DEFINE X == {T \in SUBSET Keys : \A j \in T : Sums(c)[T] = c[j] + Sums(c)[T \ {j}]}
<1>1. {} \in X
  OBVIOUS
<1>2. ASSUME NEW T \in SUBSET Keys, T # {}, \A j \in T : T \ {j} \in X
      PROVE  T \in X
  <2> SUFFICES ASSUME NEW j \in T PROVE Sums(c)[T] = c[j] + Sums(c)[T \ {j}]
    OBVIOUS
  <2>1. PICK i \in T : i = Pick(T)
    BY <1>2, Picked
  <2>2. Sums(c)[T] = c[i] + Sums(c)[T \ {i}]
    BY <1>2, <2>1, SumsAre
  <2>3. CASE i = j
    BY <2>2, <2>3
  <2>4. CASE i # j
    <3>1. Sums(c)[T \ {i}] = c[j] + Sums(c)[(T \ {i}) \ {j}]
      BY <1>2, <2>4
    <3>2. Sums(c)[T \ {j}] = c[i] + Sums(c)[(T \ {j}) \ {i}]
      BY <1>2, <2>4
    <3>3. PICK U \in SUBSET Keys : U = (T \ {i}) \ {j} /\ U = (T \ {j}) \ {i}
      OBVIOUS
    <3>4. c[i] \in Nat /\ c[j] \in Nat /\ Sums(c)[U] \in Nat
      BY SumsAre DEF Counts
    <3>5. Sums(c)[T] = c[i] + (c[j] + Sums(c)[U]) /\ Sums(c)[T \ {j}] = c[i] + Sums(c)[U]
      BY <2>2, <3>1, <3>2, <3>3
    <3> QED
      BY <3>4, <3>5
  <2> QED
    BY <2>3, <2>4
<1> HIDE DEF X
<1>3. \A T \in SUBSET Keys : T \in X
  BY <1>1, <1>2, Induction
<1> QED
  BY <1>3 DEF X

LEMMA SumsMonotone ==
  ASSUME NEW c \in Counts, NEW d \in Counts, NEW S \in SUBSET Keys,
         \A k \in S : c[k] <= d[k]
  PROVE  Sums(c)[S] <= Sums(d)[S]
<1> DEFINE X == {T \in SUBSET Keys : (\A k \in T : c[k] <= d[k]) => Sums(c)[T] <= Sums(d)[T]}
<1>1. {} \in X
  BY SumsAre
<1>2. ASSUME NEW T \in SUBSET Keys, T # {}, \A j \in T : T \ {j} \in X
      PROVE  T \in X
  <2> SUFFICES ASSUME \A k \in T : c[k] <= d[k] PROVE Sums(c)[T] <= Sums(d)[T]
    OBVIOUS
  <2>1. PICK i \in T : i = Pick(T)
    BY <1>2, Picked
  <2>2. Sums(c)[T] = c[i] + Sums(c)[T \ {i}] /\ Sums(d)[T] = d[i] + Sums(d)[T \ {i}]
    BY SumsRemove
  <2>3. Sums(c)[T \ {i}] <= Sums(d)[T \ {i}] /\ c[i] <= d[i]
    BY <1>2
  <2>4. /\ c[i] \in Nat /\ d[i] \in Nat
        /\ Sums(c)[T \ {i}] \in Nat /\ Sums(d)[T \ {i}] \in Nat
    BY SumsAre DEF Counts
  <2> QED
    BY <2>2, <2>3, <2>4
<1> HIDE DEF X
<1>3. \A T \in SUBSET Keys : T \in X
  BY <1>1, <1>2, Induction
<1> QED
  BY <1>3 DEF X

LEMMA SumNat == ASSUME NEW c \in Counts PROVE Sum(c) \in Nat
BY SumIsSums, SumsAre

LEMMA SumMonotone ==
  ASSUME NEW c \in Counts, NEW d \in Counts, \A k \in Keys : c[k] <= d[k]
  PROVE  Sum(c) <= Sum(d)
BY SumIsSums, SumsMonotone

LEMMA SumZero == ASSUME NEW c \in Counts, \A k \in Keys : c[k] = 0 PROVE Sum(c) = 0
<1> DEFINE X == {T \in SUBSET Keys : Sums(c)[T] = 0}
<1>1. {} \in X
  BY SumsAre
<1>2. ASSUME NEW T \in SUBSET Keys, T # {}, \A j \in T : T \ {j} \in X
      PROVE  T \in X
  <2>1. PICK i \in T : i = Pick(T)
    BY <1>2, Picked
  <2>2. Sums(c)[T] = c[i] + Sums(c)[T \ {i}] /\ Sums(c)[T \ {i}] = 0 /\ c[i] = 0
    BY <1>2, SumsRemove
  <2> QED
    BY <2>2
<1> HIDE DEF X
<1>3. \A T \in SUBSET Keys : T \in X
  BY <1>1, <1>2, Induction
<1> QED
  BY <1>3, SumIsSums DEF X

LEMMA SumChanged ==
  ASSUME NEW c \in Counts, NEW d \in Counts, NEW k \in Keys,
         \A j \in Keys : j # k => d[j] = c[j]
  PROVE  Sum(d) + c[k] = Sum(c) + d[k]
<1>1. Sum(c) = c[k] + Sums(c)[Keys \ {k}] /\ Sum(d) = d[k] + Sums(d)[Keys \ {k}]
  BY SumIsSums, SumsRemove
<1>2. c[k] \in Nat /\ d[k] \in Nat
  BY DEF Counts
<1>3. \A j \in Keys \ {k} : c[j] <= d[j] /\ d[j] <= c[j]
  BY DEF Counts
<1>4. /\ Sums(c)[Keys \ {k}] \in Nat /\ Sums(d)[Keys \ {k}] \in Nat
      /\ Sums(c)[Keys \ {k}] <= Sums(d)[Keys \ {k}]
      /\ Sums(d)[Keys \ {k}] <= Sums(c)[Keys \ {k}]
  BY <1>3, SumsAre, SumsMonotone
<1> QED
  BY <1>1, <1>2, <1>4

-----------------------------------------------------------------------------
(* Types, and where the thread is.                                         *)
Entries  == [time : Nat, count : Nat]
DayFiles == [each : Counts, total : Nat \cup {NoTotal}]

Types ==
  /\ now \in Nat /\ lTime \in Nat /\ lTime <= now
  /\ m_EachTotalData \in Counts
  /\ m_TimerEachData \in [Keys -> Seq(Entries)] /\ m_TimerTotalData \in Seq(Entries)
  /\ m_nextTime \in Nat /\ nextTime \in Nat
  /\ dayFile \in [DOMAIN dayFile -> DayFiles]
  /\ pc \in {"down", "sleep", "statistic", "timer_day", "day"}
  /\ left \subseteq Keys /\ key \in Keys \cup {NoKey} /\ totalNum \in Nat
  /\ since \in Nat

Control ==
  /\ pc \notin {"down", "sleep"} => lTime = now
  /\ pc \notin {"statistic", "day"} => left = {} /\ key = NoKey /\ totalNum = 0
  /\ pc = "down" => /\ m_TimerTotalData = <<>> /\ \A k \in Keys : m_TimerEachData[k] = <<>>
                    /\ nextTime = 0 /\ since = 0

Base == Types /\ Control

LEMMA ConstantsTyped ==
  /\ DayTicks \in Nat \ {0} /\ m_intervalTime \in Nat \ {0} /\ m_cycleNum \in Nat \ {0}
  /\ NoKey \notin Keys /\ NoLines \in Counts /\ NoTotal \in Int /\ NoTotal \notin Nat
BY StatisticAssumption DEF NoLines, Counts, NoTotal

LEMMA DayTyped == ASSUME NEW t \in Nat PROVE DayOf(t) \in Nat /\ DayOf(t) >= 1
<1>1. PICK T \in Nat \ {0} : T = DayTicks
  BY ConstantsTyped
<1>2. t \div T \in Nat
  OBVIOUS
<1> QED
  BY <1>1, <1>2 DEF DayOf

LEMMA Pushed ==
  ASSUME Types, NEW w \in Seq(Entries), NEW n \in Nat
  PROVE  /\ PushBack(w, n) \in Seq(Entries)
         /\ Len(PushBack(w, n)) = IF Len(w) = m_cycleNum THEN Len(w) ELSE Len(w) + 1
         /\ PushBack(w, n)[Len(PushBack(w, n))] = [time |-> lTime, count |-> n]
         /\ \A i \in 1 .. Len(PushBack(w, n)) - 1 :
              PushBack(w, n)[i] = IF Len(w) = m_cycleNum THEN w[i + 1] ELSE w[i]
<1> DEFINE e == [time |-> lTime, count |-> n]
<1>1. e \in Entries
  BY DEF Types, Entries
<1>2. CASE Len(w) = m_cycleNum
  <2>1. w # <<>>
    BY <1>2, ConstantsTyped
  <2>a. /\ Tail(w) \in Seq(Entries) /\ Len(Tail(w)) = Len(w) - 1
        /\ \A i \in 1 .. Len(Tail(w)) : Tail(w)[i] = w[i + 1]
    BY <2>1
  <2>2. PICK u \in Seq(Entries) : u = Tail(w) /\ Len(u) = Len(w) - 1 /\ \A i \in 1 .. Len(u) : u[i] = w[i + 1]
    BY <2>a, Zenon
  <2>3. PushBack(w, n) = Append(u, e)
    BY <1>2, <2>2 DEF PushBack
  <2> HIDE DEF e
  <2>4. /\ Append(u, e) \in Seq(Entries) /\ Len(Append(u, e)) = Len(u) + 1
        /\ Append(u, e)[Len(u) + 1] = e /\ \A i \in 1 .. Len(u) : Append(u, e)[i] = u[i]
    BY <1>1
  <2> QED
    BY <1>2, <2>2, <2>3, <2>4 DEF e
<1>3. CASE Len(w) # m_cycleNum
  <2>3. PushBack(w, n) = Append(w, e)
    BY <1>3 DEF PushBack
  <2> HIDE DEF e
  <2>4. /\ Append(w, e) \in Seq(Entries) /\ Len(Append(w, e)) = Len(w) + 1
        /\ Append(w, e)[Len(w) + 1] = e /\ \A i \in 1 .. Len(w) : Append(w, e)[i] = w[i]
    BY <1>1
  <2> QED
    BY <1>3, <2>3, <2>4 DEF e
<1> QED
  BY <1>2, <1>3

LEMMA BaseInit == Init => Base
<1> SUFFICES ASSUME Init PROVE Base
  OBVIOUS
<1> USE DEF Init
<1>1. now \in Nat /\ lTime \in Nat /\ lTime <= now /\ m_nextTime \in Nat /\ nextTime \in Nat
  OBVIOUS
<1>2. m_EachTotalData \in Counts
  BY ConstantsTyped
<1>3. <<>> \in Seq(Entries)
  OBVIOUS
<1>4. m_TimerEachData \in [Keys -> Seq(Entries)] /\ m_TimerTotalData \in Seq(Entries)
  BY <1>3
<1>5. dayFile \in [DOMAIN dayFile -> DayFiles]
  OBVIOUS
<1>6. left \subseteq Keys /\ key \in Keys \cup {NoKey} /\ totalNum \in Nat /\ since \in Nat
  OBVIOUS
<1>7. Control
  BY DEF Control
<1>8. pc \in {"down", "sleep", "statistic", "timer_day", "day"}
  OBVIOUS
<1> HIDE DEF Init
<1> QED
  BY <1>1, <1>2, <1>4, <1>5, <1>6, <1>7, <1>8 DEF Base, Types

(* A file that is opened, and one that is written.                         *)
LEMMA FileOpened ==
  ASSUME Types, NEW d, NEW v \in DayFiles
  PROVE  Put(dayFile, d, v) \in [DOMAIN Put(dayFile, d, v) -> DayFiles]
BY DEF Types, Put

LEMMA FileWritten ==
  ASSUME Types, NEW d, NEW v \in Nat
  PROVE  /\ \A k \in Keys : [dayFile EXCEPT ![d].each[k] = v] \in [DOMAIN dayFile -> DayFiles]
         /\ [dayFile EXCEPT ![d].total = v] \in [DOMAIN dayFile -> DayFiles]
<1>1. dayFile \in [DOMAIN dayFile -> DayFiles]
  BY DEF Types
<1>2. CASE d \in DOMAIN dayFile
  <2>1. PICK D : D = DOMAIN dayFile
    OBVIOUS
  <2>2. dayFile \in [D -> DayFiles] /\ d \in D
    BY <1>1, <1>2, <2>1
  <2>3. /\ \A k \in Keys : [dayFile[d] EXCEPT !.each[k] = v] \in DayFiles
        /\ [dayFile[d] EXCEPT !.total = v] \in DayFiles
    BY <2>2 DEF DayFiles, Counts
  <2> QED
    BY <2>1, <2>2, <2>3
<1>3. CASE d \notin DOMAIN dayFile
  BY <1>1, <1>3
<1> QED
  BY <1>2, <1>3

LEMMA NextDue ==
  ASSUME NEW t \in Nat
  PROVE  /\ t + (m_intervalTime - (t % m_intervalTime)) \in Nat
         /\ t + (m_intervalTime - (t % m_intervalTime)) > t
         /\ t + (m_intervalTime - (t % m_intervalTime)) <= t + m_intervalTime
<1>1. PICK T \in Nat \ {0} : T = m_intervalTime
  BY ConstantsTyped
<1>2. t % T \in 0 .. T - 1
  OBVIOUS
<1>3. PICK r \in 0 .. T - 1 : r = t % T
  BY <1>2
<1>4. t + (T - r) \in Nat /\ t + (T - r) > t /\ t + (T - r) <= t + T
  OBVIOUS
<1> QED
  BY <1>1, <1>3, <1>4

LEMMA DayEndTyped ==
  ASSUME Types
  PROVE  /\ Midnight \in Nat /\ Midnight > now /\ Midnight = DayOf(now) * DayTicks
         /\ DayEnd \in Nat /\ DayEnd # 0
<1>1. PICK T \in Nat \ {0}, n \in Nat : T = DayTicks /\ n = now
  BY ConstantsTyped DEF Types
<1>2. n \div T \in Nat /\ n = (n \div T) * T + (n % T) /\ n % T \in 0 .. T - 1
  OBVIOUS
<1>3. PICK q \in Nat, r \in 0 .. T - 1 : q = n \div T /\ n = q * T + r
  BY <1>2
<1>4. q * T \in Nat /\ q * T + T = (q + 1) * T /\ q * T + T > n
  BY <1>3
<1>5. Midnight \in Nat /\ Midnight > now /\ Midnight = DayOf(now) * DayTicks
  BY <1>1, <1>3, <1>4 DEF Midnight, DayOf
<1> QED
  BY <1>5 DEF DayEnd, Types

LEMMA BaseNext == Base /\ [Next]_vars => Base'
<1> SUFFICES ASSUME Base, [Next]_vars PROVE Base'
  OBVIOUS
<1> USE DEF Base
<1>1. CASE Tick
  <2>1. Types'
    BY <1>1 DEF Tick, Types, windows, timers, scan
  <2>2. Control'
    BY <1>1 DEF Tick, Control, windows, timers, scan
  <2> QED
    BY <2>1, <2>2
<1>2. ASSUME NEW k \in Keys, write_data(k) PROVE Base'
  <2>1. m_EachTotalData' \in Counts
    BY <1>2 DEF write_data, Types, Counts
  <2>2. Types'
    BY <1>2, <2>1 DEF write_data, Types, windows, timers, history
  <2>3. Control'
    BY <1>2 DEF write_data, Control, windows, timers, history
  <2> QED
    BY <2>2, <2>3
<1>3. CASE init_server
  <2>1. m_nextTime' \in Nat
    BY <1>3, NextDue DEF init_server, Types
  <2>2. Types'
    BY <1>3, <2>1 DEF init_server, Types, windows, scan, history
  <2>3. Control'
    BY <1>3 DEF init_server, Control, windows, scan, history
  <2> QED
    BY <2>2, <2>3
<1>4. CASE Look
  <2>1. m_nextTime' \in Nat /\ left' \subseteq Keys
    BY <1>4, ConstantsTyped DEF Look, Types, Counted
  <2>2. since' \in Nat
    BY <1>4, DayTyped DEF Look, Types
  <2>3. Types'
    BY <1>4, <2>1, <2>2 DEF Look, Types, windows
  <2>4. Control'
    BY <1>4 DEF Look, Control, windows
  <2> QED
    BY <2>3, <2>4
<1>5. CASE timer_day
  <2>1. nextTime' \in Nat
    BY <1>5, DayEndTyped, ConstantsTyped DEF timer_day
  <2>2. dayFile' \in [DOMAIN dayFile' -> DayFiles]
    <3>1. [each |-> NoLines, total |-> NoTotal] \in DayFiles
      BY ConstantsTyped DEF DayFiles
    <3>2. Put(dayFile, FileDate, [each |-> NoLines, total |-> NoTotal])
          \in [DOMAIN Put(dayFile, FileDate, [each |-> NoLines, total |-> NoTotal]) -> DayFiles]
      BY <3>1, FileOpened
    <3>3. dayFile' = dayFile \/ dayFile' = Put(dayFile, FileDate, [each |-> NoLines, total |-> NoTotal])
      BY <1>5 DEF timer_day
    <3>4. CASE dayFile' = dayFile
      BY <3>4 DEF Types
    <3>5. CASE dayFile' = Put(dayFile, FileDate, [each |-> NoLines, total |-> NoTotal])
      BY <3>2, <3>5, Zenon
    <3> QED
      BY <3>3, <3>4, <3>5
  <2>3. left' \subseteq Keys
    BY <1>5 DEF timer_day, Types, Counted
  <2>4. Types'
    BY <1>5, <2>1, <2>2, <2>3 DEF timer_day, Types, windows
  <2>5. Control'
    BY <1>5 DEF timer_day, Control, windows
  <2> QED
    BY <2>4, <2>5
<1>6. CASE Kill
  <2>1. <<>> \in Seq(Entries)
    OBVIOUS
  <2>2. Types'
    BY <1>6, <2>1 DEF Kill, Types
  <2>3. Control'
    BY <1>6 DEF Kill, Control
  <2> QED
    BY <2>2, <2>3
<1>7. CASE VisitDevice
  <2>1. PICK k \in left : /\ m_TimerEachData' = [m_TimerEachData EXCEPT ![k] = PushBack(@, m_EachTotalData[k])]
                           /\ left' = left \ {k}
                           /\ key' = k
    BY <1>7 DEF VisitDevice
  <2>2. k \in Keys /\ m_TimerEachData[k] \in Seq(Entries) /\ m_EachTotalData[k] \in Nat
    BY DEF Types, Counts
  <2>3. PushBack(m_TimerEachData[k], m_EachTotalData[k]) \in Seq(Entries)
    BY <2>2, Pushed
  <2>4. m_TimerEachData' \in [Keys -> Seq(Entries)]
    BY <2>1, <2>3 DEF Types
  <2>5. Types'
    BY <1>7, <2>1, <2>2, <2>4 DEF VisitDevice, Types, timers, history
  <2>6. Control'
    BY <1>7 DEF VisitDevice, Control, timers, history
  <2> QED
    BY <2>5, <2>6
<1>8. CASE AddToTotal
  <2>1. totalNum' \in Nat
    BY <1>8 DEF AddToTotal, Types, Counts
  <2>2. Types'
    BY <1>8, <2>1 DEF AddToTotal, Types, windows, timers, history
  <2>3. Control'
    BY <1>8 DEF AddToTotal, Control, windows, timers, history
  <2> QED
    BY <2>2, <2>3
<1>9. CASE EndStatistic
  <2>1. PushBack(m_TimerTotalData, totalNum) \in Seq(Entries)
    BY Pushed DEF Types
  <2>2. m_TimerTotalData' \in Seq(Entries)
    BY <1>9, <2>1, Zenon DEF EndStatistic
  <2>3. Types'
    BY <1>9, <2>2 DEF EndStatistic, Types, timers, history
  <2>4. Control'
    BY <1>9 DEF EndStatistic, Control, timers, history
  <2> QED
    BY <2>3, <2>4
<1>10. CASE WriteLine
  <2>1. PICK k \in left : /\ dayFile' = [dayFile EXCEPT ![FileDate].each[k] = m_EachTotalData[k]]
                           /\ left' = left \ {k}
                           /\ key' = k
    BY <1>10 DEF WriteLine
  <2>2. k \in Keys /\ m_EachTotalData[k] \in Nat
    BY DEF Types, Counts
  <2>3. dayFile' \in [DOMAIN dayFile -> DayFiles]
    BY <2>1, <2>2, FileWritten
  <2>4. dayFile' \in [DOMAIN dayFile' -> DayFiles]
    BY <2>3
  <2>5. Types'
    BY <1>10, <2>1, <2>2, <2>4 DEF WriteLine, Types, windows, timers, history
  <2>6. Control'
    BY <1>10 DEF WriteLine, Control, windows, timers, history
  <2> QED
    BY <2>5, <2>6
<1>11. CASE WriteTotal
  <2>1. dayFile' \in [DOMAIN dayFile -> DayFiles]
    <3>1. dayFile' = [dayFile EXCEPT ![FileDate].total = totalNum] /\ totalNum \in Nat
      BY <1>11 DEF WriteTotal, Types
    <3> QED
      BY <3>1, FileWritten
  <2>2. dayFile' \in [DOMAIN dayFile' -> DayFiles]
    BY <2>1
  <2>3. Types'
    BY <1>11, <2>2 DEF WriteTotal, Types, windows, timers, history
  <2>4. Control'
    BY <1>11 DEF WriteTotal, Control, windows, timers, history
  <2> QED
    BY <2>3, <2>4
<1>12. ASSUME NEW r \in Ranges, QueryDays(r) PROVE Base'
  <2>1. Types'
    BY <1>12 DEF QueryDays, Types, windows, timers, scan, history
  <2>2. Control'
    BY <1>12 DEF QueryDays, Control, windows, timers, scan, history
  <2> QED
    BY <2>1, <2>2
<1>13. CASE UNCHANGED vars
  <2>1. Types'
    BY <1>13 DEF vars, Types, windows, timers, scan, history
  <2>2. Control'
    BY <1>13 DEF vars, Control, windows, timers, scan, history
  <2> QED
    BY <2>1, <2>2
<1> HIDE DEF Base
<1> QED
  BY <1>1, <1>2, <1>3, <1>4, <1>5, <1>6, <1>7, <1>8, <1>9, <1>10, <1>11, <1>12, <1>13
  DEF Next

-----------------------------------------------------------------------------
(* The intervals.  Between the look that finds an interval over and the    *)
(* entry for it, the due time is one interval ahead of the window.         *)
Aged(w, due, n) == \A i \in 1 .. Len(w) : w[i].time + (Len(w) - i + n) * m_intervalTime >= due

IntervalInv ==
  /\ pc = "statistic" => /\ lTime + m_intervalTime >= m_nextTime
                         /\ Aged(m_TimerTotalData, m_nextTime, 2)
  /\ pc # "statistic" => Aged(m_TimerTotalData, m_nextTime, 1)

LEMMA AgedLater ==
  ASSUME NEW w \in Seq(Entries), NEW due \in Nat, Aged(w, due, 1)
  PROVE  Aged(w, due + m_intervalTime, 2)
<1> SUFFICES ASSUME NEW i \in 1 .. Len(w)
             PROVE  w[i].time + (Len(w) - i + 2) * m_intervalTime >= due + m_intervalTime
  BY DEF Aged
<1>a. m_intervalTime \in Nat \ {0} /\ Len(w) - i + 1 \in Nat
  BY ConstantsTyped
<1>1. PICK T \in Nat \ {0}, a \in Nat : T = m_intervalTime /\ a = Len(w) - i + 1
  BY <1>a, Zenon
<1>2. w[i].time \in Nat /\ w[i].time + a * T >= due
  <2>1. w[i].time + (Len(w) - i + 1) * m_intervalTime >= due
    BY DEF Aged
  <2>2. w[i].time + a * T >= due
    BY <1>1, <2>1, Zenon
  <2>3. w[i] \in Entries
    OBVIOUS
  <2> QED
    BY <2>2, <2>3 DEF Entries
<1>3. PICK p \in Nat : p = a * T /\ (a + 1) * T = p + T
  <2>1. a * T \in Nat /\ (a + 1) * T = a * T + T
    BY <1>1
  <2> QED
    BY <2>1
<1>4. Len(w) - i + 2 = a + 1
  BY <1>1
<1>5. w[i].time + (a + 1) * T >= due + T
  <2>1. w[i].time + p >= due
    BY <1>2, <1>3, Zenon
  <2>2. w[i].time + (p + T) >= due + T
    BY <1>1, <1>2, <2>1
  <2> QED
    BY <1>3, <2>2, Zenon
<1> QED
  BY <1>1, <1>4, <1>5

LEMMA AgedPushed ==
  ASSUME Types, NEW w \in Seq(Entries), NEW n \in Nat, NEW due \in Nat,
         Aged(w, due, 2), lTime + m_intervalTime >= due
  PROVE  Aged(PushBack(w, n), due, 1)
<1>1. PICK v \in Seq(Entries) : v = PushBack(w, n)
  BY Pushed
<1>2. /\ Len(v) = IF Len(w) = m_cycleNum THEN Len(w) ELSE Len(w) + 1
      /\ v[Len(v)] = [time |-> lTime, count |-> n]
      /\ \A i \in 1 .. Len(v) - 1 : v[i] = IF Len(w) = m_cycleNum THEN w[i + 1] ELSE w[i]
  BY <1>1, Pushed
<1>3. Len(v) \in Nat /\ Len(w) \in Nat
  OBVIOUS
<1> SUFFICES ASSUME NEW i \in 1 .. Len(v)
             PROVE  v[i].time + (Len(v) - i + 1) * m_intervalTime >= due
  BY <1>1 DEF Aged
<1>4. CASE i = Len(v)
  <2>1. v[i].time = lTime
    BY <1>2, <1>4
  <2>2. (Len(v) - i + 1) * m_intervalTime = m_intervalTime
    BY <1>3, <1>4, ConstantsTyped
  <2> QED
    BY <2>1, <2>2
<1>5. CASE i # Len(v)
  <2>1. i \in 1 .. Len(v) - 1
    BY <1>3, <1>5
  <2>2. PICK j \in 1 .. Len(w) : v[i] = w[j] /\ Len(v) - i + 1 = Len(w) - j + 2
    <3>1. CASE Len(w) = m_cycleNum
      BY <1>2, <1>3, <2>1, <3>1
    <3>2. CASE Len(w) # m_cycleNum
      BY <1>2, <1>3, <2>1, <3>2
    <3> QED
      BY <3>1, <3>2
  <2>3. w[j].time + (Len(w) - j + 2) * m_intervalTime >= due
    BY DEF Aged
  <2> QED
    BY <2>2, <2>3, Zenon
<1> QED
  BY <1>4, <1>5

LEMMA IntervalNext == Base /\ IntervalInv /\ [Next]_vars => IntervalInv'
<1> SUFFICES ASSUME Base, IntervalInv, [Next]_vars PROVE IntervalInv'
  OBVIOUS
<1>1. CASE init_server
  BY <1>1 DEF init_server, windows, IntervalInv, Aged, Base, Control
<1>2. CASE Look
  <2>1. CASE ~Due
    BY <1>2, <2>1 DEF Look, windows, IntervalInv, Aged
  <2>2. CASE Due
    <3>1. pc' = "statistic" /\ m_nextTime' = m_nextTime + m_intervalTime /\ lTime' = now
          /\ m_TimerTotalData' = m_TimerTotalData /\ pc = "sleep"
      BY <1>2, <2>2 DEF Look, windows
    <3>2. Aged(m_TimerTotalData, m_nextTime + m_intervalTime, 2)
      BY <3>1, AgedLater DEF IntervalInv, Base, Types
    <3>3. Aged(m_TimerTotalData', m_nextTime', 2)
      BY <3>1, <3>2, Zenon
    <3>4. lTime' + m_intervalTime >= m_nextTime'
      BY <2>2, <3>1, ConstantsTyped DEF Due, Base, Types
    <3> QED
      BY <3>1, <3>3, <3>4 DEF IntervalInv, Aged
  <2> QED
    BY <2>1, <2>2
<1>3. CASE EndStatistic
  <2>1. /\ pc = "statistic" /\ pc' = "timer_day" /\ m_nextTime' = m_nextTime
        /\ m_TimerTotalData' = PushBack(m_TimerTotalData, totalNum)
    BY <1>3 DEF EndStatistic, timers
  <2>2. Aged(PushBack(m_TimerTotalData, totalNum), m_nextTime, 1)
    BY <2>1, AgedPushed DEF IntervalInv, Base, Types
  <2>3. Aged(m_TimerTotalData', m_nextTime', 1)
    BY <2>1, <2>2, Zenon
  <2> QED
    BY <2>1, <2>3 DEF IntervalInv, Aged
<1>4. CASE Kill
  BY <1>4 DEF Kill, IntervalInv, Aged
<1>5. CASE /\ UNCHANGED <<m_TimerTotalData, m_nextTime, lTime>>
           /\ pc' = "statistic" <=> pc = "statistic"
  BY <1>5 DEF IntervalInv, Aged
<1>6. Tick => <1>5!1
  BY DEF Tick, windows, timers
<1>7. (\E k \in Keys : write_data(k)) => <1>5!1
  BY DEF write_data, windows, timers
<1>8. timer_day => <1>5!1
  BY DEF timer_day, windows
<1>9. VisitDevice \/ AddToTotal \/ WriteLine \/ WriteTotal => <1>5!1
  BY DEF VisitDevice, AddToTotal, WriteLine, WriteTotal, windows, timers
<1>10. (\E r \in Ranges : QueryDays(r)) => <1>5!1
  BY DEF QueryDays, windows, timers
<1>11. UNCHANGED vars => <1>5!1
  BY DEF vars, windows, timers
<1> QED
  BY <1>1, <1>2, <1>3, <1>4, <1>5, <1>6, <1>7, <1>8, <1>9, <1>10, <1>11 DEF Next

(* Each entry of the window of the sums stands for an interval of its own, *)
(* none counted early or twice: timer adds one interval to the due time    *)
(* for each, also when it comes late.                                      *)
THEOREM IntervalsApart == Spec => []NoEarlyInterval
<1>1. Init => Base /\ IntervalInv
  <2>1. Init => IntervalInv
    BY DEF Init, IntervalInv, Aged
  <2> QED
    BY <2>1, BaseInit
<1>2. Base /\ IntervalInv /\ [Next]_vars => (Base /\ IntervalInv)'
  BY BaseNext, IntervalNext
<1>3. Base /\ IntervalInv => NoEarlyInterval
  <2> SUFFICES ASSUME Base, IntervalInv, pc # "statistic", NEW i \in DOMAIN m_TimerTotalData
               PROVE  m_TimerTotalData[i].time
                        >= m_nextTime - (Len(m_TimerTotalData) - i + 1) * m_intervalTime
    BY DEF NoEarlyInterval
  <2>1. m_TimerTotalData \in Seq(Entries) /\ m_nextTime \in Nat
    BY DEF Base, Types
  <2>b. i \in 1 .. Len(m_TimerTotalData) /\ m_TimerTotalData[i] \in Entries
    BY <2>1
  <2>2. i \in 1 .. Len(m_TimerTotalData) /\ m_TimerTotalData[i].time \in Nat
    BY <2>b DEF Entries
  <2>a. (Len(m_TimerTotalData) - i + 1) * m_intervalTime \in Int
    <3>1. Len(m_TimerTotalData) - i + 1 \in Int /\ m_intervalTime \in Int
      BY <2>1, <2>2, ConstantsTyped
    <3>2. \A a, b \in Int : a * b \in Int
      OBVIOUS
    <3> QED
      BY <3>1, <3>2, Zenon
  <2>3. PICK x \in Int : x = (Len(m_TimerTotalData) - i + 1) * m_intervalTime
    BY <2>a, Zenon
  <2>4. m_TimerTotalData[i].time + x >= m_nextTime
    BY <2>2, <2>3 DEF IntervalInv, Aged
  <2>5. m_TimerTotalData[i].time >= m_nextTime - x
    BY <2>1, <2>2, <2>4
  <2> QED
    BY <2>3, <2>5
<1> QED
  BY <1>1, <1>2, <1>3, PTL DEF Spec

-----------------------------------------------------------------------------
(* The days.                                                               *)
LEMMA DayBounds ==
  ASSUME NEW t \in Nat, NEW n \in Nat
  PROVE  n * DayTicks \in Nat /\ (n * DayTicks <= t <=> n < DayOf(t))
<1>1. PICK T \in Nat \ {0} : T = DayTicks
  BY ConstantsTyped
<1>2. t \div T \in Nat /\ t = (t \div T) * T + (t % T) /\ t % T \in 0 .. T - 1
  OBVIOUS
<1>3. PICK q \in Nat, r \in 0 .. T - 1 : q = t \div T /\ t = q * T + r
  BY <1>2
<1>4. n * T \in Nat /\ q * T \in Nat
  OBVIOUS
<1>5. n <= q => n * T <= q * T
  OBVIOUS
<1>6. q < n => q * T + T <= n * T
  OBVIOUS
<1>7. n * T <= t <=> n < q + 1
  BY <1>3, <1>4, <1>5, <1>6
<1> QED
  BY <1>1, <1>3, <1>4, <1>7 DEF DayOf

LEMMA DaysInOrder == ASSUME NEW t \in Nat, NEW u \in Nat, t <= u PROVE DayOf(t) <= DayOf(u)
<1>1. PICK n \in Nat : n = DayOf(t) - 1 /\ DayOf(t) \in Nat /\ DayOf(u) \in Nat
  BY DayTyped
<1>2. n * DayTicks \in Nat /\ n * DayTicks <= t
  BY <1>1, DayBounds
<1>3. n * DayTicks <= u
  BY <1>2
<1>4. n < DayOf(u)
  BY <1>3, DayBounds
<1> QED
  BY <1>1, <1>4

(* Where the static of timer_day stands: at the end of a day from that of  *)
(* the first look to the present one, and at the end of the present one    *)
(* only after the file was written.                                        *)
Filed == Complete(FileDate) \/ FileDate \in unfiled

MidnightInv ==
  /\ since <= DayOf(lTime)
  /\ since = 0 => pc \in {"down", "sleep"} /\ nextTime = 0
  /\ nextTime = 0 /\ since # 0 => pc \in {"statistic", "timer_day"} /\ since = DayOf(lTime)
  /\ nextTime # 0 => \E n \in since .. DayOf(lTime) :
                       /\ nextTime = n * DayTicks
                       /\ n = DayOf(lTime) /\ n > since /\ pc # "day" => Filed
  /\ pc = "sleep" /\ since # 0 => nextTime > lTime \/ Filed
  /\ pc = "day" => FileDate \in DOMAIN dayFile

LEMMA MidnightNext == Base /\ MidnightInv /\ [Next]_vars => MidnightInv'
<1> SUFFICES ASSUME Base, MidnightInv, [Next]_vars PROVE MidnightInv'
  OBVIOUS
<1>0. /\ now \in Nat /\ lTime \in Nat /\ lTime <= now /\ nextTime \in Nat /\ since \in Nat
      /\ DayOf(lTime) \in Nat /\ DayOf(now) \in Nat /\ DayOf(lTime) >= 1 /\ DayOf(now) >= 1
      /\ DayOf(lTime) <= DayOf(now)
  BY DayTyped, DaysInOrder DEF Base, Types
<1>1. CASE init_server
  <2>1. /\ pc = "down" /\ pc' = "sleep" /\ lTime' = now /\ nextTime' = nextTime /\ since' = since
        /\ nextTime = 0 /\ since = 0
    BY <1>1 DEF init_server, history, Base, Control
  <2>2. DayOf(lTime') = DayOf(now)
    BY <2>1
  <2> QED
    BY <1>0, <2>1, <2>2 DEF MidnightInv
<1>2. CASE Look
  <2>1. /\ pc = "sleep" /\ pc' \in {"timer_day", "statistic"} /\ lTime' = now
        /\ since' = IF since = 0 THEN DayOf(now) ELSE since
        /\ UNCHANGED <<nextTime, dayFile, unfiled>>
    BY <1>2 DEF Look
  <2>2. DayOf(lTime') = DayOf(now)
    BY <2>1
  <2>3. CASE since = 0
    BY <1>0, <2>1, <2>2, <2>3 DEF MidnightInv
  <2>4. CASE since # 0
    <3>1. nextTime # 0
      BY <2>1, <2>4 DEF MidnightInv
    <3>2. PICK n \in since .. DayOf(lTime) :
                       /\ nextTime = n * DayTicks
                       /\ n = DayOf(lTime) /\ n > since /\ pc # "day" => Filed
      BY <3>1 DEF MidnightInv
    <3>3. n \in since .. DayOf(now)
      BY <1>0, <3>2
    <3>4. n = DayOf(now) /\ n > since => Filed'
      <4> SUFFICES ASSUME n = DayOf(now), n > since PROVE Filed'
        OBVIOUS
      <4>1. n = DayOf(lTime) /\ DayOf(now) = DayOf(lTime)
        BY <1>0, <3>2
      <4>2. Filed
        BY <2>1, <3>2, <4>1
      <4>3. FileDate' = FileDate
        BY <2>2, <4>1 DEF FileDate
      <4> QED
        BY <2>1, <4>2, <4>3 DEF Filed, Complete
    <3> QED
      BY <1>0, <2>1, <2>2, <2>4, <3>1, <3>2, <3>3, <3>4 DEF MidnightInv
  <2> QED
    BY <2>3, <2>4
<1>3. CASE timer_day
  <2>1. pc = "timer_day" /\ lTime = now /\ UNCHANGED <<lTime, since>> /\ since # 0
    BY <1>3 DEF timer_day, Base, Control, MidnightInv
  <2>2. PICK n \in since .. DayOf(lTime) :
                       /\ DayEnd = n * DayTicks
                       /\ n = DayOf(lTime) /\ n > since => Filed
    <3>1. CASE nextTime = 0
      <4>1. DayEnd = DayOf(lTime) * DayTicks /\ since = DayOf(lTime)
        BY <2>1, <3>1, DayEndTyped DEF DayEnd, Base, MidnightInv
      <4>2. DayOf(lTime) \in since .. DayOf(lTime) /\ ~(DayOf(lTime) > since)
        BY <1>0, <4>1
      <4> QED
        BY <4>1, <4>2
    <3>2. CASE nextTime # 0
      BY <2>1, <3>2 DEF DayEnd, MidnightInv
    <3> QED
      BY <3>1, <3>2
  <2>3. n \in Nat /\ DayOf(lTime') = DayOf(lTime) /\ FileDate' = FileDate
    BY <1>0, <2>1, <2>2 DEF FileDate
  <2>4. DayEnd \in Nat /\ DayEnd # 0
    BY DayEndTyped DEF Base
  <2>5. CASE DayEnd > lTime
    <3>1. /\ pc' = "sleep" /\ nextTime' = DayEnd /\ UNCHANGED <<dayFile, unfiled>>
      BY <1>0, <1>3, <2>4, <2>5 DEF timer_day
    <3>2. Filed => Filed'
      BY <2>3, <3>1 DEF Filed, Complete
    <3> QED
      BY <1>0, <2>1, <2>2, <2>3, <2>4, <2>5, <3>1, <3>2 DEF MidnightInv
  <2>6. CASE DayEnd <= lTime
    <3>1. nextTime' = DayEnd + DayTicks
      BY <1>0, <1>3, <2>4, <2>6 DEF timer_day
    <3>2. n < DayOf(lTime)
      BY <1>0, <2>2, <2>3, <2>6, DayBounds
    <3>3. n + 1 \in since .. DayOf(lTime) /\ nextTime' = (n + 1) * DayTicks /\ nextTime' # 0
      <4>1. PICK T \in Nat \ {0} : T = DayTicks
        BY ConstantsTyped
      <4>2. (n + 1) * T = n * T + T
        BY <2>3
      <4> QED
        BY <1>0, <2>2, <2>3, <2>4, <3>1, <3>2, <4>1, <4>2
    <3>4. CASE pc' = "day"
      <4>1. FileDate' \in DOMAIN dayFile'
        BY <1>3, <2>3, <3>4 DEF timer_day, Put
      <4> QED
        BY <1>0, <2>1, <2>2, <2>3, <3>3, <3>4, <4>1 DEF MidnightInv
    <3>5. CASE pc' # "day"
      <4>1. pc' = "sleep" /\ Filed'
        BY <1>0, <1>3, <2>3, <2>4, <2>6, <3>5 DEF timer_day, Filed
      <4> QED
        BY <1>0, <2>1, <2>2, <2>3, <3>3, <4>1 DEF MidnightInv
    <3> QED
      BY <3>4, <3>5
  <2> QED
    BY <1>0, <2>4, <2>5, <2>6
<1>4. CASE WriteTotal
  <2>1. /\ pc = "day" /\ pc' = "sleep" /\ UNCHANGED <<lTime, since, nextTime, unfiled>>
        /\ dayFile' = [dayFile EXCEPT ![FileDate].total = totalNum]
    BY <1>4 DEF WriteTotal, timers, history
  <2>2. DayOf(lTime') = DayOf(lTime) /\ FileDate' = FileDate /\ FileDate \in DOMAIN dayFile
    BY <2>1 DEF FileDate, MidnightInv
  <2>3. Complete(FileDate)'
    <3>1. totalNum # NoTotal
      BY ConstantsTyped DEF Base, Types
    <3>2. dayFile'[FileDate].total = totalNum /\ FileDate \in DOMAIN dayFile'
      BY <2>1, <2>2 DEF Base, Types, DayFiles
    <3> QED
      BY <2>2, <3>1, <3>2 DEF Complete
  <2>4. nextTime # 0 /\ since # 0
    BY <2>1 DEF MidnightInv
  <2> QED
    BY <1>0, <2>1, <2>2, <2>3, <2>4 DEF MidnightInv, Filed
<1>5. CASE WriteLine
  <2>1. /\ pc = "day" /\ pc' = "day" /\ UNCHANGED <<lTime, since, nextTime, unfiled>>
        /\ DOMAIN dayFile' = DOMAIN dayFile
    BY <1>5 DEF WriteLine, timers, history
  <2>2. DayOf(lTime') = DayOf(lTime) /\ FileDate' = FileDate
    BY <2>1 DEF FileDate
  <2> QED
    BY <1>0, <2>1, <2>2 DEF MidnightInv
<1>6. CASE Kill
  <2>1. pc' = "down" /\ since' = 0 /\ nextTime' = 0 /\ lTime' = lTime
    BY <1>6 DEF Kill
  <2>2. DayOf(lTime') = DayOf(lTime)
    BY <2>1
  <2> QED
    BY <1>0, <2>1, <2>2 DEF MidnightInv
<1>7. CASE /\ UNCHANGED <<lTime, since, nextTime, unfiled, dayFile>>
           /\ \/ pc' = pc
              \/ pc = "statistic" /\ pc' = "timer_day"
  <2>1. DayOf(lTime') = DayOf(lTime) /\ FileDate' = FileDate
    BY <1>7 DEF FileDate
  <2>2. Filed' = Filed
    BY <1>7, <2>1 DEF Filed, Complete
  <2> QED
    BY <1>0, <1>7, <2>1, <2>2 DEF MidnightInv
<1>8. Tick => <1>7!1
  BY DEF Tick, timers
<1>9. (\E k \in Keys : write_data(k)) => <1>7!1
  BY DEF write_data, timers, history
<1>10. VisitDevice \/ AddToTotal \/ EndStatistic => <1>7!1
  BY DEF VisitDevice, AddToTotal, EndStatistic, timers, history
<1>11. (\E r \in Ranges : QueryDays(r)) => <1>7!1
  BY DEF QueryDays, timers, history
<1>12. UNCHANGED vars => <1>7!1
  BY DEF vars, timers, history
<1> QED
  BY <1>1, <1>2, <1>3, <1>4, <1>5, <1>6, <1>7, <1>8, <1>9, <1>10, <1>11, <1>12 DEF Next

(* Once the thread has looked on an earlier day, its first look of a day   *)
(* leaves that of the day before in its file, however late the looks came: *)
(* timer_day catches up, and never runs ahead of the clock.                *)
THEOREM DaysFiled == Spec => []MidnightFiled
<1>1. Init => Base /\ MidnightInv
  <2>1. Init => MidnightInv
    <3> SUFFICES ASSUME Init PROVE MidnightInv
      OBVIOUS
    <3>1. DayOf(lTime) \in Nat /\ pc = "down" /\ nextTime = 0 /\ since = 0
      BY DayTyped DEF Init
    <3> QED
      BY <3>1 DEF MidnightInv
  <2> QED
    BY <2>1, BaseInit
<1>2. Base /\ MidnightInv /\ [Next]_vars => (Base /\ MidnightInv)'
  BY BaseNext, MidnightNext
<1>3. Base /\ MidnightInv => MidnightFiled
  <2> SUFFICES ASSUME Base, MidnightInv, pc = "sleep", since # 0, since < DayOf(lTime)
               PROVE  Filed
    BY DEF MidnightFiled, Filed
  <2>1. /\ lTime \in Nat /\ nextTime \in Nat /\ since \in Nat /\ DayOf(lTime) \in Nat
    BY DayTyped DEF Base, Types
  <2>2. CASE nextTime > lTime
    <3>1. PICK n \in since .. DayOf(lTime) :
             /\ nextTime = n * DayTicks
             /\ n = DayOf(lTime) /\ n > since /\ pc # "day" => Filed
      BY <2>1, <2>2 DEF MidnightInv
    <3>2. n \in Nat /\ ~(n < DayOf(lTime))
      BY <2>1, <2>2, <3>1, DayBounds
    <3> QED
      BY <2>1, <3>1, <3>2
  <2> QED
    BY <2>2 DEF MidnightInv
<1> QED
  BY <1>1, <1>2, <1>3, PTL DEF Spec

-----------------------------------------------------------------------------
(* The sums while an iteration runs.  What the writers have counted so far *)
(* of the devices it has still to add makes up for what it has not added.  *)
ToAdd == [k \in Keys |-> IF k \in left \cup {key} THEN m_EachTotalData[k] ELSE 0]

AddInv ==
  /\ left \subseteq Counted /\ key \in (Counted \ left) \cup {NoKey}
  /\ totalNum + Sum(ToAdd) <= Total

LEMMA SumsPrimed == Total' = Sum(m_EachTotalData') /\ (Sum(ToAdd))' = Sum(ToAdd')
BY DEF Total, Sum, MapThenSumSet, MapThenFoldSet

LEMMA Counting ==
  ASSUME Base
  PROVE  /\ m_EachTotalData \in Counts /\ ToAdd \in Counts
         /\ Total \in Nat /\ Sum(ToAdd) \in Nat
<1>1. m_EachTotalData \in Counts /\ ToAdd \in Counts
  BY DEF Base, Types, Counts, ToAdd
<1> QED
  BY <1>1, SumNat DEF Total

LEMMA WriteCounts ==
  ASSUME Base, NEW k \in Keys, write_data(k)
  PROVE  /\ Base' /\ m_EachTotalData' \in Counts /\ ToAdd' \in Counts
         /\ \A j \in Keys : m_EachTotalData[j] <= m_EachTotalData'[j]
         /\ m_EachTotalData'[k] = m_EachTotalData[k] + 1
         /\ Total' = Total + 1
         /\ UNCHANGED <<pc, key, totalNum>>
         /\ left' = left \/ (k \notin Counted /\ left' = left \cup {k})
         /\ Sum(ToAdd) <= (Sum(ToAdd))' /\ (Sum(ToAdd))' <= Sum(ToAdd) + 1
<1>1. Base'
  BY BaseNext DEF Next
<1>2. /\ m_EachTotalData \in Counts /\ ToAdd \in Counts
      /\ m_EachTotalData' \in Counts /\ ToAdd' \in Counts
      /\ Sum(ToAdd) \in Nat /\ Total \in Nat
  <2>1. ToAdd' \in Counts
    BY <1>1 DEF Base, Types, Counts, ToAdd
  <2> QED
    BY <1>1, <2>1, Counting DEF Base, Types
<1>3. /\ m_EachTotalData'[k] = m_EachTotalData[k] + 1
      /\ \A j \in Keys : j # k => m_EachTotalData'[j] = m_EachTotalData[j]
  BY <1>2 DEF write_data, Counts
<1>4. \A j \in Keys : m_EachTotalData[j] \in Nat
  BY <1>2 DEF Counts
<1>5. /\ UNCHANGED <<pc, key, totalNum>>
      /\ left' = left \/ (k \notin Counted /\ left' = left \cup {k})
  BY DEF write_data, windows, timers, history
<1>6. Total' = Total + 1
  <2>1. PICK c \in Counts, d \in Counts : c = m_EachTotalData /\ d = m_EachTotalData'
    BY <1>2
  <2>2. Sum(d) + c[k] = Sum(c) + d[k]
    BY <1>3, <2>1, SumChanged
  <2>3. Sum(c) = Total /\ Sum(d) = Total' /\ d[k] = c[k] + 1 /\ c[k] \in Nat
    BY <1>3, <1>4, <2>1, SumsPrimed DEF Total
  <2>4. Sum(d) \in Nat
    BY SumNat
  <2> QED
    BY <1>2, <2>2, <2>3, <2>4
<1>7. \A j \in Keys : j # k => ToAdd'[j] = ToAdd[j]
  BY <1>3, <1>5 DEF ToAdd
<1>8. ToAdd'[k] = ToAdd[k] \/ ToAdd'[k] = ToAdd[k] + 1
  <2>1. CASE left' = left
    BY <1>3, <1>5, <2>1 DEF ToAdd
  <2>2. CASE k \notin Counted /\ left' = left \cup {k}
    <3>1. m_EachTotalData[k] = 0
      BY <1>4, <2>2 DEF Counted
    <3>2. ToAdd[k] = 0
      BY <3>1 DEF ToAdd
    <3>3. ToAdd'[k] = 1
      BY <1>3, <2>2, <3>1 DEF ToAdd
    <3> QED
      BY <3>2, <3>3
  <2> QED
    BY <1>5, <2>1, <2>2
<1>9. Sum(ToAdd) <= Sum(ToAdd') /\ Sum(ToAdd') <= Sum(ToAdd) + 1
  <2>1. PICK c \in Counts, d \in Counts : c = ToAdd /\ d = ToAdd'
    BY <1>2
  <2>2. Sum(d) + c[k] = Sum(c) + d[k]
    BY <1>7, <2>1, SumChanged
  <2>3. c[k] \in Nat /\ d[k] \in Nat /\ Sum(d) \in Nat /\ Sum(c) \in Nat
    BY SumNat DEF Counts
  <2>4. d[k] = c[k] \/ d[k] = c[k] + 1
    BY <1>8, <2>1
  <2>5. Sum(c) <= Sum(d) /\ Sum(d) <= Sum(c) + 1
    BY <2>2, <2>3, <2>4
  <2>6. Sum(c) = Sum(ToAdd) /\ Sum(d) = Sum(ToAdd')
    BY <2>1
  <2> QED
    BY <2>5, <2>6
<1>10. Sum(ToAdd') = (Sum(ToAdd))'
  BY SumsPrimed
<1> QED
  BY <1>1, <1>2, <1>3, <1>4, <1>5, <1>6, <1>9, <1>10

(* A look, or a new day, begins with every device counted.                 *)
LEMMA StartCounts ==
  ASSUME Base, Base', left' = Counted, key' = NoKey, UNCHANGED m_EachTotalData
  PROVE  (Sum(ToAdd))' = Total /\ Total' = Total /\ left' \subseteq Counted'
<1>1. m_EachTotalData \in Counts
  BY DEF Base, Types
<1>2. \A k \in Keys : (ToAdd')[k] = m_EachTotalData[k]
  BY <1>1 DEF ToAdd, Counted, Counts
<1>3. ToAdd' = m_EachTotalData
  BY <1>1, <1>2 DEF ToAdd, Counts
<1>4. (Sum(ToAdd))' = Sum(m_EachTotalData)
  BY <1>3, SumsPrimed
<1>5. Total' = Total
  BY SumsPrimed DEF Total
<1> QED
  BY <1>4, <1>5 DEF Total, Counted

LEMMA VisitCounts ==
  ASSUME Base, NEW k \in left, left' = left \ {k}, key = NoKey, key' = k,
         UNCHANGED m_EachTotalData
  PROVE  ToAdd' = ToAdd /\ (Sum(ToAdd))' = Sum(ToAdd) /\ Total' = Total /\ Counted' = Counted
<1>1. NoKey \notin Keys
  BY ConstantsTyped
<1>2. ToAdd' = ToAdd
  BY <1>1 DEF ToAdd
<1>3. (Sum(ToAdd))' = Sum(ToAdd) /\ Total' = Total
  BY <1>2, SumsPrimed DEF Total
<1> QED
  BY <1>2, <1>3 DEF Counted

LEMMA AddCounts ==
  ASSUME Base, AddToTotal, AddInv
  PROVE  /\ key \in Keys /\ totalNum' = totalNum + m_EachTotalData[key]
         /\ totalNum' + (Sum(ToAdd))' <= Total'
         /\ totalNum + Sum(ToAdd) <= totalNum' + (Sum(ToAdd))'
<1>1. key \in Keys /\ key' = NoKey /\ UNCHANGED <<left, m_EachTotalData>>
      /\ totalNum' = totalNum + m_EachTotalData[key]
  BY DEF AddToTotal, Base, Types
<1>2. PICK c \in Counts, d \in Counts : c = ToAdd /\ d = ToAdd'
  <2>1. ToAdd' \in Counts
    BY <1>1 DEF ToAdd, Base, Types, Counts
  <2> QED
    BY <2>1, Counting
<1>3. \A j \in Keys : j # key => d[j] = c[j]
  BY <1>1, <1>2, ConstantsTyped DEF ToAdd
<1>4. c[key] = m_EachTotalData[key] /\ d[key] = 0 /\ m_EachTotalData[key] \in Nat
  BY <1>1, <1>2, ConstantsTyped DEF ToAdd, Base, Types, Counts, AddInv
<1>5. Sum(d) + c[key] = Sum(c) + d[key]
  BY <1>1, <1>3, SumChanged
<1>6. Sum(c) \in Nat /\ Sum(d) \in Nat
  BY SumNat
<1>7. Total' = Total /\ Total \in Nat /\ totalNum \in Nat
  <2>1. Total' = Total
    BY <1>1, SumsPrimed DEF Total
  <2> QED
    BY <2>1, Counting DEF Base, Types
<1>8. Sum(c) = Sum(ToAdd) /\ Sum(d) = (Sum(ToAdd))'
  BY <1>2, SumsPrimed
<1>9. totalNum + Sum(c) <= Total
  BY <1>8 DEF AddInv
<1> QED
  BY <1>1, <1>4, <1>5, <1>6, <1>7, <1>8, <1>9

LEMMA AddNext == Base /\ AddInv /\ [Next]_vars => AddInv'
<1> SUFFICES ASSUME Base, AddInv, [Next]_vars PROVE AddInv'
  OBVIOUS
<1>1. Base'
  BY BaseNext
<1>2. /\ Total \in Nat /\ Sum(ToAdd) \in Nat /\ totalNum \in Nat
      /\ Total' \in Nat /\ (Sum(ToAdd))' \in Nat /\ NoKey \notin Keys
  <2>1. PICK c \in Counts, d \in Counts : c = ToAdd' /\ d = m_EachTotalData'
    <3>1. ToAdd' \in Counts /\ m_EachTotalData' \in Counts
      BY <1>1 DEF Base, Types, ToAdd, Counts
    <3> QED
      BY <3>1, Zenon
  <2>2. Sum(c) \in Nat /\ Sum(d) \in Nat
    BY SumNat
  <2>3. Total' \in Nat /\ (Sum(ToAdd))' \in Nat
    BY <2>1, <2>2, SumsPrimed
  <2>4. Total \in Nat /\ Sum(ToAdd) \in Nat
    BY Counting
  <2> QED
    BY <2>3, <2>4, ConstantsTyped DEF Base, Types
<1>3. ASSUME NEW k \in Keys, write_data(k) PROVE AddInv'
  <2>1. /\ Total' = Total + 1 /\ key' = key /\ totalNum' = totalNum
        /\ left' = left \/ (k \notin Counted /\ left' = left \cup {k})
        /\ (Sum(ToAdd))' <= Sum(ToAdd) + 1 /\ m_EachTotalData'[k] = m_EachTotalData[k] + 1
        /\ \A j \in Keys : m_EachTotalData[j] <= m_EachTotalData'[j]
    <3>1. write_data(k) /\ k \in Keys
      BY <1>3
    <3>2. Total' = Total + 1
      BY <3>1, WriteCounts, Zenon
    <3>3. key' = key /\ totalNum' = totalNum
      BY <3>1, WriteCounts, Zenon
    <3>4. left' = left \/ (k \notin Counted /\ left' = left \cup {k})
      BY <3>1, WriteCounts, Zenon
    <3>5. (Sum(ToAdd))' <= Sum(ToAdd) + 1
      BY <3>1, WriteCounts, Zenon
    <3>6. m_EachTotalData'[k] = m_EachTotalData[k] + 1
      BY <3>1, WriteCounts, Zenon
    <3>7. \A j \in Keys : m_EachTotalData[j] <= m_EachTotalData'[j]
      BY <3>1, WriteCounts, Zenon
    <3> QED
      BY <3>2, <3>3, <3>4, <3>5, <3>6, <3>7
  <2>2. totalNum' + (Sum(ToAdd))' <= Total'
    BY <1>2, <2>1 DEF AddInv
  <2>3. Counted \subseteq Counted' /\ k \in Counted'
    <3>1. \A j \in Keys : m_EachTotalData[j] \in Nat /\ m_EachTotalData'[j] \in Nat
      BY <1>1 DEF Base, Types, Counts
    <3> QED
      BY <2>1, <3>1 DEF Counted
  <2>4. left' \subseteq Counted' /\ key' \in (Counted' \ left') \cup {NoKey}
    BY <1>2, <2>1, <2>3 DEF AddInv
  <2> QED
    BY <2>2, <2>4 DEF AddInv
<1>4. CASE Look
  <2>1. CASE ~Due
    <3>1. UNCHANGED <<left, key, totalNum, m_EachTotalData>>
      BY <1>4, <2>1 DEF Look
    <3>2. ToAdd' = ToAdd
      BY <3>1 DEF ToAdd
    <3> QED
      BY <3>1, <3>2, SumsPrimed DEF AddInv, Counted, Total
  <2>2. CASE Due
    <3>1. left' = Counted /\ UNCHANGED <<key, totalNum, m_EachTotalData>> /\ key = NoKey /\ totalNum = 0
      BY <1>4, <2>2 DEF Look, Base, Control
    <3>2. (Sum(ToAdd))' = Total /\ Total' = Total /\ left' \subseteq Counted'
      BY <1>1, <3>1, StartCounts
    <3> QED
      BY <1>2, <3>1, <3>2 DEF AddInv
  <2> QED
    BY <2>1, <2>2
<1>5. CASE timer_day
  <2>1. UNCHANGED <<key, totalNum, m_EachTotalData>> /\ key = NoKey /\ totalNum = 0
        /\ (left' = left \/ left' = Counted)
    BY <1>5 DEF timer_day, Base, Control
  <2>2. CASE left' = left
    <3>2. ToAdd' = ToAdd
      BY <2>1, <2>2 DEF ToAdd
    <3> QED
      BY <2>1, <2>2, <3>2, SumsPrimed DEF AddInv, Counted, Total
  <2>3. CASE left' = Counted
    <3>2. (Sum(ToAdd))' = Total /\ Total' = Total /\ left' \subseteq Counted'
      BY <1>1, <2>1, <2>3, StartCounts
    <3> QED
      BY <1>2, <2>1, <3>2 DEF AddInv
  <2> QED
    BY <2>1, <2>2, <2>3
<1>6. CASE Kill
  <2>1. left' = {} /\ key' = NoKey /\ totalNum' = 0
    BY <1>6 DEF Kill
  <2>2. PICK c \in Counts : c = ToAdd'
    BY <1>1 DEF Base, Types, Counts, ToAdd
  <2>3. \A k \in Keys : c[k] = 0
    BY <1>2, <2>1, <2>2 DEF ToAdd
  <2>4. (Sum(ToAdd))' = 0
    BY <2>2, <2>3, SumZero, SumsPrimed
  <2> QED
    BY <1>2, <2>1, <2>4 DEF AddInv
<1>7. CASE VisitDevice \/ WriteLine
  <2>1. /\ key = NoKey /\ UNCHANGED <<m_EachTotalData, totalNum>>
        /\ \E k \in left : left' = left \ {k} /\ key' = k
    BY <1>7 DEF VisitDevice, WriteLine
  <2>2. PICK k \in left : left' = left \ {k} /\ key' = k
    BY <2>1
  <2>3. ToAdd' = ToAdd /\ (Sum(ToAdd))' = Sum(ToAdd) /\ Total' = Total /\ Counted' = Counted
    BY <2>1, <2>2, VisitCounts
  <2> QED
    BY <2>1, <2>2, <2>3 DEF AddInv
<1>8. CASE AddToTotal
  <2>1. totalNum' + (Sum(ToAdd))' <= Total'
    BY <1>8, AddCounts
  <2>2. key' = NoKey /\ UNCHANGED <<left, m_EachTotalData>>
    BY <1>8 DEF AddToTotal
  <2> QED
    BY <2>1, <2>2 DEF AddInv, Counted
<1>9. CASE EndStatistic \/ WriteTotal
  <2>1. totalNum' = 0 /\ UNCHANGED <<left, key, m_EachTotalData>>
    BY <1>9 DEF EndStatistic, WriteTotal
  <2>2. ToAdd' = ToAdd
    BY <2>1 DEF ToAdd
  <2>3. (Sum(ToAdd))' = Sum(ToAdd) /\ Total' = Total
    BY <2>1, <2>2, SumsPrimed DEF Total
  <2> QED
    BY <1>2, <2>1, <2>3 DEF AddInv, Counted
<1>10. CASE UNCHANGED <<left, key, totalNum, m_EachTotalData>>
  <2>1. ToAdd' = ToAdd
    BY <1>10 DEF ToAdd
  <2> QED
    BY <1>10, <2>1, SumsPrimed DEF AddInv, Counted, Total
<1>11. Tick => <1>10!1
  BY DEF Tick, scan
<1>12. init_server => <1>10!1
  BY DEF init_server, scan
<1>13. (\E r \in Ranges : QueryDays(r)) => <1>10!1
  BY DEF QueryDays, scan
<1>14. UNCHANGED vars => <1>10!1
  BY DEF vars, scan
<1> QED
  BY <1>3, <1>4, <1>5, <1>6, <1>7, <1>8, <1>9, <1>10, <1>11, <1>12, <1>13, <1>14 DEF Next

LEMMA AddInit == Init => AddInv
<1> SUFFICES ASSUME Init PROVE AddInv
  OBVIOUS
<1>1. left = {} /\ key = NoKey /\ totalNum = 0 /\ Base
  BY BaseInit DEF Init
<1>2. ToAdd \in Counts /\ Total \in Nat
  BY <1>1, Counting
<1>3. \A k \in Keys : ToAdd[k] = 0
  BY <1>1, ConstantsTyped DEF ToAdd
<1>4. Sum(ToAdd) = 0
  BY <1>2, <1>3, SumZero
<1> QED
  BY <1>1, <1>2, <1>4 DEF AddInv

-----------------------------------------------------------------------------
(* The windows.  Their entries are numbered from the end: the j-th of a    *)
(* device is for the interval of the j-th of the sums.  While an iteration *)
(* runs the devices it has met are one entry ahead.                        *)
Rising(w, c) == /\ \A i \in 1 .. Len(w) - 1 : w[i].count <= w[i + 1].count
                /\ w # <<>> => w[Len(w)].count <= c
InStep(w, s) == /\ Len(w) <= Len(s)
                /\ \A i \in 1 .. Len(w) : w[i].time = s[Len(s) - Len(w) + i].time
Back(w, j)   == IF j <= Len(w) THEN w[Len(w) - j + 1].count ELSE 0
Ahead(k)     == pc = "statistic" /\ k \notin left

SumWindow(k) == IF Ahead(k) THEN PushBack(m_TimerTotalData, 0) ELSE m_TimerTotalData
WindowOf(k)  ==
  /\ Len(m_TimerEachData[k]) <= m_cycleNum
  /\ Rising(m_TimerEachData[k], m_EachTotalData[k])
  /\ m_TimerEachData[k] # <<>> => k \in Counted
  /\ InStep(m_TimerEachData[k], SumWindow(k))

EachInv == \A k \in Keys : WindowOf(k)

TotalInv ==
  /\ Len(m_TimerTotalData) <= m_cycleNum /\ Rising(m_TimerTotalData, Total)
  /\ pc = "statistic" => Back(m_TimerTotalData, 1) <= totalNum + Sum(ToAdd)

LEMMA EntryTyped ==
  ASSUME NEW w \in Seq(Entries), NEW i \in 1 .. Len(w)
  PROVE  w[i].time \in Nat /\ w[i].count \in Nat
<1>1. w[i] \in Entries
  OBVIOUS
<1> QED
  BY <1>1 DEF Entries

LEMMA BackTyped == ASSUME NEW w \in Seq(Entries), NEW j \in Nat \ {0} PROVE Back(w, j) \in Nat
<1>1. CASE j <= Len(w)
  <2>1. Len(w) - j + 1 \in 1 .. Len(w)
    BY <1>1
  <2> QED
    BY <1>1, <2>1, EntryTyped DEF Back
<1> QED
  BY <1>1 DEF Back

LEMMA InStepPushed ==
  ASSUME Types, NEW w \in Seq(Entries), NEW s \in Seq(Entries), NEW m \in Nat, NEW n \in Nat,
         Len(s) <= m_cycleNum, InStep(w, s)
  PROVE  InStep(PushBack(w, m), PushBack(s, n))
<1>1. PICK v \in Seq(Entries), u \in Seq(Entries) : v = PushBack(w, m) /\ u = PushBack(s, n)
  BY Pushed
<1>2. /\ Len(v) = IF Len(w) = m_cycleNum THEN Len(w) ELSE Len(w) + 1
      /\ v[Len(v)] = [time |-> lTime, count |-> m]
      /\ \A i \in 1 .. Len(v) - 1 : v[i] = IF Len(w) = m_cycleNum THEN w[i + 1] ELSE w[i]
  BY <1>1, Pushed
<1>3. /\ Len(u) = IF Len(s) = m_cycleNum THEN Len(s) ELSE Len(s) + 1
      /\ u[Len(u)] = [time |-> lTime, count |-> n]
      /\ \A i \in 1 .. Len(u) - 1 : u[i] = IF Len(s) = m_cycleNum THEN s[i + 1] ELSE s[i]
  BY <1>1, Pushed
<1>4. /\ Len(w) \in Nat /\ Len(s) \in Nat /\ Len(w) <= Len(s)
      /\ \A i \in 1 .. Len(w) : w[i].time = s[Len(s) - Len(w) + i].time
  BY DEF InStep
<1>5. m_cycleNum \in Nat \ {0} /\ Len(v) \in Nat /\ Len(u) \in Nat /\ Len(v) <= Len(u)
  BY <1>2, <1>3, <1>4, ConstantsTyped
<1>6. ASSUME NEW i \in 1 .. Len(v)
      PROVE  v[i].time = u[Len(u) - Len(v) + i].time
  <2>1. CASE i = Len(v)
    <3>1. Len(u) - Len(v) + i = Len(u)
      BY <1>5, <2>1
    <3> QED
      BY <1>2, <1>3, <2>1, <3>1
  <2>2. CASE i # Len(v)
    <3>1. i \in 1 .. Len(v) - 1 /\ Len(u) - Len(v) + i \in 1 .. Len(u) - 1
      BY <1>5, <2>2
    <3>2. CASE Len(w) = m_cycleNum
      <4>1. Len(s) = m_cycleNum /\ v[i] = w[i + 1] /\ i + 1 \in 1 .. Len(w)
        BY <1>2, <1>4, <1>5, <3>1, <3>2
      <4>2. u[Len(u) - Len(v) + i] = s[Len(u) - Len(v) + i + 1]
        BY <1>3, <3>1, <4>1
      <4>3. Len(u) - Len(v) + i + 1 = Len(s) - Len(w) + (i + 1)
        BY <1>2, <1>3, <1>4, <3>2, <4>1
      <4>4. w[i + 1].time = s[Len(s) - Len(w) + (i + 1)].time
        BY <1>4, <4>1
      <4> QED
        BY <4>1, <4>2, <4>3, <4>4
    <3>3. CASE Len(w) # m_cycleNum
      <4>1. v[i] = w[i] /\ i \in 1 .. Len(w)
        BY <1>2, <1>4, <1>5, <3>1, <3>3
      <4>2. u[Len(u) - Len(v) + i] = s[Len(s) - Len(w) + i]
        <5>1. CASE Len(s) = m_cycleNum
          <6>0. PICK a \in 1 .. Len(u) - 1 : a = Len(u) - Len(v) + i
            BY <3>1, Zenon
          <6>1. u[Len(u) - Len(v) + i] = s[Len(u) - Len(v) + i + 1]
            BY <1>3, <5>1, <6>0
          <6>2. Len(u) - Len(v) + i + 1 = Len(s) - Len(w) + i
            BY <1>2, <1>3, <1>4, <3>3, <5>1
          <6> QED
            BY <6>1, <6>2
        <5>2. CASE Len(s) # m_cycleNum
          <6>0. PICK a \in 1 .. Len(u) - 1 : a = Len(u) - Len(v) + i
            BY <3>1, Zenon
          <6>1. u[Len(u) - Len(v) + i] = s[Len(u) - Len(v) + i]
            <7>1. u[a] = s[a]
              BY <1>3, <5>2
            <7> QED
              BY <6>0, <7>1, Zenon
          <6>2. Len(u) - Len(v) + i = Len(s) - Len(w) + i
            <7>1. Len(u) = Len(s) + 1 /\ Len(v) = Len(w) + 1
              BY <1>2, <1>3, <3>3, <5>2
            <7> QED
              BY <1>4, <7>1
          <6> QED
            BY <6>1, <6>2
        <5> QED
          BY <5>1, <5>2
      <4>3. w[i].time = s[Len(s) - Len(w) + i].time
        BY <1>4, <4>1
      <4> QED
        BY <4>1, <4>2, <4>3
    <3> QED
      BY <3>2, <3>3
  <2> QED
    BY <2>1, <2>2
<1> QED
  BY <1>1, <1>5, <1>6 DEF InStep

LEMMA RisingPushed ==
  ASSUME Types, NEW w \in Seq(Entries), NEW n \in Nat, Rising(w, n)
  PROVE  Rising(PushBack(w, n), n)
<1>1. PICK v \in Seq(Entries) : v = PushBack(w, n)
  BY Pushed
<1>2. /\ Len(v) = IF Len(w) = m_cycleNum THEN Len(w) ELSE Len(w) + 1
      /\ v[Len(v)] = [time |-> lTime, count |-> n]
      /\ \A i \in 1 .. Len(v) - 1 : v[i] = IF Len(w) = m_cycleNum THEN w[i + 1] ELSE w[i]
  BY <1>1, Pushed
<1>3. m_cycleNum \in Nat \ {0} /\ Len(w) \in Nat /\ Len(v) \in Nat
  BY ConstantsTyped
<1>4. v[Len(v)].count <= n
  BY <1>2
<1>5. ASSUME NEW i \in 1 .. Len(v) - 1 PROVE v[i].count <= v[i + 1].count
  <2>1. PICK j \in 1 .. Len(w) : v[i] = w[j] /\ j = IF Len(w) = m_cycleNum THEN i + 1 ELSE i
    <3>1. CASE Len(w) = m_cycleNum
      BY <1>2, <1>3, <3>1
    <3>2. CASE Len(w) # m_cycleNum
      BY <1>2, <1>3, <3>2
    <3> QED
      BY <3>1, <3>2
  <2>2. CASE i = Len(v) - 1
    <3>1. v[i + 1].count = n /\ j = Len(w) /\ w # <<>>
      BY <1>2, <1>3, <2>1, <2>2
    <3> QED
      BY <2>1, <3>1 DEF Rising
  <2>3. CASE i # Len(v) - 1
    <3>1. v[i + 1] = w[j + 1] /\ j \in 1 .. Len(w) - 1
      BY <1>2, <1>3, <2>1, <2>3
    <3> QED
      BY <2>1, <3>1 DEF Rising
  <2> QED
    BY <2>2, <2>3
<1> QED
  BY <1>1, <1>4, <1>5 DEF Rising

LEMMA BackPushed ==
  ASSUME Types, NEW w \in Seq(Entries), NEW n \in Nat
  PROVE  /\ Back(PushBack(w, n), 1) = n
         /\ \A j \in Nat \ {0} :
              /\ Back(PushBack(w, n), j + 1) <= Back(w, j)
              /\ j + 1 <= Len(PushBack(w, n)) => Back(PushBack(w, n), j + 1) = Back(w, j)
<1>1. PICK v \in Seq(Entries) : v = PushBack(w, n)
  BY Pushed
<1>2. /\ Len(v) = IF Len(w) = m_cycleNum THEN Len(w) ELSE Len(w) + 1
      /\ v[Len(v)] = [time |-> lTime, count |-> n]
      /\ \A i \in 1 .. Len(v) - 1 : v[i] = IF Len(w) = m_cycleNum THEN w[i + 1] ELSE w[i]
  BY <1>1, Pushed
<1>3. m_cycleNum \in Nat \ {0} /\ Len(w) \in Nat /\ Len(v) \in Nat /\ Len(v) >= 1
  BY <1>2, ConstantsTyped
<1>4. Back(v, 1) = n
  <2>1. Len(v) - 1 + 1 = Len(v)
    BY <1>3
  <2> QED
    BY <1>2, <1>3, <2>1 DEF Back
<1>5. ASSUME NEW j \in Nat \ {0} PROVE j + 1 <= Len(v) => Back(v, j + 1) = Back(w, j)
  <2> SUFFICES ASSUME j + 1 <= Len(v) PROVE Back(v, j + 1) = Back(w, j)
    OBVIOUS
  <2>1. j <= Len(w)
    BY <1>2, <1>3
  <2>a. Len(v) - (j + 1) + 1 \in 1 .. Len(v) - 1
    BY <1>3
  <2>2. PICK i \in 1 .. Len(v) - 1 : i = Len(v) - (j + 1) + 1
    BY <2>a, Zenon
  <2>3. v[i] = w[Len(w) - j + 1]
    <3>1. CASE Len(w) = m_cycleNum
      <4>1. i + 1 = Len(w) - j + 1
        BY <1>2, <1>3, <2>2, <3>1
      <4> QED
        BY <1>2, <3>1, <4>1
    <3>2. CASE Len(w) # m_cycleNum
      <4>1. i = Len(w) - j + 1
        BY <1>2, <1>3, <2>2, <3>2
      <4> QED
        BY <1>2, <3>2, <4>1
    <3> QED
      BY <3>1, <3>2
  <2> QED
    BY <2>1, <2>2, <2>3 DEF Back
<1>6. ASSUME NEW j \in Nat \ {0} PROVE Back(v, j + 1) <= Back(w, j)
  <2>1. Back(w, j) \in Nat
    BY BackTyped
  <2>2. CASE j + 1 <= Len(v)
    BY <1>5, <2>1, <2>2
  <2>3. CASE ~(j + 1 <= Len(v))
    BY <2>1, <2>3 DEF Back
  <2> QED
    BY <2>2, <2>3
<1> QED
  BY <1>1, <1>4, <1>5, <1>6

LEMMA InStepEmpty == ASSUME NEW s \in Seq(Entries) PROVE InStep(<<>>, s)
<1>1. Len(<<>>) = 0 /\ Len(s) \in Nat
  OBVIOUS
<1> QED
  BY <1>1 DEF InStep

(* A device that has no entry yet is in step whatever happens.             *)
LEMMA NoWindow ==
  ASSUME Base', NEW k \in Keys, m_TimerEachData'[k] = <<>>
  PROVE  WindowOf(k)'
<1>1. /\ m_cycleNum \in Nat \ {0} /\ lTime' \in Nat /\ m_TimerTotalData' \in Seq(Entries)
  BY ConstantsTyped DEF Base, Types
<1>2. PICK s \in Seq(Entries), T \in Nat : s = m_TimerTotalData' /\ T = lTime'
  BY <1>1
<1>3. Append(IF Len(s) = m_cycleNum THEN Tail(s) ELSE s, [time |-> T, count |-> 0]) \in Seq(Entries)
  <2>1. [time |-> T, count |-> 0] \in Entries
    BY DEF Entries
  <2>2. Len(s) = m_cycleNum => s # <<>>
    BY <1>1
  <2> QED
    BY <2>1, <2>2
<1>4. SumWindow(k)' = IF Ahead(k)' THEN Append(IF Len(s) = m_cycleNum THEN Tail(s) ELSE s, [time |-> T, count |-> 0])
                    ELSE s
  BY <1>2 DEF SumWindow, PushBack
<1>5. SumWindow(k)' \in Seq(Entries)
  BY <1>3, <1>4, Zenon
<1>6. PICK u \in Seq(Entries) : u = SumWindow(k)'
  BY <1>5, Zenon
<1>7. InStep(<<>>, u)
  BY InStepEmpty
<1>8. InStep(m_TimerEachData[k], SumWindow(k))'
  BY <1>6, <1>7 DEF InStep
<1>9. Rising(m_TimerEachData[k], m_EachTotalData[k])' /\ Len(m_TimerEachData'[k]) = 0
  BY DEF Rising
<1> QED
  BY <1>1, <1>8, <1>9 DEF WindowOf

(* and one whose window does not change while its count may have grown     *)
LEMMA SameWindow ==
  ASSUME Base, Base', NEW k \in Keys, WindowOf(k), m_TimerEachData'[k] = m_TimerEachData[k],
         m_EachTotalData[k] <= m_EachTotalData'[k], SumWindow(k)' = SumWindow(k)
  PROVE  WindowOf(k)'
<1>1. /\ m_TimerEachData[k] \in Seq(Entries) /\ m_EachTotalData[k] \in Nat
      /\ m_EachTotalData'[k] \in Nat
  BY DEF Base, Types, Counts
<1>2. m_TimerEachData[k] # <<>> => m_TimerEachData[k][Len(m_TimerEachData[k])].count \in Nat
  BY <1>1, EntryTyped
<1>3. Rising(m_TimerEachData[k], m_EachTotalData[k])'
  BY <1>1, <1>2 DEF Rising, WindowOf
<1>4. k \in Counted => k \in Counted'
  BY <1>1 DEF Counted
<1>5. InStep(m_TimerEachData[k], SumWindow(k))'
  BY DEF InStep, WindowOf
<1> QED
  BY <1>3, <1>4, <1>5 DEF WindowOf

LEMMA EachNext == Base /\ AddInv /\ TotalInv /\ EachInv /\ [Next]_vars => EachInv'
<1> SUFFICES ASSUME Base, AddInv, TotalInv, EachInv, [Next]_vars, NEW k \in Keys PROVE WindowOf(k)'
  BY DEF EachInv
<1>1. /\ Base' /\ Types /\ WindowOf(k)
      /\ m_TimerEachData[k] \in Seq(Entries) /\ m_EachTotalData[k] \in Nat
      /\ m_TimerTotalData \in Seq(Entries)
  BY BaseNext DEF Base, Types, Counts, EachInv
<1>2. ASSUME NEW j \in Keys, write_data(j) PROVE WindowOf(k)'
  <2>1. UNCHANGED <<m_TimerEachData, m_TimerTotalData, pc, lTime>>
    BY <1>2 DEF write_data, windows
  <2>2. \A i \in Keys : m_EachTotalData[i] <= m_EachTotalData'[i]
    BY <1>2, WriteCounts, Zenon
  <2>3. left' = left \/ (j \notin Counted /\ left' = left \cup {j})
    BY <1>2, WriteCounts, Zenon
  <2>4. CASE m_TimerEachData[k] = <<>>
    BY <1>1, <2>1, <2>4, NoWindow
  <2>5. CASE m_TimerEachData[k] # <<>>
    <3>1. k \in left' <=> k \in left
      BY <1>1, <2>3, <2>5 DEF WindowOf
    <3>2. SumWindow(k)' = SumWindow(k)
      BY <2>1, <3>1 DEF SumWindow, Ahead, PushBack
    <3> QED
      BY <1>1, <2>1, <2>2, <3>2, SameWindow
  <2> QED
    BY <2>4, <2>5
<1>3. CASE Look
  <2>1. /\ UNCHANGED <<m_TimerEachData, m_TimerTotalData, m_EachTotalData>>
        /\ pc = "sleep" /\ (pc' = "timer_day" \/ left' = Counted)
    BY <1>3 DEF Look, windows
  <2>2. CASE m_TimerEachData[k] = <<>>
    BY <1>1, <2>1, <2>2, NoWindow
  <2>3. CASE m_TimerEachData[k] # <<>>
    <3>1. ~Ahead(k) /\ ~Ahead(k)'
      BY <1>1, <2>1, <2>3 DEF Ahead, WindowOf
    <3>2. SumWindow(k)' = SumWindow(k)
      BY <2>1, <3>1 DEF SumWindow
    <3> QED
      BY <1>1, <2>1, <3>2, SameWindow
  <2> QED
    BY <2>2, <2>3
<1>4. CASE VisitDevice
  <2>1. PICK j \in left : /\ m_TimerEachData' = [m_TimerEachData EXCEPT ![j] = PushBack(@, m_EachTotalData[j])]
                           /\ left' = left \ {j}
    BY <1>4 DEF VisitDevice
  <2>2. /\ UNCHANGED <<m_TimerTotalData, m_EachTotalData, lTime, pc>> /\ pc = "statistic"
        /\ j \in Keys
    BY <1>4 DEF VisitDevice, history, Base, Types
  <2>3. CASE j # k
    <3>1. m_TimerEachData'[k] = m_TimerEachData[k] /\ (k \in left' <=> k \in left)
      BY <2>1, <2>3 DEF Base, Types
    <3>2. SumWindow(k)' = SumWindow(k)
      BY <2>2, <3>1 DEF SumWindow, Ahead, PushBack
    <3> QED
      BY <1>1, <2>2, <3>1, <3>2, SameWindow
  <2>4. CASE j = k
    <3>1. m_TimerEachData'[k] = PushBack(m_TimerEachData[k], m_EachTotalData[k])
      BY <2>1, <2>2, <2>4 DEF Base, Types
    <3>2. SumWindow(k) = m_TimerTotalData /\ SumWindow(k)' = PushBack(m_TimerTotalData, 0)
      BY <2>1, <2>2, <2>4 DEF SumWindow, Ahead, PushBack
    <3>3. PICK w \in Seq(Entries), s \in Seq(Entries), n \in Nat :
             w = m_TimerEachData[k] /\ s = m_TimerTotalData /\ n = m_EachTotalData[k]
      BY <1>1
    <3>4. /\ InStep(w, s) /\ Rising(w, n) /\ Len(w) <= m_cycleNum /\ Len(s) <= m_cycleNum
      BY <1>1, <3>2, <3>3 DEF WindowOf, TotalInv
    <3>5. InStep(PushBack(w, n), PushBack(s, 0)) /\ Rising(PushBack(w, n), n)
      BY <1>1, <3>4, InStepPushed, RisingPushed
    <3>6. Len(PushBack(w, n)) <= m_cycleNum
      <4>1. Len(PushBack(w, n)) = IF Len(w) = m_cycleNum THEN Len(w) ELSE Len(w) + 1
        BY <1>1, Pushed
      <4> QED
        BY <3>4, <4>1, ConstantsTyped
    <3>7. k \in Counted'
      BY <2>1, <2>2, <2>4 DEF AddInv, Counted
    <3>8. PICK v : v = PushBack(w, n)
      OBVIOUS
    <3>9. m_TimerEachData'[k] = v /\ m_EachTotalData'[k] = n
      BY <2>2, <3>1, <3>3, <3>8
    <3>10. Rising(m_TimerEachData[k], m_EachTotalData[k])'
      BY <3>5, <3>8, <3>9 DEF Rising
    <3>11. InStep(m_TimerEachData[k], SumWindow(k))'
      <4>1. InStep(v, PushBack(s, 0)) /\ SumWindow(k)' = PushBack(s, 0)
        BY <3>2, <3>3, <3>5, <3>8
      <4> QED
        BY <3>9, <4>1 DEF InStep
    <3> QED
      BY <3>6, <3>7, <3>8, <3>9, <3>10, <3>11 DEF WindowOf
  <2> QED
    BY <2>3, <2>4
<1>5. CASE EndStatistic
  <2>1. /\ pc = "statistic" /\ pc' = "timer_day" /\ left = {}
        /\ m_TimerTotalData' = PushBack(m_TimerTotalData, totalNum)
        /\ UNCHANGED <<m_TimerEachData, m_EachTotalData>>
    BY <1>5 DEF EndStatistic
  <2>2. SumWindow(k) = PushBack(m_TimerTotalData, 0) /\ SumWindow(k)' = PushBack(m_TimerTotalData, totalNum)
    BY <2>1 DEF SumWindow, Ahead
  <2>3. PICK w \in Seq(Entries), u \in Seq(Entries), v \in Seq(Entries) :
           /\ w = m_TimerEachData[k] /\ u = PushBack(m_TimerTotalData, 0)
           /\ v = PushBack(m_TimerTotalData, totalNum)
    <3>1. PushBack(m_TimerTotalData, 0) \in Seq(Entries)
          /\ PushBack(m_TimerTotalData, totalNum) \in Seq(Entries)
      BY <1>1, Pushed DEF Types
    <3> QED
      BY <1>1, <3>1, Zenon
  <2>4. Len(u) = Len(v) /\ Len(u) \in Nat /\ Len(w) \in Nat
        /\ \A i \in 1 .. Len(u) : u[i].time = v[i].time
    <3>1. totalNum \in Nat
      BY DEF Base, Types
    <3>2. PICK s \in Seq(Entries) : s = m_TimerTotalData
      BY <1>1
    <3>3. /\ Len(u) = IF Len(s) = m_cycleNum THEN Len(s) ELSE Len(s) + 1
          /\ u[Len(u)] = [time |-> lTime, count |-> 0]
          /\ \A i \in 1 .. Len(u) - 1 : u[i] = IF Len(s) = m_cycleNum THEN s[i + 1] ELSE s[i]
      BY <1>1, <2>3, <3>2, Pushed
    <3>a. PICK n \in Nat : n = totalNum
      BY <3>1
    <3>b. v = PushBack(s, n)
      BY <2>3, <3>2, <3>a
    <3>4. /\ Len(v) = IF Len(s) = m_cycleNum THEN Len(s) ELSE Len(s) + 1
          /\ v[Len(v)] = [time |-> lTime, count |-> n]
          /\ \A i \in 1 .. Len(v) - 1 : v[i] = IF Len(s) = m_cycleNum THEN s[i + 1] ELSE s[i]
      BY <1>1, <3>b, Pushed
    <3>5. Len(u) = Len(v) /\ Len(u) \in Nat /\ Len(w) \in Nat
      BY <3>3, <3>4
    <3>6. ASSUME NEW i \in 1 .. Len(u) PROVE u[i].time = v[i].time
      <4>1. CASE i = Len(u)
        BY <3>3, <3>4, <3>5, <4>1
      <4>2. CASE i # Len(u)
        <5>1. i \in 1 .. Len(u) - 1 /\ i \in 1 .. Len(v) - 1
          BY <3>5, <4>2
        <5>2. u[i] = v[i]
          BY <3>3, <3>4, <5>1
        <5> QED
          BY <5>2
      <4> QED
        BY <4>1, <4>2
    <3> QED
      BY <3>5, <3>6
  <2>5. InStep(w, u)
    BY <1>1, <2>2, <2>3 DEF WindowOf
  <2>6. InStep(w, v)
    <3>1. \A i \in 1 .. Len(w) : Len(u) - Len(w) + i \in 1 .. Len(u)
      BY <2>4, <2>5 DEF InStep
    <3> QED
      BY <2>4, <2>5, <3>1 DEF InStep
  <2>7. InStep(m_TimerEachData[k], SumWindow(k))'
    BY <2>1, <2>2, <2>3, <2>6 DEF InStep
  <2> QED
    BY <1>1, <2>1, <2>7 DEF WindowOf, Rising, Counted
<1>6. CASE Kill
  BY <1>1, <1>6, NoWindow DEF Kill
<1>7. CASE /\ UNCHANGED <<m_TimerEachData, m_TimerTotalData, m_EachTotalData>>
           /\ pc' = "statistic" <=> pc = "statistic"
           /\ pc = "statistic" => UNCHANGED <<left, lTime>>
  <2>1. SumWindow(k)' = SumWindow(k)
    BY <1>7 DEF SumWindow, Ahead, PushBack
  <2> QED
    BY <1>1, <1>7, <2>1, SameWindow
<1>8. Tick => <1>7!1
  BY DEF Tick, windows, scan
<1>9. init_server => <1>7!1
  BY DEF init_server, windows, scan
<1>10. timer_day => <1>7!1
  BY DEF timer_day, windows
<1>11. AddToTotal \/ WriteLine \/ WriteTotal => <1>7!1
  BY DEF AddToTotal, WriteLine, WriteTotal, windows
<1>12. (\E r \in Ranges : QueryDays(r)) => <1>7!1
  BY DEF QueryDays, windows, scan
<1>13. UNCHANGED vars => <1>7!1
  BY DEF vars, windows, scan
<1> QED
  BY <1>2, <1>3, <1>4, <1>5, <1>6, <1>7, <1>8, <1>9, <1>10, <1>11, <1>12, <1>13 DEF Next

LEMMA LastRises ==
  ASSUME NEW w \in Seq(Entries), NEW c \in Nat
  PROVE  /\ Rising(w, c) => Back(w, 1) <= c
         /\ \A d \in Nat : Rising(w, d) /\ Back(w, 1) <= c => Rising(w, c)
<1>1. CASE w = <<>>
  BY <1>1 DEF Rising, Back
<1>2. CASE w # <<>>
  <2>1. Len(w) \in Nat /\ 1 <= Len(w) /\ Len(w) - 1 + 1 = Len(w)
    BY <1>2
  <2>2. Back(w, 1) = w[Len(w)].count
    BY <2>1 DEF Back
  <2> QED
    BY <1>2, <2>2 DEF Rising
<1> QED
  BY <1>1, <1>2

LEMMA AllAdded == ASSUME Base, left = {}, key = NoKey PROVE Sum(ToAdd) = 0
<1>1. ToAdd \in Counts
  BY Counting
<1>2. \A k \in Keys : ToAdd[k] = 0
  BY ConstantsTyped DEF ToAdd
<1> QED
  BY <1>1, <1>2, SumZero

LEMMA TotalNext == Base /\ AddInv /\ TotalInv /\ [Next]_vars => TotalInv'
<1> SUFFICES ASSUME Base, AddInv, TotalInv, [Next]_vars PROVE TotalInv'
  OBVIOUS
<1>1. /\ m_TimerTotalData \in Seq(Entries) /\ Total \in Nat /\ Sum(ToAdd) \in Nat
      /\ totalNum \in Nat /\ Types /\ Base' /\ totalNum' \in Nat
      /\ Total' \in Nat /\ (Sum(ToAdd))' \in Nat
  <2>1. PICK c \in Counts, d \in Counts : c = ToAdd' /\ d = m_EachTotalData'
    <3>1. ToAdd' \in Counts /\ m_EachTotalData' \in Counts
      BY BaseNext DEF Base, Types, ToAdd, Counts
    <3> QED
      BY <3>1, Zenon
  <2>2. Sum(c) \in Nat /\ Sum(d) \in Nat
    BY SumNat
  <2>3. Total' \in Nat /\ (Sum(ToAdd))' \in Nat
    BY <2>1, <2>2, SumsPrimed
  <2> QED
    BY <2>3, BaseNext, Counting DEF Base, Types
<1>2. PICK s \in Seq(Entries) : s = m_TimerTotalData
  BY <1>1
<1>3. Len(s) <= m_cycleNum /\ Rising(s, Total) /\ Back(s, 1) \in Nat /\ Back(s, 1) <= Total
  <2>1. Len(s) <= m_cycleNum /\ Rising(s, Total) /\ Back(s, 1) \in Nat
    BY <1>2, BackTyped DEF TotalInv
  <2> QED
    BY <1>1, <2>1, LastRises
<1>4. pc = "statistic" => Back(s, 1) <= totalNum + Sum(ToAdd)
  BY <1>2 DEF TotalInv
<1>5. ASSUME m_TimerTotalData' = m_TimerTotalData, Total <= Total',
             pc' = "statistic" => Back(s, 1) <= totalNum' + (Sum(ToAdd))'
      PROVE  TotalInv'
  <2>1. Back(s, 1) <= Total'
    BY <1>1, <1>3, <1>5
  <2>2. Rising(s, Total')
    BY <1>1, <1>3, <2>1, LastRises
  <2>3. Rising(m_TimerTotalData, Total)'
    BY <1>2, <1>5, <2>2 DEF Rising
  <2>4. Back(m_TimerTotalData, 1)' = Back(s, 1)
    BY <1>2, <1>5 DEF Back
  <2> QED
    BY <1>2, <1>3, <1>5, <2>3, <2>4 DEF TotalInv
<1>6. m_EachTotalData' = m_EachTotalData => Total' = Total
  BY SumsPrimed DEF Total
<1>7. ASSUME NEW k \in Keys, write_data(k) PROVE TotalInv'
  <2>1. Total' = Total + 1
    BY <1>7, WriteCounts, Zenon
  <2>2. Sum(ToAdd) <= (Sum(ToAdd))'
    BY <1>7, WriteCounts, Zenon
  <2>3. UNCHANGED <<m_TimerTotalData, pc, totalNum>>
    BY <1>7 DEF write_data, windows
  <2>4. Total <= Total'
    BY <1>1, <2>1
  <2>5. pc' = "statistic" => Back(s, 1) <= totalNum' + (Sum(ToAdd))'
    BY <1>1, <1>3, <1>4, <2>2, <2>3
  <2> QED
    BY <1>5, <2>3, <2>4, <2>5
<1>8. CASE Look
  <2>1. UNCHANGED <<m_TimerTotalData, key, totalNum, m_EachTotalData>> /\ key = NoKey /\ totalNum = 0
        /\ (pc' = "timer_day" \/ left' = Counted)
    BY <1>8 DEF Look, windows, Base, Control
  <2>2. left' = Counted => (Sum(ToAdd))' = Total
    BY <1>1, <2>1, StartCounts
  <2> QED
    BY <1>1, <1>3, <1>5, <1>6, <2>1, <2>2
<1>9. CASE VisitDevice
  <2>1. /\ key = NoKey /\ UNCHANGED <<m_EachTotalData, totalNum, m_TimerTotalData, pc>>
        /\ \E k \in left : left' = left \ {k} /\ key' = k
    BY <1>9 DEF VisitDevice
  <2>2. PICK k \in left : left' = left \ {k} /\ key' = k
    BY <2>1
  <2>3. (Sum(ToAdd))' = Sum(ToAdd)
    BY <2>1, <2>2, VisitCounts
  <2> QED
    BY <1>1, <1>4, <1>5, <1>6, <2>1, <2>3
<1>10. CASE AddToTotal
  <2>1. UNCHANGED <<m_EachTotalData, m_TimerTotalData, pc>>
    BY <1>10 DEF AddToTotal, windows
  <2>2. totalNum + Sum(ToAdd) <= totalNum' + (Sum(ToAdd))'
    BY <1>10, AddCounts
  <2>3. pc' = "statistic" => Back(s, 1) <= totalNum' + (Sum(ToAdd))'
    BY <1>1, <1>3, <1>4, <2>1, <2>2
  <2> QED
    BY <1>1, <1>5, <1>6, <2>1, <2>3
<1>11. CASE EndStatistic
  <2>1. /\ pc = "statistic" /\ pc' = "timer_day" /\ left = {} /\ key = NoKey
        /\ m_TimerTotalData' = PushBack(m_TimerTotalData, totalNum)
        /\ m_EachTotalData' = m_EachTotalData
    BY <1>11 DEF EndStatistic
  <2>2. Back(s, 1) <= totalNum /\ totalNum <= Total
    BY <1>1, <1>4, <2>1, AllAdded DEF AddInv
  <2>3. PICK n \in Nat : n = totalNum
    BY <1>1
  <2>4. Rising(s, n)
    BY <1>1, <1>3, <2>2, <2>3, LastRises
  <2>5. PICK v \in Seq(Entries) : v = PushBack(s, n)
    BY <1>1, Pushed
  <2>6. Rising(v, n) /\ Back(v, 1) = n
    BY <1>1, <2>4, <2>5, RisingPushed, BackPushed
  <2>7. Rising(v, Total)
    BY <1>1, <2>2, <2>3, <2>6, LastRises
  <2>8. Len(v) <= m_cycleNum
    <3>1. Len(v) = IF Len(s) = m_cycleNum THEN Len(s) ELSE Len(s) + 1
      BY <1>1, <2>5, Pushed
    <3> QED
      BY <1>3, <3>1, ConstantsTyped
  <2>9. m_TimerTotalData' = v /\ Total' = Total
    BY <1>2, <1>6, <2>1, <2>3, <2>5
  <2> QED
    BY <2>1, <2>7, <2>8, <2>9 DEF TotalInv, Rising
<1>12. CASE Kill
  BY <1>1, <1>12, ConstantsTyped DEF Kill, TotalInv, Rising
<1>13. CASE /\ UNCHANGED <<m_TimerTotalData, m_EachTotalData>>
            /\ pc' = "statistic" => UNCHANGED <<pc, left, key, totalNum>>
  <2>1. pc' = "statistic" => ToAdd' = ToAdd
    BY <1>13 DEF ToAdd
  <2>2. pc' = "statistic" => (Sum(ToAdd))' = Sum(ToAdd)
    BY <2>1, SumsPrimed
  <2> QED
    BY <1>1, <1>4, <1>5, <1>6, <1>13, <2>2
<1>14. Tick => <1>13!1
  BY DEF Tick, windows, scan
<1>15. init_server => <1>13!1
  BY DEF init_server, windows, scan
<1>16. timer_day => <1>13!1
  BY DEF timer_day, windows
<1>17. WriteLine \/ WriteTotal => <1>13!1
  BY DEF WriteLine, WriteTotal, windows
<1>18. (\E r \in Ranges : QueryDays(r)) => <1>13!1
  BY DEF QueryDays, windows, scan
<1>19. UNCHANGED vars => <1>13!1
  BY DEF vars, windows, scan
<1> QED
  BY <1>7, <1>8, <1>9, <1>10, <1>11, <1>12, <1>13, <1>14, <1>15, <1>16, <1>17, <1>18, <1>19
  DEF Next

(* The j-th entries of the devices from the end, as of the last iteration  *)
(* that is over, and the last entries of those added by the present one.   *)
Row(j) == [k \in Keys |-> Back(m_TimerEachData[k], IF Ahead(k) THEN j + 1 ELSE j)]
Added  == [k \in Keys |-> IF k \in left \cup {key} THEN 0 ELSE Back(m_TimerEachData[k], 1)]

RowsInv ==
  /\ \A j \in 1 .. Len(m_TimerTotalData) : Sum(Row(j)) <= Back(m_TimerTotalData, j)
  /\ pc = "statistic" => Sum(Added) <= totalNum

LEMMA RowsPrimed ==
  (Sum(Added))' = Sum(Added') /\ \A j \in Nat : (Sum(Row(j)))' = Sum(Row(j)')
BY DEF Sum, MapThenSumSet, MapThenFoldSet

LEMMA RowsTyped ==
  ASSUME Base
  PROVE  Added \in Counts /\ \A j \in Nat \ {0} : Row(j) \in Counts
<1>1. \A k \in Keys : m_TimerEachData[k] \in Seq(Entries)
  BY DEF Base, Types
<1>2. \A k \in Keys : \A j \in Nat \ {0} : Back(m_TimerEachData[k], j) \in Nat
  BY <1>1, BackTyped
<1>3. Added \in Counts
  BY <1>2 DEF Added, Counts
<1>4. ASSUME NEW j \in Nat \ {0} PROVE Row(j) \in Counts
  <2>1. j + 1 \in Nat \ {0}
    OBVIOUS
  <2>2. \A k \in Keys : Back(m_TimerEachData[k], IF Ahead(k) THEN j + 1 ELSE j) \in Nat
    BY <1>2, <2>1
  <2> QED
    BY <2>2 DEF Row, Counts
<1> QED
  BY <1>3, <1>4

LEMMA NoEntry == ASSUME NEW j \in Nat \ {0} PROVE Back(<<>>, j) = 0
<1>1. Len(<<>>) = 0
  OBVIOUS
<1> QED
  BY <1>1 DEF Back

LEMMA RowsNext == Base /\ AddInv /\ TotalInv /\ EachInv /\ RowsInv /\ [Next]_vars => RowsInv'
<1> SUFFICES ASSUME Base, AddInv, TotalInv, EachInv, RowsInv, [Next]_vars PROVE RowsInv'
  OBVIOUS
<1>1. /\ m_TimerTotalData \in Seq(Entries) /\ totalNum \in Nat /\ Types /\ Base'
      /\ \A k \in Keys : m_TimerEachData[k] \in Seq(Entries) /\ m_EachTotalData[k] \in Nat
      /\ NoKey \notin Keys
  BY BaseNext, ConstantsTyped DEF Base, Types, Counts
<1>2. \A j \in 1 .. Len(m_TimerTotalData) : j \in Nat \ {0} /\ Sum(Row(j)) <= Back(m_TimerTotalData, j)
  BY DEF RowsInv
<1>3. ASSUME m_TimerTotalData' = m_TimerTotalData,
             \A j \in Nat \ {0} : Row(j)' = Row(j),
             pc' = "statistic" => Sum(Added') <= totalNum'
      PROVE  RowsInv'
  <2>1. ASSUME NEW j \in 1 .. Len(m_TimerTotalData)
        PROVE  (Sum(Row(j)))' <= Back(m_TimerTotalData, j)'
    <3>1. Row(j)' = Row(j) /\ j \in Nat
      BY <1>2, <1>3
    <3>2. (Sum(Row(j)))' = Sum(Row(j))
      BY <3>1, RowsPrimed
    <3>3. Back(m_TimerTotalData, j)' = Back(m_TimerTotalData, j)
      BY <1>3 DEF Back
    <3> QED
      BY <1>2, <3>2, <3>3
  <2>2. (Sum(Added))' = Sum(Added')
    BY RowsPrimed
  <2> QED
    BY <1>3, <2>1, <2>2 DEF RowsInv
<1>4. ASSUME NEW k \in Keys, write_data(k) PROVE RowsInv'
  <2>1. UNCHANGED <<m_TimerEachData, m_TimerTotalData, pc, key, totalNum>>
    BY <1>4 DEF write_data, windows
  <2>2. left' = left \/ (k \notin Counted /\ left' = left \cup {k})
    BY <1>4, WriteCounts, Zenon
  <2>3. k \in left' => k \in left \/ m_TimerEachData[k] = <<>>
    BY <2>2 DEF EachInv, WindowOf
  <2>4. \A j \in Keys : j # k => (j \in left' <=> j \in left)
    BY <2>2
  <2>5. \A j \in Nat \ {0} : Back(<<>>, j) = 0 /\ Back(<<>>, j + 1) = 0
    BY NoEntry
  <2>6. ASSUME NEW j \in Nat \ {0} PROVE Row(j)' = Row(j)
    <3>1. ASSUME NEW i \in Keys
          PROVE  Back(m_TimerEachData[i], IF Ahead(i)' THEN j + 1 ELSE j)
                   = Back(m_TimerEachData[i], IF Ahead(i) THEN j + 1 ELSE j)
      <4>1. CASE i \in left' <=> i \in left
        BY <2>1, <4>1 DEF Ahead
      <4>2. CASE ~(i \in left' <=> i \in left)
        <5>1. m_TimerEachData[i] = <<>>
          BY <2>2, <2>3, <2>4, <4>2
        <5> QED
          BY <2>5, <5>1
      <4> QED
        BY <4>1, <4>2
    <3> QED
      BY <2>1, <3>1 DEF Row
  <2>7. Added' = Added
    <3>1. ASSUME NEW i \in Keys
          PROVE  (IF i \in left' \cup {key} THEN 0 ELSE Back(m_TimerEachData[i], 1))
                   = (IF i \in left \cup {key} THEN 0 ELSE Back(m_TimerEachData[i], 1))
      <4>1. CASE i \in left' <=> i \in left
        BY <4>1
      <4>2. CASE ~(i \in left' <=> i \in left)
        <5>1. m_TimerEachData[i] = <<>>
          BY <2>2, <2>3, <2>4, <4>2
        <5> QED
          BY <2>5, <5>1
      <4> QED
        BY <4>1, <4>2
    <3> QED
      BY <2>1, <3>1 DEF Added
  <2> QED
    BY <1>3, <2>1, <2>6, <2>7 DEF RowsInv
<1>5. CASE Look
  <2>1. /\ UNCHANGED <<m_TimerEachData, m_TimerTotalData, key, totalNum>>
        /\ pc = "sleep" /\ (pc' = "timer_day" \/ left' = Counted) /\ totalNum = 0
    BY <1>5 DEF Look, windows, Base, Control
  <2>2. ASSUME NEW i \in Keys, Ahead(i)' PROVE m_TimerEachData[i] = <<>>
    BY <2>1, <2>2 DEF Ahead, EachInv, WindowOf
  <2>3. \A j \in Nat \ {0} : Back(<<>>, j) = 0 /\ Back(<<>>, j + 1) = 0
    BY NoEntry
  <2>4. ASSUME NEW j \in Nat \ {0} PROVE Row(j)' = Row(j)
    <3>1. ASSUME NEW i \in Keys
          PROVE  Back(m_TimerEachData[i], IF Ahead(i)' THEN j + 1 ELSE j)
                   = Back(m_TimerEachData[i], IF Ahead(i) THEN j + 1 ELSE j)
      <4>1. ~Ahead(i)
        BY <2>1 DEF Ahead
      <4>2. CASE Ahead(i)'
        <5>1. m_TimerEachData[i] = <<>>
          BY <2>2, <4>2
        <5> QED
          BY <2>3, <5>1
      <4>3. CASE ~Ahead(i)'
        BY <4>1, <4>3
      <4> QED
        BY <4>2, <4>3
    <3> QED
      BY <2>1, <3>1 DEF Row
  <2>5. ASSUME pc' = "statistic" PROVE Sum(Added') <= totalNum'
    <3>1. PICK c \in Counts : c = Added'
      <4>1. \A i \in Keys : Back(m_TimerEachData[i], 1) \in Nat
        BY <1>1, BackTyped
      <4>2. Added' \in Counts
        BY <2>1, <4>1 DEF Added, Counts
      <4> QED
        BY <4>2
    <3>2. ASSUME NEW i \in Keys PROVE c[i] = 0
      <4>1. CASE i \in left'
        BY <3>1, <4>1 DEF Added
      <4>2. CASE i \notin left'
        <5>1. m_TimerEachData[i] = <<>>
          BY <2>2, <2>5, <4>2 DEF Ahead
        <5>2. Back(m_TimerEachData'[i], 1) = 0
          BY <2>1, <2>3, <5>1
        <5> QED
          BY <3>1, <5>2 DEF Added
      <4> QED
        BY <4>1, <4>2
    <3>3. Sum(c) = 0
      BY <3>2, SumZero
    <3> QED
      BY <2>1, <3>1, <3>3
  <2> QED
    BY <1>3, <2>1, <2>4, <2>5
<1>6. CASE VisitDevice
  <2>1. PICK k \in left : /\ m_TimerEachData' = [m_TimerEachData EXCEPT ![k] = PushBack(@, m_EachTotalData[k])]
                           /\ left' = left \ {k}
                           /\ key' = k
    BY <1>6 DEF VisitDevice
  <2>2. /\ UNCHANGED <<m_TimerTotalData, pc, totalNum>> /\ pc = "statistic" /\ key = NoKey /\ k \in Keys
    BY <1>6 DEF VisitDevice, Base, Types
  <2>3. PICK w \in Seq(Entries), n \in Nat : w = m_TimerEachData[k] /\ n = m_EachTotalData[k]
    BY <1>1, <2>2
  <2>4. m_TimerEachData'[k] = PushBack(w, n) /\ \A i \in Keys : i # k => m_TimerEachData'[i] = m_TimerEachData[i]
    BY <2>1, <2>2, <2>3 DEF Base, Types
  <2>5. ASSUME NEW j \in 1 .. Len(m_TimerTotalData)
        PROVE  (Sum(Row(j)))' <= Back(m_TimerTotalData, j)'
    <3>1. j \in Nat \ {0} /\ j + 1 \in Nat \ {0}
      BY <1>2
    <3>2. PICK c \in Counts, d \in Counts : c = Row(j) /\ d = Row(j)'
      <4>1. Row(j) \in Counts
        BY <3>1, RowsTyped
      <4>2. \A i \in Keys : m_TimerEachData'[i] \in Seq(Entries)
        BY <1>1 DEF Base, Types
      <4>3. \A i \in Keys : Back(m_TimerEachData'[i], IF Ahead(i)' THEN j + 1 ELSE j) \in Nat
        BY <3>1, <4>2, BackTyped
      <4>4. Row(j)' \in Counts
        BY <4>3 DEF Row, Counts
      <4> QED
        BY <4>1, <4>4
    <3>3. ASSUME NEW i \in Keys PROVE d[i] <= c[i]
      <4>1. CASE i = k
        <5>1. c[i] = Back(w, j) /\ d[i] = Back(PushBack(w, n), j + 1)
          BY <2>1, <2>2, <2>3, <2>4, <3>2, <4>1 DEF Row, Ahead
        <5> QED
          BY <1>1, <3>1, <5>1, BackPushed
      <4>2. CASE i # k
        <5>1. d[i] = c[i]
          BY <2>1, <2>2, <2>4, <3>2, <4>2 DEF Row, Ahead
        <5> QED
          BY <5>1 DEF Counts
      <4> QED
        BY <4>1, <4>2
    <3>4. Sum(d) <= Sum(c) /\ Sum(d) \in Nat /\ Sum(c) \in Nat
      BY <3>3, SumMonotone, SumNat
    <3>5. (Sum(Row(j)))' = Sum(d) /\ Sum(Row(j)) = Sum(c)
      BY <3>1, <3>2, RowsPrimed
    <3>6. Back(m_TimerTotalData, j)' = Back(m_TimerTotalData, j) /\ Back(m_TimerTotalData, j) \in Nat
      BY <1>1, <2>2, <3>1, BackTyped DEF Back
    <3> QED
      BY <1>2, <3>4, <3>5, <3>6
  <2>6. Added' = Added
    <3>1. ASSUME NEW i \in Keys
          PROVE  (IF i \in left' \cup {key'} THEN 0 ELSE Back(m_TimerEachData'[i], 1))
                   = (IF i \in left \cup {key} THEN 0 ELSE Back(m_TimerEachData[i], 1))
      <4>1. CASE i = k
        BY <2>1, <4>1
      <4>2. CASE i # k
        BY <1>1, <2>1, <2>2, <2>4, <4>2
      <4> QED
        BY <4>1, <4>2
    <3> QED
      BY <3>1 DEF Added
  <2>7. (Sum(Added))' = Sum(Added)
    BY <2>6, RowsPrimed
  <2> QED
    BY <2>2, <2>5, <2>7 DEF RowsInv
<1>7. CASE AddToTotal
  <2>1. /\ UNCHANGED <<m_TimerEachData, m_TimerTotalData, pc, left>> /\ key \in Keys /\ key' = NoKey
        /\ totalNum' = totalNum + m_EachTotalData[key]
    BY <1>7 DEF AddToTotal, windows, Base, Types
  <2>2. ASSUME NEW j \in Nat \ {0} PROVE Row(j)' = Row(j)
    BY <2>1 DEF Row, Ahead
  <2>3. ASSUME pc' = "statistic" PROVE Sum(Added') <= totalNum'
    <3>1. \A i \in Keys : Back(m_TimerEachData[i], 1) \in Nat
      BY <1>1, BackTyped
    <3>2. PICK c \in Counts, d \in Counts : c = Added /\ d = Added'
      BY <2>1, <3>1 DEF Added, Counts
    <3>3. \A i \in Keys : i # key => d[i] = c[i]
      BY <1>1, <2>1, <3>2 DEF Added
    <3>4. c[key] = 0 /\ d[key] <= m_EachTotalData[key] /\ d[key] \in Nat
      <4>1. Back(m_TimerEachData[key], 1) <= m_EachTotalData[key]
        BY <1>1, <2>1, LastRises DEF EachInv, WindowOf
      <4>2. d[key] = 0 \/ d[key] = Back(m_TimerEachData[key], 1)
        BY <2>1, <3>2 DEF Added
      <4>3. c[key] = 0
        BY <2>1, <3>2 DEF Added
      <4> QED
        BY <1>1, <2>1, <3>1, <4>1, <4>2, <4>3
    <3>5. Sum(d) + c[key] = Sum(c) + d[key]
      BY <2>1, <3>3, SumChanged
    <3>6. Sum(d) \in Nat /\ Sum(c) \in Nat
      BY SumNat
    <3>7. Sum(c) <= totalNum
      BY <2>1, <2>3, <3>2 DEF RowsInv
    <3>8. m_EachTotalData[key] \in Nat
      BY <1>1, <2>1
    <3>9. Sum(d) <= totalNum'
      BY <1>1, <2>1, <3>4, <3>5, <3>6, <3>7, <3>8
    <3> QED
      BY <3>2, <3>9
  <2> QED
    BY <1>3, <2>1, <2>2, <2>3
<1>8. CASE EndStatistic
  <2>1. /\ pc = "statistic" /\ pc' = "timer_day" /\ left = {} /\ key = NoKey
        /\ m_TimerTotalData' = PushBack(m_TimerTotalData, totalNum)
        /\ UNCHANGED <<m_TimerEachData, left, key>>
    BY <1>8 DEF EndStatistic
  <2>2. PICK s \in Seq(Entries), n \in Nat : s = m_TimerTotalData /\ n = totalNum
    BY <1>1
  <2>3. PICK v \in Seq(Entries) : v = PushBack(s, n)
    BY <1>1, Pushed
  <2>4. m_TimerTotalData' = v
    BY <2>1, <2>2, <2>3
  <2>5. Len(v) \in Nat /\ Len(v) <= Len(s) + 1
    <3>1. Len(v) = IF Len(s) = m_cycleNum THEN Len(s) ELSE Len(s) + 1
      BY <1>1, <2>3, Pushed
    <3> QED
      BY <3>1
  <2>6. ASSUME NEW j \in 1 .. Len(v)
        PROVE  (Sum(Row(j)))' <= Back(v, j)
    <3>1. (Sum(Row(j)))' = Sum(Row(j)') /\ j \in Nat
      BY RowsPrimed
    <3>2. CASE j = 1
      <4>1. Row(j)' = Added
        BY <1>1, <2>1, <3>2 DEF Row, Ahead, Added
      <4>2. Back(v, 1) = n
        BY <1>1, <2>3, BackPushed
      <4>3. Sum(Added) <= totalNum
        BY <2>1 DEF RowsInv
      <4> QED
        BY <2>2, <3>1, <3>2, <4>1, <4>2, <4>3
    <3>3. CASE j # 1
      <4>1. PICK i \in Nat \ {0} : i = j - 1 /\ j = i + 1 /\ i <= Len(s)
        BY <2>5, <3>3
      <4>2. Row(j)' = Row(i)
        BY <2>1, <4>1 DEF Row, Ahead
      <4>3. Back(v, j) = Back(s, i)
        BY <1>1, <2>3, <4>1, BackPushed
      <4>4. Sum(Row(i)) <= Back(s, i)
        BY <1>2, <2>2, <4>1
      <4> QED
        BY <3>1, <4>2, <4>3, <4>4
    <3> QED
      BY <3>2, <3>3
  <2>7. ASSUME NEW j \in 1 .. Len(m_TimerTotalData')
        PROVE  (Sum(Row(j)))' <= Back(m_TimerTotalData, j)'
    BY <2>4, <2>6
  <2> QED
    BY <2>1, <2>7 DEF RowsInv
<1>9. CASE Kill
  <2>1. pc' = "down" /\ m_TimerTotalData' = <<>> /\ 1 .. Len(<<>>) = {}
    BY <1>9 DEF Kill
  <2> QED
    BY <2>1 DEF RowsInv
<1>10. CASE /\ UNCHANGED <<m_TimerEachData, m_TimerTotalData>>
            /\ pc' = "statistic" <=> pc = "statistic"
            /\ pc' = "statistic" => UNCHANGED <<left, key, totalNum>>
  <2>1. ASSUME NEW j \in Nat \ {0} PROVE Row(j)' = Row(j)
    BY <1>10 DEF Row, Ahead
  <2>2. pc' = "statistic" => Added' = Added
    BY <1>10 DEF Added
  <2> QED
    BY <1>3, <1>10, <2>1, <2>2 DEF RowsInv
<1>11. Tick => <1>10!1
  BY DEF Tick, windows, scan
<1>12. init_server => <1>10!1
  BY DEF init_server, windows, scan
<1>13. timer_day => <1>10!1
  BY DEF timer_day, windows
<1>14. WriteLine \/ WriteTotal => <1>10!1
  BY DEF WriteLine, WriteTotal, windows
<1>15. (\E r \in Ranges : QueryDays(r)) => <1>10!1
  BY DEF QueryDays, windows, scan
<1>16. UNCHANGED vars => <1>10!1
  BY DEF vars, windows, scan
<1> QED
  BY <1>4, <1>5, <1>6, <1>7, <1>8, <1>9, <1>10, <1>11, <1>12, <1>13, <1>14, <1>15, <1>16
  DEF Next

WindowsInv == AddInv /\ EachInv /\ TotalInv /\ RowsInv

LEMMA WindowsInit == Init => WindowsInv
<1> SUFFICES ASSUME Init PROVE WindowsInv
  OBVIOUS
<1>1. /\ Base /\ AddInv /\ pc = "down" /\ m_TimerTotalData = <<>>
      /\ \A k \in Keys : m_TimerEachData[k] = <<>>
  BY BaseInit, AddInit DEF Init
<1>2. Len(<<>>) = 0 /\ 1 .. Len(<<>>) = {} /\ m_cycleNum \in Nat /\ 0 - 1 = -1 /\ 1 .. 0 - 1 = {}
  BY ConstantsTyped
<1>3. RowsInv
  BY <1>1, <1>2 DEF RowsInv
<1>4. TotalInv
  BY <1>1, <1>2 DEF TotalInv, Rising
<1>5. ASSUME NEW k \in Keys PROVE WindowOf(k)
  <2>1. SumWindow(k) = <<>>
    BY <1>1 DEF SumWindow, Ahead
  <2>2. InStep(<<>>, <<>>) /\ Rising(<<>>, m_EachTotalData[k])
    BY <1>2 DEF InStep, Rising
  <2> QED
    BY <1>1, <1>2, <2>1, <2>2 DEF WindowOf
<1> QED
  BY <1>1, <1>3, <1>4, <1>5 DEF WindowsInv, EachInv

(* What a query takes from a window are differences of counts.             *)
LEMMA Differences ==
  ASSUME NEW w \in Seq(Entries), NEW c \in Nat, Rising(w, c), NEW i \in DOMAIN w
  PROVE  RealRows(w, c)[i] >= 0
<1>1. i \in 1 .. Len(w) /\ Len(w) \in Nat
  OBVIOUS
<1>2. RealRows(w, c)[i] = (IF i < Len(w) THEN w[i + 1].count ELSE c) - w[i].count
  BY DEF RealRows
<1>3. w[i].count \in Nat
  BY <1>1, EntryTyped
<1>4. CASE i < Len(w)
  <2>1. w[i].count <= w[i + 1].count
    BY <1>1, <1>4 DEF Rising
  <2>2. w[i + 1].count \in Nat
    BY <1>1, <1>4, EntryTyped
  <2> QED
    BY <1>2, <1>3, <1>4, <2>1, <2>2
<1>5. CASE ~(i < Len(w))
  <2>1. i = Len(w) /\ w # <<>>
    BY <1>1, <1>5
  <2>2. w[i].count <= c
    BY <2>1 DEF Rising
  <2> QED
    BY <1>2, <1>3, <1>5, <2>2
<1> QED
  BY <1>4, <1>5

(* The windows of the devices and that of the sums stay in step for any    *)
(* number of devices and intervals, although do_statistic fills them one   *)
(* device after the other while write_data goes on counting, and drops the *)
(* oldest entry of each by itself.                                         *)
THEOREM WindowsAgree == Spec => []WindowsInStep
<1>1. Init => Base /\ WindowsInv
  BY BaseInit, WindowsInit
<1>2. Base /\ WindowsInv /\ [Next]_vars => (Base /\ WindowsInv)'
  BY BaseNext, AddNext, EachNext, TotalNext, RowsNext DEF WindowsInv
<1>3. Base /\ WindowsInv => WindowsInStep
  <2> SUFFICES ASSUME Base, WindowsInv, pc # "statistic" PROVE WindowsInStep
    BY DEF WindowsInStep
  <2>1. /\ m_TimerTotalData \in Seq(Entries) /\ Total \in Nat
        /\ \A k \in Keys : m_TimerEachData[k] \in Seq(Entries) /\ m_EachTotalData[k] \in Nat
    BY Counting DEF Base, Types, Counts
  <2>2. ASSUME NEW k \in Keys
        PROVE  /\ InStep(m_TimerEachData[k], m_TimerTotalData)
               /\ Rising(m_TimerEachData[k], m_EachTotalData[k])
    BY DEF WindowsInv, EachInv, WindowOf, SumWindow, Ahead
  <2>3. ASSUME NEW k \in Keys
        PROVE  LET w == m_TimerEachData[k]
                   s == m_TimerTotalData
               IN /\ Len(w) <= Len(s)
                  /\ \A i \in DOMAIN w : w[i].time = s[Len(s) - Len(w) + i].time
                  /\ \A i \in DOMAIN w : RealRows(w, m_EachTotalData[k])[i] >= 0
    <3>1. PICK w \in Seq(Entries), c \in Nat : w = m_TimerEachData[k] /\ c = m_EachTotalData[k]
      BY <2>1
    <3>2. \A i \in DOMAIN w : RealRows(w, c)[i] >= 0
      BY <2>2, <3>1, Differences
    <3>3. DOMAIN w = 1 .. Len(w)
      OBVIOUS
    <3> QED
      BY <2>2, <3>1, <3>2, <3>3 DEF InStep
  <2>4. ASSUME NEW i \in DOMAIN m_TimerTotalData
        PROVE  /\ RealRows(m_TimerTotalData, Total)[i] >= 0
               /\ SumAt(Len(m_TimerTotalData) - i + 1) <= m_TimerTotalData[i].count
    <3>1. RealRows(m_TimerTotalData, Total)[i] >= 0
      BY <2>1, Differences DEF WindowsInv, TotalInv
    <3>2. i \in 1 .. Len(m_TimerTotalData) /\ Len(m_TimerTotalData) \in Nat
      BY <2>1
    <3>3. PICK j \in 1 .. Len(m_TimerTotalData) : j = Len(m_TimerTotalData) - i + 1
      <4>1. Len(m_TimerTotalData) - i + 1 \in 1 .. Len(m_TimerTotalData)
        BY <3>2
      <4> QED
        BY <4>1, Zenon
    <3>4. Back(m_TimerTotalData, j) = m_TimerTotalData[i].count
      <4>1. Len(m_TimerTotalData) - j + 1 = i /\ j <= Len(m_TimerTotalData)
        BY <3>2, <3>3
      <4> QED
        BY <4>1 DEF Back
    <3>5. SumAt(j) = Sum(Row(j))
      <4>1. ASSUME NEW k \in Keys
            PROVE  (IF Len(m_TimerEachData[k]) - j >= 0
                    THEN m_TimerEachData[k][Len(m_TimerEachData[k]) - j + 1].count ELSE 0)
                   = Back(m_TimerEachData[k], IF Ahead(k) THEN j + 1 ELSE j)
        <5>1. Len(m_TimerEachData[k]) \in Nat /\ j \in Nat /\ ~Ahead(k)
          BY <2>1 DEF Ahead
        <5>2. Len(m_TimerEachData[k]) - j >= 0 <=> j <= Len(m_TimerEachData[k])
          BY <5>1
        <5> QED
          BY <5>1, <5>2 DEF Back
      <4>2. [k \in Keys |-> IF Len(m_TimerEachData[k]) - j >= 0
                            THEN m_TimerEachData[k][Len(m_TimerEachData[k]) - j + 1].count ELSE 0]
            = Row(j)
        BY <4>1 DEF Row
      <4> QED
        BY <4>2, Zenon DEF SumAt
    <3>6. Sum(Row(j)) <= Back(m_TimerTotalData, j)
      BY DEF WindowsInv, RowsInv
    <3> QED
      BY <3>1, <3>3, <3>4, <3>5, <3>6
  <2> QED
    BY <2>3, <2>4 DEF WindowsInStep
<1> QED
  BY <1>1, <1>2, <1>3, PTL DEF Spec

-----------------------------------------------------------------------------
(* The dates of the days, which the calendar makes follow each other.      *)
Days == 1 .. DayOf(LastTick)
IsDates(f, D) == f = [n \in D |-> IF n = 1 THEN FirstDay ELSE Tomorrow(f[n - 1])]

LEMMA DatesExist ==
  /\ DOMAIN DateOfDay = Days /\ DateOfDay[1] = FirstDay
  /\ \A n \in Days : n # 1 => DateOfDay[n] = Tomorrow(DateOfDay[n - 1])
<1> DEFINE N == {n \in Nat : \E f : IsDates(f, 1 .. n)}
<1>1. 0 \in N
  <2>1. 1 .. 0 = {}
    OBVIOUS
  <2>2. IsDates(<<>>, 1 .. 0)
    BY <2>1 DEF IsDates
  <2> QED
    BY <2>2
<1>2. ASSUME NEW n \in Nat, n \in N PROVE n + 1 \in N
  <2>1. PICK f : IsDates(f, 1 .. n)
    BY <1>2
  <2>2. \A i \in 1 .. n : f[i] = IF i = 1 THEN FirstDay ELSE Tomorrow(f[i - 1])
    BY <2>1 DEF IsDates
  <2> DEFINE g == [i \in 1 .. n + 1 |->
                     IF i \in 1 .. n THEN f[i] ELSE IF i = 1 THEN FirstDay ELSE Tomorrow(f[i - 1])]
  <2>3. ASSUME NEW i \in 1 .. n + 1
        PROVE  g[i] = IF i = 1 THEN FirstDay ELSE Tomorrow(g[i - 1])
    <3>1. g[i] = IF i = 1 THEN FirstDay ELSE Tomorrow(f[i - 1])
      BY <2>2
    <3>2. i # 1 => i - 1 \in 1 .. n /\ i - 1 \in 1 .. n + 1
      OBVIOUS
    <3>3. i # 1 => g[i - 1] = f[i - 1]
      BY <3>2
    <3> QED
      BY <3>1, <3>3
  <2>4. IsDates(g, 1 .. n + 1)
    <3>1. g = [i \in 1 .. n + 1 |-> g[i]]
      OBVIOUS
    <3> HIDE DEF g
    <3> QED
      BY <2>3, <3>1, Zenon DEF IsDates
  <2> QED
    BY <2>4
<1> HIDE DEF N
<1>3. DayOf(LastTick) \in Nat /\ DayOf(LastTick) >= 1
  BY DayTyped, StatisticAssumption
<1>4. \E f : IsDates(f, Days)
  BY <1>1, <1>2, <1>3, SetInduction DEF N, Days
<1>5. IsDates(CHOOSE f : IsDates(f, Days), Days)
  BY <1>4
<1>6. IsDates(DateOfDay, Days)
  BY <1>5 DEF IsDates, DateOfDay, Days
<1> QED
  BY <1>3, <1>6 DEF IsDates, Days

LEMMA DatesOnCalendar == \A n \in Days : OnCalendar(DateOfDay[n])
<1>1. DayOf(LastTick) \in Nat
  BY DayTyped, StatisticAssumption
<1> DEFINE N == {n \in Nat : n \in Days => OnCalendar(DateOfDay[n])}
<1>2. 0 \in N
  BY DEF Days
<1>3. ASSUME NEW n \in Nat, n \in N PROVE n + 1 \in N
  <2> SUFFICES ASSUME n + 1 \in Days PROVE OnCalendar(DateOfDay[n + 1])
    OBVIOUS
  <2>1. CASE n = 0
    <3>1. DateOfDay[n + 1] = FirstDay
      BY <2>1, DatesExist
    <3>2. OnCalendar(FirstDay)
      BY StatisticAssumption DEF IsDate, OnCalendar
    <3> QED
      BY <3>1, <3>2, Zenon
  <2>2. CASE n # 0
    <3>1. n \in Days /\ n + 1 # 1 /\ (n + 1) - 1 = n
      BY <1>1, <2>2 DEF Days
    <3>2. DateOfDay[n + 1] = Tomorrow(DateOfDay[n])
      BY <3>1, DatesExist
    <3>3. OnCalendar(DateOfDay[n])
      BY <1>3, <3>1
    <3> QED
      BY <3>2, <3>3, NextDate, Zenon
  <2> QED
    BY <2>1, <2>2
<1> HIDE DEF N
<1>4. \A n \in Nat : n \in N
  BY <1>2, <1>3, SetInduction
<1> QED
  BY <1>1, <1>4 DEF N, Days

LEMMA DatesInOrder == \A i, n \in Days : i < n => DateOfDay[i] < DateOfDay[n]
<1>1. DayOf(LastTick) \in Nat
  BY DayTyped, StatisticAssumption
<1>2. \A n \in Days : DateOfDay[n] \in Nat
  BY DatesOnCalendar DEF OnCalendar
<1> DEFINE N == {n \in Nat : n \in Days => \A i \in Days : i < n => DateOfDay[i] < DateOfDay[n]}
<1>3. 0 \in N
  BY DEF Days
<1>4. ASSUME NEW n \in Nat, n \in N PROVE n + 1 \in N
  <2> SUFFICES ASSUME n + 1 \in Days, NEW i \in Days, i < n + 1
               PROVE  DateOfDay[i] < DateOfDay[n + 1]
    OBVIOUS
  <2>1. n \in Days /\ n + 1 # 1 /\ (n + 1) - 1 = n
    BY <1>1 DEF Days
  <2>2. DateOfDay[n + 1] = Tomorrow(DateOfDay[n])
    BY <2>1, DatesExist
  <2>3. OnCalendar(DateOfDay[n])
    BY <2>1, DatesOnCalendar
  <2>4. DateOfDay[n] < DateOfDay[n + 1]
    BY <2>2, <2>3, NextDate, Zenon
  <2>5. CASE i = n
    BY <2>4, <2>5
  <2>6. CASE i # n
    <3>1. i < n
      BY <1>1, <2>6 DEF Days
    <3>2. DateOfDay[i] < DateOfDay[n]
      BY <1>4, <2>1, <3>1
    <3> QED
      BY <1>2, <2>1, <2>4, <3>2
  <2> QED
    BY <2>5, <2>6
<1> HIDE DEF N
<1>5. \A n \in Nat : n \in N
  BY <1>3, <1>4, SetInduction
<1> QED
  BY <1>1, <1>5 DEF N, Days

-----------------------------------------------------------------------------
(* The files of the days.  CountsOf(n) is what had been counted when day n *)
(* of the clock ended; of the present day, what has been counted so far.   *)
CountsOf(n) == IF n = DayOf(now) THEN m_EachTotalData ELSE midnight[DateOfDay[n]]

ClockInv ==
  /\ now <= LastTick
  /\ DOMAIN midnight = {DateOfDay[n] : n \in 1 .. DayOf(now) - 1}
  /\ \A n \in 1 .. DayOf(now) - 1 : midnight[DateOfDay[n]] \in Counts
  /\ \A n \in 1 .. DayOf(now) - 1 : \A k \in Keys : CountsOf(n)[k] <= CountsOf(n + 1)[k]

LEMMA DaysSoFar ==
  ASSUME Base, now <= LastTick
  PROVE  /\ DayOf(now) \in Days /\ 1 .. DayOf(now) \subseteq Days
         /\ \A i, n \in 1 .. DayOf(now) : i # n => DateOfDay[i] # DateOfDay[n]
<1>1. /\ DayOf(now) \in Nat /\ DayOf(now) >= 1 /\ DayOf(LastTick) \in Nat
      /\ DayOf(now) <= DayOf(LastTick)
  BY DayTyped, DaysInOrder, StatisticAssumption DEF Base, Types
<1>2. DayOf(now) \in Days /\ 1 .. DayOf(now) \subseteq Days
  BY <1>1 DEF Days
<1>3. ASSUME NEW i \in 1 .. DayOf(now), NEW n \in 1 .. DayOf(now), i # n
      PROVE  DateOfDay[i] # DateOfDay[n]
  <2>1. i \in Days /\ n \in Days /\ (i < n \/ n < i)
    BY <1>1, <1>2, <1>3
  <2>2. DateOfDay[i] < DateOfDay[n] \/ DateOfDay[n] < DateOfDay[i]
    BY <2>1, DatesInOrder
  <2>3. DateOfDay[i] \in Nat /\ DateOfDay[n] \in Nat
    BY <2>1, DatesOnCalendar DEF OnCalendar
  <2> QED
    BY <2>2, <2>3
<1> QED
  BY <1>2, <1>3

LEMMA CountsTyped ==
  ASSUME Base, ClockInv
  PROVE  \A n \in 1 .. DayOf(now) : CountsOf(n) \in Counts
<1> SUFFICES ASSUME NEW n \in 1 .. DayOf(now) PROVE CountsOf(n) \in Counts
  OBVIOUS
<1>1. DayOf(now) \in Nat
  BY DayTyped DEF Base, Types
<1>2. CASE n = DayOf(now)
  BY <1>2 DEF CountsOf, Base, Types
<1>3. CASE n # DayOf(now)
  <2>1. n \in 1 .. DayOf(now) - 1
    BY <1>1, <1>3
  <2> QED
    BY <1>3, <2>1 DEF CountsOf, ClockInv
<1> QED
  BY <1>2, <1>3

(* What a step changes of the counts of the days: only those of the        *)
(* present day grow.                                                       *)
DaysGrow ==
  /\ DayOf(now) <= DayOf(now')
  /\ \A n \in 1 .. DayOf(now) - 1 : CountsOf(n)' = CountsOf(n)
  /\ \A n \in 1 .. DayOf(now) : \A k \in Keys : CountsOf(n)[k] <= (CountsOf(n)')[k]

LEMMA DayAfter ==
  ASSUME Base, Base', Tick
  PROVE  /\ DayOf(now') \in Nat /\ DayOf(now) <= DayOf(now')
         /\ now + 1 = Midnight => DayOf(now') = DayOf(now) + 1
         /\ now + 1 # Midnight => DayOf(now') = DayOf(now)
<1>0. now \in Nat /\ now' \in Nat /\ DayOf(now) \in Nat /\ DayOf(now) >= 1
  BY DayTyped DEF Base, Types
<1>1. now' = now + 1
  BY DEF Tick
<1>2. Midnight = DayOf(now) * DayTicks /\ Midnight > now /\ Midnight \in Nat
  BY DayEndTyped DEF Base
<1>3. PICK t \in Nat : t = now'
  BY <1>0, <1>1
<1>4. DayOf(t) \in Nat /\ DayOf(now) <= DayOf(t)
  BY <1>0, <1>1, <1>3, DayTyped, DaysInOrder
<1>5. DayOf(now) * DayTicks <= t <=> DayOf(now) < DayOf(t)
  BY <1>0, DayBounds
<1>6. PICK n \in Nat : n = DayOf(now) + 1
  BY <1>0
<1>7. n * DayTicks \in Nat /\ (n * DayTicks <= t <=> n < DayOf(t))
  BY DayBounds
<1>8. n * DayTicks = DayOf(now) * DayTicks + DayTicks
  <2>1. PICK T \in Nat, a \in Nat : T = DayTicks /\ a = DayOf(now)
    BY <1>0, ConstantsTyped
  <2>2. (a + 1) * T = a * T + T
    OBVIOUS
  <2> QED
    BY <1>6, <2>1, <2>2
<1>9. n * DayTicks > t
  BY <1>0, <1>1, <1>2, <1>3, <1>8, ConstantsTyped
<1>10. DayOf(t) <= n
  BY <1>3, <1>4, <1>7, <1>9
<1>11. now + 1 = Midnight <=> DayOf(now) < DayOf(t)
  BY <1>0, <1>1, <1>2, <1>3, <1>5
<1>12. DayOf(now') = DayOf(t)
  BY <1>3
<1> QED
  BY <1>0, <1>4, <1>6, <1>10, <1>11, <1>12

LEMMA ClockNext == Base /\ ClockInv /\ [Next]_vars => ClockInv'
<1> SUFFICES ASSUME Base, ClockInv, [Next]_vars PROVE ClockInv'
  OBVIOUS
<1>1. /\ Base' /\ now \in Nat /\ DayOf(now) \in Nat /\ DayOf(now) >= 1 /\ m_EachTotalData \in Counts
  BY BaseNext, DayTyped DEF Base, Types
<1>2. CASE Tick
  <2>1. /\ now < LastTick /\ now' = now + 1 /\ m_EachTotalData' = m_EachTotalData
        /\ midnight' = IF now + 1 = Midnight THEN Put(midnight, today, m_EachTotalData) ELSE midnight
    BY <1>2 DEF Tick
  <2>2. Midnight = DayOf(now) * DayTicks /\ Midnight > now /\ Midnight \in Nat
    BY DayEndTyped DEF Base
  <2>3. /\ DayOf(now') \in Nat
        /\ now + 1 = Midnight => DayOf(now') = DayOf(now) + 1
        /\ now + 1 # Midnight => DayOf(now') = DayOf(now)
    BY <1>1, <1>2, DayAfter
  <2>4. now' <= LastTick
    BY <1>1, <2>1, StatisticAssumption
  <2>5. CASE now + 1 # Midnight
    <3>1. DayOf(now') = DayOf(now) /\ midnight' = midnight
      BY <2>1, <2>3, <2>5
    <3> QED
      BY <2>1, <2>4, <3>1 DEF ClockInv, CountsOf
  <2>6. CASE now + 1 = Midnight
    <3>1. PICK N \in Nat : N = DayOf(now) /\ N >= 1
      BY <1>1
    <3>2. DayOf(now') = N + 1 /\ midnight' = Put(midnight, DateOfDay[N], m_EachTotalData)
      BY <2>1, <2>3, <2>6, <3>1 DEF today, Date
    <3>3. 1 .. (N + 1) - 1 = 1 .. N /\ 1 .. N = (1 .. N - 1) \cup {N}
      BY <3>1
    <3>4. DOMAIN midnight = {DateOfDay[n] : n \in 1 .. N - 1}
      BY <3>1 DEF ClockInv
    <3>5. DOMAIN midnight' = {DateOfDay[n] : n \in 1 .. N}
      BY <3>2, <3>3, <3>4 DEF Put
    <3>6. \A n \in 1 .. N - 1 : DateOfDay[n] # DateOfDay[N] /\ DateOfDay[n] \in DOMAIN midnight
      BY <3>1, <3>3, <3>4, DaysSoFar DEF ClockInv
    <3>7. midnight'[DateOfDay[N]] = m_EachTotalData
      BY <3>2 DEF Put
    <3>8. \A n \in 1 .. N - 1 : midnight'[DateOfDay[n]] = midnight[DateOfDay[n]]
      BY <3>2, <3>6 DEF Put
    <3>9. \A n \in 1 .. N : midnight'[DateOfDay[n]] \in Counts
      BY <1>1, <3>1, <3>3, <3>7, <3>8 DEF ClockInv
    <3>10. \A n \in 1 .. N : CountsOf(n)' = CountsOf(n)
      <4>1. \A n \in 1 .. N : n # N + 1
        BY <3>1
      <4> QED
        BY <3>1, <3>2, <3>3, <3>7, <3>8, <4>1 DEF CountsOf
    <3>11. CountsOf(N + 1)' = m_EachTotalData /\ CountsOf(N) = m_EachTotalData
      BY <2>1, <3>1, <3>2 DEF CountsOf
    <3>12. ASSUME NEW n \in 1 .. N, NEW k \in Keys
           PROVE  (CountsOf(n)')[k] <= (CountsOf(n + 1)')[k]
      <4>1. CASE n = N
        <5>1. (CountsOf(n)')[k] = m_EachTotalData[k] /\ (CountsOf(n + 1)')[k] = m_EachTotalData[k]
          BY <3>10, <3>11, <4>1
        <5>2. m_EachTotalData[k] \in Nat
          BY <1>1 DEF Counts
        <5> QED
          BY <5>1, <5>2
      <4>2. CASE n # N
        <5>1. n \in 1 .. N - 1 /\ n + 1 \in 1 .. N
          BY <3>1, <4>2
        <5>2. CountsOf(n)[k] <= CountsOf(n + 1)[k]
          BY <3>1, <5>1 DEF ClockInv
        <5> QED
          BY <3>10, <5>1, <5>2
      <4> QED
        BY <4>1, <4>2
    <3> QED
      BY <2>4, <3>2, <3>3, <3>5, <3>9, <3>12 DEF ClockInv
  <2> QED
    BY <2>5, <2>6
<1>3. ASSUME NEW k \in Keys, write_data(k) PROVE ClockInv'
  <2>1. UNCHANGED <<now, midnight>>
    BY <1>3 DEF write_data, history
  <2>2. \A j \in Keys : m_EachTotalData[j] <= m_EachTotalData'[j]
    BY <1>3, WriteCounts, Zenon
  <2>3. DayOf(now') = DayOf(now)
    BY <2>1
  <2>4. ASSUME NEW n \in 1 .. DayOf(now) - 1, NEW j \in Keys
        PROVE  (CountsOf(n)')[j] <= (CountsOf(n + 1)')[j]
    <3>1. CountsOf(n)[j] <= CountsOf(n + 1)[j]
      BY DEF ClockInv
    <3>2. n # DayOf(now) /\ CountsOf(n)' = CountsOf(n)
      BY <1>1, <2>1, <2>3 DEF CountsOf
    <3>3. CASE n + 1 = DayOf(now)
      <4>1. CountsOf(n + 1) = m_EachTotalData /\ CountsOf(n + 1)' = m_EachTotalData'
        BY <2>3, <3>3 DEF CountsOf
      <4>2. /\ CountsOf(n)[j] \in Nat /\ m_EachTotalData[j] \in Nat /\ m_EachTotalData'[j] \in Nat
        <5>1. CountsOf(n) \in Counts
          BY <1>1, CountsTyped
        <5>2. m_EachTotalData' \in Counts
          BY <1>1 DEF Base, Types
        <5> QED
          BY <1>1, <5>1, <5>2 DEF Counts
      <4>3. CountsOf(n)[j] <= m_EachTotalData'[j]
        BY <2>2, <3>1, <4>1, <4>2
      <4> QED
        BY <3>2, <4>1, <4>3
    <3>4. CASE n + 1 # DayOf(now)
      <4>1. CountsOf(n + 1)' = CountsOf(n + 1)
        BY <2>1, <2>3, <3>4 DEF CountsOf
      <4> QED
        BY <3>1, <3>2, <4>1
    <3> QED
      BY <3>3, <3>4
  <2> QED
    BY <2>1, <2>3, <2>4 DEF ClockInv
<1>4. CASE UNCHANGED <<now, midnight, m_EachTotalData>>
  <2>1. DayOf(now') = DayOf(now)
    BY <1>4
  <2> QED
    BY <1>4, <2>1 DEF ClockInv, CountsOf
<1>5. init_server \/ Look \/ timer_day \/ Kill => <1>4!1
  BY DEF init_server, Look, timer_day, Kill, history
<1>6. VisitDevice \/ AddToTotal \/ EndStatistic \/ WriteLine \/ WriteTotal => <1>4!1
  BY DEF VisitDevice, AddToTotal, EndStatistic, WriteLine, WriteTotal, history
<1>7. (\E r \in Ranges : QueryDays(r)) => <1>4!1
  BY DEF QueryDays, history
<1>8. UNCHANGED vars => <1>4!1
  BY DEF vars, history
<1> QED
  BY <1>2, <1>3, <1>4, <1>5, <1>6, <1>7, <1>8 DEF Next

LEMMA GrowNext == Base /\ ClockInv /\ [Next]_vars => DaysGrow
<1> SUFFICES ASSUME Base, ClockInv, [Next]_vars PROVE DaysGrow
  OBVIOUS
<1>1. /\ Base' /\ now \in Nat /\ DayOf(now) \in Nat /\ DayOf(now) >= 1
      /\ \A n \in 1 .. DayOf(now) : CountsOf(n) \in Counts
  BY BaseNext, DayTyped, CountsTyped DEF Base, Types
<1>2. \A n \in 1 .. DayOf(now) : \A k \in Keys : CountsOf(n)[k] <= CountsOf(n)[k]
  BY <1>1 DEF Counts
<1>3. CASE Tick
  <2>1. /\ m_EachTotalData' = m_EachTotalData
        /\ midnight' = IF now + 1 = Midnight THEN Put(midnight, today, m_EachTotalData) ELSE midnight
    BY <1>3 DEF Tick
  <2>2. PICK N \in Nat : N = DayOf(now)
    BY <1>1
  <2>3. /\ N <= DayOf(now') /\ DayOf(now') \in Nat
        /\ now + 1 = Midnight => DayOf(now') = N + 1
        /\ now + 1 # Midnight => DayOf(now') = N
    BY <1>1, <1>3, <2>2, DayAfter
  <2>4. ASSUME NEW n \in 1 .. N - 1
        PROVE  CountsOf(n)' = CountsOf(n)
    <3>1. n # N /\ n # DayOf(now') /\ n \in 1 .. DayOf(now) /\ N \in 1 .. DayOf(now)
      BY <1>1, <2>2, <2>3
    <3>2. DateOfDay[n] # DateOfDay[N] /\ DateOfDay[n] \in DOMAIN midnight
      BY <2>2, <3>1, DaysSoFar DEF ClockInv
    <3>3. midnight'[DateOfDay[n]] = midnight[DateOfDay[n]]
      BY <2>1, <2>2, <3>2 DEF Put, today, Date
    <3> QED
      BY <2>2, <3>1, <3>3 DEF CountsOf
  <2>5. CountsOf(N)' = CountsOf(N)
    <3>1. CountsOf(N) = m_EachTotalData
      BY <2>2 DEF CountsOf
    <3>2. CASE now + 1 # Midnight
      BY <2>1, <2>3, <3>1, <3>2 DEF CountsOf
    <3>3. CASE now + 1 = Midnight
      <4>1. midnight'[DateOfDay[N]] = m_EachTotalData
        BY <2>1, <2>2, <3>3 DEF Put, today, Date
      <4>2. DayOf(now') # N
        BY <2>3, <3>3
      <4> QED
        BY <3>1, <4>1, <4>2 DEF CountsOf
    <3> QED
      BY <3>2, <3>3
  <2>6. ASSUME NEW n \in 1 .. N PROVE CountsOf(n)' = CountsOf(n)
    <3>1. n = N \/ n \in 1 .. N - 1
      OBVIOUS
    <3> QED
      BY <2>4, <2>5, <3>1
  <2> QED
    BY <1>2, <2>2, <2>3, <2>4, <2>6 DEF DaysGrow
<1>4. ASSUME NEW k \in Keys, write_data(k) PROVE DaysGrow
  <2>1. UNCHANGED <<now, midnight>>
    BY <1>4 DEF write_data, history
  <2>2. \A j \in Keys : m_EachTotalData[j] <= m_EachTotalData'[j]
    BY <1>4, WriteCounts, Zenon
  <2>3. DayOf(now') = DayOf(now)
    BY <2>1
  <2>4. \A n \in 1 .. DayOf(now) : n # DayOf(now) => CountsOf(n)' = CountsOf(n)
    BY <2>1, <2>3 DEF CountsOf
  <2>5. ASSUME NEW n \in 1 .. DayOf(now), NEW j \in Keys
        PROVE  CountsOf(n)[j] <= (CountsOf(n)')[j]
    <3>1. CASE n # DayOf(now)
      BY <1>2, <2>4, <3>1
    <3>2. CASE n = DayOf(now)
      <4>1. CountsOf(n) = m_EachTotalData /\ CountsOf(n)' = m_EachTotalData'
        BY <2>3, <3>2 DEF CountsOf
      <4> QED
        BY <2>2, <4>1
    <3> QED
      BY <3>1, <3>2
  <2>6. \A n \in 1 .. DayOf(now) - 1 : n \in 1 .. DayOf(now) /\ n # DayOf(now)
    BY <1>1
  <2> QED
    BY <1>1, <2>3, <2>4, <2>5, <2>6 DEF DaysGrow
<1>5. CASE UNCHANGED <<now, midnight, m_EachTotalData>>
  <2>1. DayOf(now') = DayOf(now)
    BY <1>5
  <2>2. \A n \in 1 .. DayOf(now) : CountsOf(n)' = CountsOf(n)
    BY <1>5, <2>1 DEF CountsOf
  <2>3. \A n \in 1 .. DayOf(now) - 1 : n \in 1 .. DayOf(now)
    BY <1>1
  <2> QED
    BY <1>1, <1>2, <2>1, <2>2, <2>3 DEF DaysGrow
<1>6. init_server \/ Look \/ timer_day \/ Kill => <1>5!1
  BY DEF init_server, Look, timer_day, Kill, history
<1>7. VisitDevice \/ AddToTotal \/ EndStatistic \/ WriteLine \/ WriteTotal => <1>5!1
  BY DEF VisitDevice, AddToTotal, EndStatistic, WriteLine, WriteTotal, history
<1>8. (\E r \in Ranges : QueryDays(r)) => <1>5!1
  BY DEF QueryDays, history
<1>9. UNCHANGED vars => <1>5!1
  BY DEF vars, history
<1> QED
  BY <1>3, <1>4, <1>5, <1>6, <1>7, <1>8, <1>9 DEF Next

(* A file that is complete, given the counts when its day ended and when   *)
(* the day after it did.                                                   *)
Sound(f, low, high) ==
  f.total # NoTotal => /\ Sum(low) <= f.total /\ f.total <= Sum(high)
                       /\ Sum(f.each) <= f.total

(* The lines of the devices the thread has written and added.              *)
LinesAdded == [k \in Keys |-> IF k \in left \cup {key} THEN 0 ELSE dayFile[FileDate].each[k]]

FilesSound == \A d \in DOMAIN dayFile : \E n \in 1 .. DayOf(now) - 1 :
                /\ d = DateOfDay[n]
                /\ Sound(dayFile[d], CountsOf(n), CountsOf(n + 1))

FileInv ==
  /\ FilesSound
  /\ pc = "day" => /\ dayFile[FileDate].total = NoTotal
                   /\ \A k \in Keys : dayFile[FileDate].each[k] <= m_EachTotalData[k]
                   /\ Sum(LinesAdded) <= totalNum
                   /\ \E n \in Nat \ {0} : /\ n + 1 = DayOf(now)
                                          /\ Sum(CountsOf(n)) <= totalNum + Sum(ToAdd)

DayBase == Base /\ AddInv /\ MidnightInv /\ ClockInv

LEMMA FilesPrimed ==
  /\ (Sum(LinesAdded))' = Sum(LinesAdded')
  /\ \A n \in Nat : (Sum(CountsOf(n)))' = Sum(CountsOf(n)')
BY DEF Sum, MapThenSumSet, MapThenFoldSet

LEMMA SoundPrimed ==
  ASSUME NEW d, NEW n \in Nat
  PROVE  Sound(dayFile[d], CountsOf(n), CountsOf(n + 1))'
           <=> Sound(dayFile'[d], CountsOf(n)', CountsOf(n + 1)')
BY DEF Sound, Sum, MapThenSumSet, MapThenFoldSet

(* A file that is not written stays sound.                                 *)
LEMMA SoundStays ==
  ASSUME DayBase, DayBase', DaysGrow, NEW d \in DOMAIN dayFile, NEW n \in 1 .. DayOf(now) - 1,
         Sound(dayFile[d], CountsOf(n), CountsOf(n + 1)), dayFile'[d] = dayFile[d]
  PROVE  /\ n \in 1 .. DayOf(now') - 1
         /\ Sound(dayFile[d], CountsOf(n), CountsOf(n + 1))'
<1>1. /\ DayOf(now) \in Nat /\ DayOf(now') \in Nat /\ DayOf(now) <= DayOf(now')
  <2>1. PICK t \in Nat : t = now'
    BY DEF DayBase, Base, Types
  <2>2. DayOf(t) \in Nat /\ DayOf(now) \in Nat
    BY DayTyped DEF DayBase, Base, Types
  <2> QED
    BY <2>1, <2>2 DEF DaysGrow
<1>2. n \in 1 .. DayOf(now') - 1 /\ n + 1 \in 1 .. DayOf(now) /\ n \in 1 .. DayOf(now)
      /\ n + 1 \in 1 .. DayOf(now')
  BY <1>1
<1>3. CountsOf(n)' = CountsOf(n)
  BY DEF DaysGrow
<1>4. PICK a \in Counts, b \in Counts, f \in DayFiles :
         a = CountsOf(n + 1) /\ b = CountsOf(n + 1)' /\ f = dayFile[d]
  <2>1. CountsOf(n + 1) \in Counts
    BY <1>2, CountsTyped DEF DayBase
  <2>2. CountsOf(n + 1)' \in Counts
    <3>1. CASE n + 1 = DayOf(now')
      <4>1. CountsOf(n + 1)' = m_EachTotalData'
        BY <3>1 DEF CountsOf
      <4> QED
        BY <4>1 DEF DayBase, Base, Types
    <3>2. CASE n + 1 # DayOf(now')
      <4>1. n + 1 \in 1 .. DayOf(now') - 1
        BY <1>1, <1>2, <3>2
      <4>2. CountsOf(n + 1)' = midnight'[DateOfDay[n + 1]]
        BY <3>2 DEF CountsOf
      <4> QED
        BY <4>1, <4>2 DEF DayBase, ClockInv
    <3> QED
      BY <3>1, <3>2
  <2>3. dayFile[d] \in DayFiles
    BY DEF DayBase, Base, Types
  <2> QED
    BY <2>1, <2>2, <2>3, Zenon
<1>5. \A k \in Keys : a[k] <= b[k]
  BY <1>2, <1>4 DEF DaysGrow
<1>6. Sum(a) <= Sum(b) /\ Sum(a) \in Nat /\ Sum(b) \in Nat
  BY <1>5, SumMonotone, SumNat
<1>7. Sound(f, CountsOf(n), b)
  <2>1. f.total \in Nat \cup {NoTotal}
    BY DEF DayFiles
  <2>2. Sound(f, CountsOf(n), a)
    BY <1>4, Zenon
  <2> QED
    BY <1>6, <2>1, <2>2 DEF Sound
<1>8. Sound(dayFile'[d], CountsOf(n)', CountsOf(n + 1)')
  BY <1>3, <1>4, <1>7, Zenon
<1>9. n \in Nat
  OBVIOUS
<1> QED
  BY <1>2, <1>8, <1>9, SoundPrimed

(* The days' files, when none or that of FileDate was written.             *)
LEMMA FilesStay ==
  ASSUME DayBase, DayBase', DaysGrow, FileInv, dayFile' = dayFile
  PROVE  FilesSound'
<1> SUFFICES ASSUME NEW d \in DOMAIN dayFile
             PROVE  \E n \in 1 .. DayOf(now') - 1 :
                      /\ d = DateOfDay[n]
                      /\ Sound(dayFile[d], CountsOf(n), CountsOf(n + 1))'
  BY DEF FilesSound
<1>1. PICK n \in 1 .. DayOf(now) - 1 :
         d = DateOfDay[n] /\ Sound(dayFile[d], CountsOf(n), CountsOf(n + 1))
  BY DEF FileInv, FilesSound
<1>2. dayFile'[d] = dayFile[d]
  OBVIOUS
<1> QED
  BY <1>1, <1>2, SoundStays

LEMMA FilesWritten ==
  ASSUME DayBase, DayBase', DaysGrow, FileInv, DayOf(now) > 1, lTime = now, now' = now,
         DOMAIN dayFile' \subseteq DOMAIN dayFile \cup {FileDate},
         \A d \in DOMAIN dayFile \ {FileDate} : dayFile'[d] = dayFile[d],
         \A n \in Nat : n + 1 = DayOf(now) =>
           Sound(dayFile'[FileDate], CountsOf(n)', CountsOf(n + 1)')
  PROVE  FilesSound'
<1>1. DayOf(now) \in Nat /\ DayOf(now') = DayOf(now)
  BY DayTyped DEF DayBase, Base, Types
<1> SUFFICES ASSUME NEW d \in DOMAIN dayFile'
             PROVE  \E n \in 1 .. DayOf(now') - 1 :
                      /\ d = DateOfDay[n]
                      /\ Sound(dayFile[d], CountsOf(n), CountsOf(n + 1))'
  BY DEF FilesSound
<1>2. CASE d = FileDate
  <2>1. PICK n \in Nat : n + 1 = DayOf(now) /\ n = DayOf(now) - 1
    BY <1>1
  <2>2. n \in 1 .. DayOf(now') - 1 /\ d = DateOfDay[n]
    BY <1>1, <1>2, <2>1 DEF FileDate
  <2>3. Sound(dayFile'[d], CountsOf(n)', CountsOf(n + 1)')
    BY <1>2, <2>1
  <2>4. Sound(dayFile[d], CountsOf(n), CountsOf(n + 1))'
    BY <2>3, SoundPrimed
  <2> QED
    BY <2>2, <2>4
<1>3. CASE d # FileDate
  <2>1. d \in DOMAIN dayFile /\ dayFile'[d] = dayFile[d]
    BY <1>3
  <2>2. PICK n \in 1 .. DayOf(now) - 1 :
           d = DateOfDay[n] /\ Sound(dayFile[d], CountsOf(n), CountsOf(n + 1))
    BY <2>1 DEF FileInv, FilesSound
  <2> QED
    BY <2>1, <2>2, SoundStays
<1> QED
  BY <1>2, <1>3

LEMMA FileNext == DayBase /\ DayBase' /\ FileInv /\ [Next]_vars => FileInv'
<1> SUFFICES ASSUME DayBase, DayBase', FileInv, [Next]_vars PROVE FileInv'
  OBVIOUS
<1>1. DaysGrow
  BY GrowNext DEF DayBase
<1>2. /\ Base /\ Base' /\ now \in Nat /\ lTime \in Nat /\ DayOf(now) \in Nat /\ DayOf(now) >= 1
      /\ totalNum \in Nat /\ totalNum' \in Nat
      /\ \A k \in Keys : m_EachTotalData[k] \in Nat /\ m_EachTotalData'[k] \in Nat
      /\ NoKey \notin Keys
  BY DayTyped, ConstantsTyped DEF DayBase, Base, Types, Counts
<1>3. Total \in Nat /\ Sum(ToAdd) \in Nat /\ totalNum + Sum(ToAdd) <= Total
  BY <1>2, Counting DEF DayBase, AddInv
<1>4. dayFile' = dayFile => FilesSound'
  BY <1>1, FilesStay
<1>5. CASE pc' # "day" /\ dayFile' = dayFile
  BY <1>4, <1>5 DEF FileInv
<1>6. ASSUME pc = "day"
      PROVE  /\ lTime = now /\ FileDate \in DOMAIN dayFile /\ dayFile[FileDate] \in DayFiles
             /\ dayFile[FileDate].total = NoTotal
             /\ \A k \in Keys : dayFile[FileDate].each[k] \in Nat
             /\ LinesAdded \in Counts
             /\ \A k \in Keys : dayFile[FileDate].each[k] <= m_EachTotalData[k]
             /\ Sum(LinesAdded) <= totalNum
  <2>1. lTime = now /\ FileDate \in DOMAIN dayFile
    BY <1>6 DEF DayBase, Base, Control, MidnightInv
  <2>2. dayFile[FileDate] \in DayFiles
    BY <2>1 DEF DayBase, Base, Types
  <2>3. \A k \in Keys : dayFile[FileDate].each[k] \in Nat
    BY <2>2 DEF DayFiles, Counts
  <2>4. LinesAdded \in Counts
    BY <2>3 DEF LinesAdded, Counts
  <2> QED
    BY <1>6, <2>1, <2>2, <2>3, <2>4 DEF FileInv
<1>7. ASSUME pc = "day"
      PROVE  \E n \in Nat \ {0} : /\ n + 1 = DayOf(now) /\ CountsOf(n) \in Counts
                                 /\ CountsOf(n)' = CountsOf(n)
                                 /\ (Sum(CountsOf(n)))' = Sum(CountsOf(n))
                                 /\ Sum(CountsOf(n)) <= totalNum + Sum(ToAdd)
                                 /\ Sum(CountsOf(n)) \in Nat
  <2>1. PICK n \in Nat \ {0} : n + 1 = DayOf(now) /\ Sum(CountsOf(n)) <= totalNum + Sum(ToAdd)
    BY <1>7 DEF FileInv
  <2>2. n \in 1 .. DayOf(now) - 1 /\ n \in 1 .. DayOf(now) /\ n \in Nat
    BY <2>1
  <2>3. CountsOf(n) \in Counts
    BY <1>2, <2>2, CountsTyped DEF DayBase
  <2>4. CountsOf(n)' = CountsOf(n)
    BY <1>1, <2>2 DEF DaysGrow
  <2>5. (Sum(CountsOf(n)))' = Sum(CountsOf(n))
    BY <2>2, <2>4, FilesPrimed
  <2>6. Sum(CountsOf(n)) \in Nat
    BY <2>3, SumNat
  <2> QED
    BY <2>1, <2>3, <2>4, <2>5, <2>6
<1>8. ASSUME pc = "day", pc' = "day", now' = now,
             totalNum + Sum(ToAdd) <= totalNum' + (Sum(ToAdd))', (Sum(ToAdd))' \in Nat
      PROVE  \E n \in Nat \ {0} : /\ n + 1 = DayOf(now')
                                 /\ (Sum(CountsOf(n)))' <= totalNum' + (Sum(ToAdd))'
  <2>1. PICK n \in Nat \ {0} : /\ n + 1 = DayOf(now)
                              /\ (Sum(CountsOf(n)))' = Sum(CountsOf(n))
                              /\ Sum(CountsOf(n)) <= totalNum + Sum(ToAdd)
                              /\ Sum(CountsOf(n)) \in Nat
    BY <1>7, <1>8
  <2>2. DayOf(now') = DayOf(now)
    BY <1>8
  <2>3. Sum(CountsOf(n)) <= totalNum' + (Sum(ToAdd))'
    BY <1>2, <1>3, <1>8, <2>1
  <2> QED
    BY <2>1, <2>2, <2>3
<1>9. (Sum(ToAdd))' \in Nat
  <2>1. ToAdd' \in Counts
    BY <1>2 DEF Base, Types, ToAdd, Counts
  <2>2. PICK c \in Counts : c = ToAdd'
    BY <2>1
  <2> QED
    BY <2>2, SumNat, SumsPrimed
<1>10. ASSUME NEW k \in Keys, write_data(k) PROVE FileInv'
  <2>1. UNCHANGED <<now, lTime, dayFile, pc, key, totalNum>>
    BY <1>10 DEF write_data, history
  <2>2. left' = left \/ (k \notin Counted /\ left' = left \cup {k})
    BY <1>2, <1>10, WriteCounts, Zenon
  <2>3. \A j \in Keys : m_EachTotalData[j] <= m_EachTotalData'[j]
    BY <1>2, <1>10, WriteCounts, Zenon
  <2>4. Sum(ToAdd) <= (Sum(ToAdd))'
    BY <1>2, <1>10, WriteCounts, Zenon
  <2>5. CASE pc # "day"
    BY <1>5, <2>1, <2>5
  <2>6. CASE pc = "day"
    <3>1. FileDate' = FileDate
      BY <2>1 DEF FileDate
    <3>2. \A j \in Keys : dayFile[FileDate].each[j] <= m_EachTotalData'[j]
      BY <1>2, <1>6, <2>3, <2>6
    <3>3. PICK c \in Counts, d \in Counts : c = LinesAdded /\ d = LinesAdded'
      <4>1. LinesAdded' \in Counts
        BY <1>6, <2>1, <2>6, <3>1 DEF LinesAdded, Counts
      <4> QED
        BY <1>6, <2>6, <4>1
    <3>4. ASSUME NEW j \in Keys PROVE d[j] <= c[j]
      <4>1. j \in left \cup {key} => j \in left' \cup {key'}
        BY <2>1, <2>2
      <4>2. d[j] = c[j] \/ d[j] = 0
        BY <2>1, <3>1, <3>3, <4>1 DEF LinesAdded
      <4>3. c[j] \in Nat
        BY DEF Counts
      <4> QED
        BY <4>2, <4>3
    <3>5. Sum(d) <= Sum(c) /\ Sum(d) \in Nat /\ Sum(c) \in Nat
      BY <3>4, SumMonotone, SumNat
    <3>6. (Sum(LinesAdded))' <= totalNum'
      BY <1>2, <1>6, <2>1, <2>6, <3>3, <3>5, FilesPrimed
    <3>7. totalNum + Sum(ToAdd) <= totalNum' + (Sum(ToAdd))'
      BY <1>2, <1>3, <1>9, <2>1, <2>4
    <3>8. \E n \in Nat \ {0} : n + 1 = DayOf(now') /\ (Sum(CountsOf(n)))' <= totalNum' + (Sum(ToAdd))'
      BY <1>8, <1>9, <2>1, <2>6, <3>7
    <3>9. dayFile[FileDate].total = NoTotal
      BY <1>6, <2>6
    <3> QED
      BY <1>4, <2>1, <3>1, <3>2, <3>6, <3>8, <3>9 DEF FileInv
  <2> QED
    BY <2>5, <2>6
<1>11. CASE timer_day
  <2>1. /\ pc = "timer_day" /\ lTime = now /\ key = NoKey /\ totalNum = 0
        /\ UNCHANGED <<now, m_EachTotalData, lTime, key, totalNum>> /\ FileDate' = FileDate
    BY <1>11 DEF timer_day, FileDate, DayBase, Base, Control
  <2>2. CASE pc' # "day"
    <3>1. dayFile' = dayFile
      BY <1>11, <2>2 DEF timer_day
    <3> QED
      BY <1>5, <2>2, <3>1
  <2>3. CASE pc' = "day"
    <3>1. /\ DayEnd <= lTime /\ left' = Counted
          /\ dayFile' = Put(dayFile, FileDate, [each |-> NoLines, total |-> NoTotal])
      BY <1>11, <2>3 DEF timer_day
    <3>2. DayOf(now) > 1
      <4>1. DayEnd = nextTime /\ nextTime # 0
        <5>1. Midnight > now /\ Midnight \in Nat
          BY <1>2, DayEndTyped DEF Base
        <5> QED
          BY <1>2, <2>1, <3>1, <5>1 DEF DayEnd
      <4>2. PICK n \in since .. DayOf(lTime) : nextTime = n * DayTicks
        BY <4>1 DEF DayBase, MidnightInv
      <4>3. n \in Nat /\ n >= 1
        <5>1. since \in Nat /\ since # 0
          BY <2>1 DEF DayBase, MidnightInv, Base, Types
        <5> QED
          BY <1>2, <2>1, <4>2, <5>1
      <4>4. n < DayOf(lTime)
        BY <1>2, <3>1, <4>1, <4>2, <4>3, DayBounds
      <4> QED
        BY <1>2, <2>1, <4>3, <4>4
    <3>3. /\ DOMAIN dayFile' = DOMAIN dayFile \cup {FileDate}
          /\ dayFile'[FileDate] = [each |-> NoLines, total |-> NoTotal]
          /\ \A d \in DOMAIN dayFile \ {FileDate} : dayFile'[d] = dayFile[d]
      BY <3>1 DEF Put
    <3>4. dayFile'[FileDate].total = NoTotal /\ \A k \in Keys : dayFile'[FileDate].each[k] = 0
      BY <3>3 DEF NoLines
    <3>5. \A low, high : Sound(dayFile'[FileDate], low, high)
      BY <3>4 DEF Sound
    <3>6. FilesSound'
      BY <1>1, <1>2, <2>1, <3>2, <3>3, <3>5, FilesWritten
    <3>7. \A k \in Keys : dayFile'[FileDate].each[k] <= m_EachTotalData'[k]
      BY <1>2, <3>4
    <3>8. (Sum(LinesAdded))' <= totalNum'
      <4>0. LinesAdded' = [k \in Keys |-> IF k \in left' \cup {key'} THEN 0
                                         ELSE dayFile'[FileDate].each[k]]
        BY <2>1 DEF LinesAdded
      <4>1. PICK d \in Counts : d = LinesAdded'
        <5>1. LinesAdded' \in Counts
          BY <3>4, <4>0 DEF Counts
        <5> QED
          BY <5>1
      <4>2. \A k \in Keys : d[k] = 0
        BY <3>4, <4>0, <4>1
      <4>3. Sum(d) = 0
        BY <4>2, SumZero
      <4> QED
        BY <2>1, <4>1, <4>3, FilesPrimed
    <3>9. (Sum(ToAdd))' = Total
      BY <1>2, <2>1, <3>1, StartCounts
    <3>10. PICK n \in Nat \ {0} : n + 1 = DayOf(now)
      <4>1. DayOf(now) - 1 \in Nat \ {0} /\ (DayOf(now) - 1) + 1 = DayOf(now)
        BY <1>2, <3>2
      <4> QED
        BY <4>1, Zenon
    <3>11. n \in 1 .. DayOf(now) - 1 /\ n \in 1 .. DayOf(now) /\ n \in Nat
      BY <3>10
    <3>12. Sum(CountsOf(n)) <= Total
      <4>1. CountsOf(n) \in Counts /\ m_EachTotalData \in Counts
        BY <1>2, <3>11, CountsTyped DEF DayBase, Base, Types
      <4>2. CountsOf(n + 1) = m_EachTotalData
        BY <3>10 DEF CountsOf
      <4>3. \A k \in Keys : CountsOf(n)[k] <= m_EachTotalData[k]
        BY <3>11, <4>2 DEF DayBase, ClockInv
      <4> QED
        BY <4>1, <4>3, SumMonotone DEF Total
    <3>13. (Sum(CountsOf(n)))' = Sum(CountsOf(n))
      <4>1. CountsOf(n)' = CountsOf(n)
        BY <1>1, <3>11 DEF DaysGrow
      <4> QED
        BY <3>11, <4>1, FilesPrimed
    <3>14. (Sum(CountsOf(n)))' <= totalNum' + (Sum(ToAdd))'
      BY <1>3, <2>1, <3>9, <3>12, <3>13
    <3>15. n + 1 = DayOf(now')
      BY <2>1, <3>10
    <3> QED
      BY <2>1, <3>4, <3>6, <3>7, <3>8, <3>14, <3>15 DEF FileInv
  <2> QED
    BY <2>2, <2>3
<1>12. CASE WriteLine
  <2>1. PICK k \in left :
           /\ dayFile' = [dayFile EXCEPT ![FileDate].each[k] = m_EachTotalData[k]]
           /\ left' = left \ {k} /\ key' = k
    BY <1>12 DEF WriteLine
  <2>2. /\ pc = "day" /\ pc' = "day" /\ key = NoKey
        /\ UNCHANGED <<now, m_EachTotalData, lTime, totalNum>> /\ FileDate' = FileDate
    BY <1>12 DEF WriteLine, FileDate, history
  <2>3. left \subseteq Keys /\ k \in Keys /\ k # NoKey
    BY <1>2 DEF Base, Types
  <2>4. /\ DOMAIN dayFile' = DOMAIN dayFile
        /\ \A d \in DOMAIN dayFile \ {FileDate} : dayFile'[d] = dayFile[d]
        /\ dayFile'[FileDate] = [dayFile[FileDate] EXCEPT !.each[k] = m_EachTotalData[k]]
    BY <1>2, <1>6, <2>1, <2>2 DEF Base, Types
  <2>5. PICK f \in DayFiles : f = dayFile[FileDate]
    BY <1>6, <2>2
  <2>6. /\ dayFile'[FileDate].total = NoTotal
        /\ dayFile'[FileDate].each = [f.each EXCEPT ![k] = m_EachTotalData[k]]
    <3>1. f = dayFile[FileDate] /\ f.total = NoTotal
      BY <1>6, <2>2, <2>5
    <3> QED
      BY <2>4, <2>5, <3>1 DEF DayFiles
  <2>7. \A j \in Keys : dayFile'[FileDate].each[j]
                          = IF j = k THEN m_EachTotalData[k] ELSE dayFile[FileDate].each[j]
    <3>1. f.each \in [Keys -> Nat]
      BY DEF DayFiles, Counts
    <3> QED
      BY <2>5, <2>6, <3>1
  <2>8. \A low, high : Sound(dayFile'[FileDate], low, high)
    BY <2>6 DEF Sound
  <2>9. lTime = now /\ DayOf(now) > 1
    <3>1. \E n \in Nat \ {0} : n + 1 = DayOf(now)
      BY <1>7, <2>2
    <3> QED
      BY <1>6, <2>2, <3>1
  <2>10. FilesSound'
    BY <1>1, <2>2, <2>4, <2>8, <2>9, FilesWritten
  <2>11. \A j \in Keys : dayFile'[FileDate].each[j] <= m_EachTotalData'[j]
    <3> SUFFICES ASSUME NEW j \in Keys
                 PROVE  dayFile'[FileDate].each[j] <= m_EachTotalData'[j]
      OBVIOUS
    <3>1. m_EachTotalData[j] \in Nat /\ m_EachTotalData[k] \in Nat
      BY <1>2, <2>3
    <3>2. dayFile[FileDate].each[j] <= m_EachTotalData[j]
      BY <1>6, <2>2
    <3> QED
      BY <2>2, <2>7, <3>1, <3>2
  <2>12. LinesAdded' = LinesAdded
    <3>1. LinesAdded' = [j \in Keys |-> IF j \in left' \cup {key'} THEN 0
                                       ELSE dayFile'[FileDate].each[j]]
      BY <2>2 DEF LinesAdded
    <3>2. ASSUME NEW j \in Keys PROVE j \in left' \cup {key'} <=> j \in left \cup {key}
      BY <1>2, <2>1, <2>2
    <3>3. ASSUME NEW j \in Keys, j \notin left \cup {key}
          PROVE  dayFile'[FileDate].each[j] = dayFile[FileDate].each[j]
      BY <2>7, <3>3
    <3> QED
      BY <3>1, <3>2, <3>3 DEF LinesAdded
  <2>13. (Sum(LinesAdded))' <= totalNum'
    BY <1>6, <2>2, <2>12, FilesPrimed
  <2>14. (Sum(ToAdd))' = Sum(ToAdd)
    BY <1>2, <2>1, <2>2, VisitCounts
  <2>15. totalNum + Sum(ToAdd) <= totalNum' + (Sum(ToAdd))'
    BY <1>2, <1>3, <2>2, <2>14
  <2>16. \E n \in Nat \ {0} : n + 1 = DayOf(now') /\ (Sum(CountsOf(n)))' <= totalNum' + (Sum(ToAdd))'
    BY <1>8, <1>9, <2>2, <2>15
  <2> QED
    BY <2>2, <2>6, <2>10, <2>11, <2>13, <2>16 DEF FileInv
<1>13. CASE AddToTotal
  <2>1. /\ pc' = pc /\ dayFile' = dayFile /\ key # NoKey /\ key' = NoKey
        /\ UNCHANGED <<now, m_EachTotalData, lTime, left>> /\ FileDate' = FileDate
    BY <1>13 DEF AddToTotal, FileDate, history
  <2>2. CASE pc # "day"
    BY <1>5, <2>1, <2>2
  <2>3. CASE pc = "day"
    <3>1. /\ key \in Keys /\ totalNum' = totalNum + m_EachTotalData[key]
          /\ totalNum + Sum(ToAdd) <= totalNum' + (Sum(ToAdd))'
      BY <1>2, <1>13, AddCounts DEF DayBase
    <3>2. LinesAdded' = [j \in Keys |-> IF j \in left \cup {NoKey} THEN 0
                                       ELSE dayFile[FileDate].each[j]]
      BY <2>1 DEF LinesAdded
    <3>3. LinesAdded' \in Counts
      BY <1>6, <2>3, <3>2 DEF Counts
    <3>4. PICK c \in Counts, d \in Counts : c = LinesAdded /\ d = LinesAdded'
      BY <1>6, <2>3, <3>3
    <3>5. \A j \in Keys : j # key => d[j] = c[j]
      BY <1>2, <3>2, <3>4 DEF LinesAdded
    <3>6. PICK x \in Keys : x = key
      BY <3>1
    <3>7. Sum(d) + c[x] = Sum(c) + d[x]
      BY <3>5, <3>6, SumChanged
    <3>8. c[x] = 0 /\ d[x] <= m_EachTotalData[x] /\ d[x] \in Nat
      <4>1. c[x] = 0
        BY <3>4, <3>6 DEF LinesAdded
      <4>2. d[x] = 0 \/ d[x] = dayFile[FileDate].each[x]
        BY <3>2, <3>4
      <4>3. dayFile[FileDate].each[x] <= m_EachTotalData[x] /\ m_EachTotalData[x] \in Nat
        BY <1>2, <1>6, <2>3
      <4>4. d[x] \in Nat
        BY DEF Counts
      <4> QED
        BY <4>1, <4>2, <4>3, <4>4
    <3>9. Sum(c) \in Nat /\ Sum(d) \in Nat /\ Sum(c) <= totalNum
      BY <1>6, <2>3, <3>4, SumNat
    <3>10. Sum(d) <= totalNum'
      <4>1. m_EachTotalData[x] \in Nat /\ totalNum' = totalNum + m_EachTotalData[x]
        BY <1>2, <3>1, <3>6
      <4> QED
        BY <1>2, <3>7, <3>8, <3>9, <4>1
    <3>11. (Sum(LinesAdded))' <= totalNum'
      BY <3>4, <3>10, FilesPrimed
    <3>12. \E n \in Nat \ {0} : n + 1 = DayOf(now') /\ (Sum(CountsOf(n)))' <= totalNum' + (Sum(ToAdd))'
      BY <1>8, <1>9, <2>1, <2>3, <3>1
    <3>13. \A j \in Keys : dayFile[FileDate].each[j] <= m_EachTotalData'[j]
      BY <1>6, <2>1, <2>3
    <3> QED
      BY <1>4, <1>6, <2>1, <2>3, <3>11, <3>12, <3>13 DEF FileInv
  <2> QED
    BY <2>2, <2>3
<1>14. CASE WriteTotal
  <2>1. /\ pc = "day" /\ pc' = "sleep" /\ key = NoKey /\ left = {}
        /\ dayFile' = [dayFile EXCEPT ![FileDate].total = totalNum]
        /\ UNCHANGED <<now, m_EachTotalData, lTime>>
    BY <1>14 DEF WriteTotal, history
  <2>2. /\ DOMAIN dayFile' = DOMAIN dayFile
        /\ \A d \in DOMAIN dayFile \ {FileDate} : dayFile'[d] = dayFile[d]
        /\ dayFile'[FileDate] = [dayFile[FileDate] EXCEPT !.total = totalNum]
    BY <1>2, <1>6, <2>1 DEF Base, Types
  <2>3. PICK f \in DayFiles : f = dayFile[FileDate]
    BY <1>6, <2>1
  <2>4. dayFile'[FileDate].total = totalNum /\ dayFile'[FileDate].each = f.each
    BY <2>2, <2>3 DEF DayFiles
  <2>5. Sum(f.each) <= totalNum
    <3>1. f.each \in Counts
      BY DEF DayFiles
    <3>2. LinesAdded = [j \in Keys |-> f.each[j]]
      BY <1>2, <2>1, <2>3 DEF LinesAdded
    <3>3. LinesAdded = f.each
      BY <3>1, <3>2 DEF Counts
    <3> QED
      BY <1>6, <2>1, <3>3
  <2>6. Sum(ToAdd) = 0
    <3>1. ToAdd \in Counts
      BY <1>2, Counting
    <3>2. \A j \in Keys : ToAdd[j] = 0
      BY <1>2, <2>1 DEF ToAdd
    <3> QED
      BY <3>1, <3>2, SumZero
  <2>7. lTime = now /\ DayOf(now) > 1
    <3>1. \E n \in Nat \ {0} : n + 1 = DayOf(now)
      BY <1>7, <2>1
    <3> QED
      BY <1>6, <2>1, <3>1
  <2>8. ASSUME NEW n \in Nat, n + 1 = DayOf(now)
        PROVE  Sound(dayFile'[FileDate], CountsOf(n)', CountsOf(n + 1)')
    <3>1. PICK i \in Nat \ {0} : /\ i + 1 = DayOf(now) /\ CountsOf(i)' = CountsOf(i)
                                /\ Sum(CountsOf(i)) <= totalNum + Sum(ToAdd)
                                /\ Sum(CountsOf(i)) \in Nat
      BY <1>7, <2>1
    <3>2. n = i
      BY <2>8, <3>1
    <3>3. Sum(CountsOf(n)) <= totalNum
      BY <1>2, <2>6, <3>1, <3>2
    <3>4. CountsOf(n + 1)' = m_EachTotalData
      BY <2>1, <2>8 DEF CountsOf
    <3>5. totalNum <= Sum(m_EachTotalData)
      BY <1>2, <1>3, <2>6 DEF Total
    <3>6. Sum(CountsOf(n)') <= totalNum /\ totalNum <= Sum(CountsOf(n + 1)')
      BY <3>1, <3>2, <3>3, <3>4, <3>5
    <3> QED
      BY <2>4, <2>5, <3>6 DEF Sound
  <2>9. FilesSound'
    BY <1>1, <2>1, <2>2, <2>7, <2>8, FilesWritten
  <2> QED
    BY <2>1, <2>9 DEF FileInv
<1>15. (Tick \/ init_server \/ Look \/ Kill \/ VisitDevice \/ EndStatistic) => FileInv'
  <2>1. (Tick \/ init_server \/ Look \/ Kill) => pc' # "day" /\ dayFile' = dayFile
    BY DEF Tick, init_server, Look, Kill
  <2>2. (VisitDevice \/ EndStatistic) => pc' # "day" /\ dayFile' = dayFile
    BY DEF VisitDevice, EndStatistic
  <2> QED
    BY <1>5, <2>1, <2>2
<1>16. ASSUME UNCHANGED <<now, m_EachTotalData, dayFile, pc, lTime, left, key, totalNum, midnight>>
       PROVE  FileInv'
  <2>1. CASE pc # "day"
    BY <1>5, <1>16, <2>1
  <2>2. CASE pc = "day"
    <3>1. FileDate' = FileDate /\ LinesAdded' = LinesAdded /\ ToAdd' = ToAdd
      BY <1>16 DEF FileDate, LinesAdded, ToAdd
    <3>2. (Sum(LinesAdded))' <= totalNum'
      BY <1>6, <1>16, <2>2, <3>1, FilesPrimed
    <3>3. (Sum(ToAdd))' = Sum(ToAdd)
      BY <3>1, SumsPrimed
    <3>4. totalNum + Sum(ToAdd) <= totalNum' + (Sum(ToAdd))'
      BY <1>2, <1>3, <1>16, <3>3
    <3>5. \E n \in Nat \ {0} : n + 1 = DayOf(now') /\ (Sum(CountsOf(n)))' <= totalNum' + (Sum(ToAdd))'
      BY <1>8, <1>9, <1>16, <2>2, <3>4
    <3>6. \A j \in Keys : dayFile[FileDate].each[j] <= m_EachTotalData'[j]
      BY <1>6, <1>16, <2>2
    <3> QED
      BY <1>4, <1>6, <1>16, <2>2, <3>1, <3>2, <3>5, <3>6 DEF FileInv
  <2> QED
    BY <2>1, <2>2
<1>17. (\E r \in Ranges : QueryDays(r)) => FileInv'
  BY <1>16 DEF QueryDays, scan, history
<1>18. UNCHANGED vars => FileInv'
  BY <1>16 DEF vars, scan, history
<1> QED
  BY <1>10, <1>11, <1>12, <1>13, <1>14, <1>15, <1>17, <1>18 DEF Next

LEMMA FileInit == Init => DayBase /\ FileInv
<1> SUFFICES ASSUME Init PROVE DayBase /\ FileInv
  OBVIOUS
<1>1. Base /\ AddInv
  BY BaseInit, AddInit
<1>2. /\ now = 0 /\ lTime = 0 /\ pc = "down" /\ nextTime = 0 /\ since = 0
      /\ dayFile = << >> /\ midnight = << >>
  BY DEF Init
<1>3. DayOf(0) = 1
  <2>1. PICK T \in Nat \ {0} : T = DayTicks
    BY ConstantsTyped
  <2>2. 0 \div T = 0
    OBVIOUS
  <2> QED
    BY <2>1, <2>2 DEF DayOf
<1>4. MidnightInv
  BY <1>2, <1>3 DEF MidnightInv
<1>5. ClockInv
  <2>1. 1 .. DayOf(now) - 1 = {}
    BY <1>2, <1>3
  <2>2. now <= LastTick
    BY <1>2, StatisticAssumption
  <2>3. DOMAIN midnight = {}
    BY <1>2
  <2>4. {DateOfDay[n] : n \in 1 .. DayOf(now) - 1} = {}
    BY <2>1
  <2> QED
    BY <2>1, <2>2, <2>3, <2>4 DEF ClockInv
<1>6. FileInv
  BY <1>2 DEF FileInv, FilesSound
<1> QED
  BY <1>1, <1>4, <1>5, <1>6 DEF DayBase

(* What had been counted when the day of a file ended, and when the day    *)
(* after it did.                                                           *)
LEMMA EndsAre ==
  ASSUME DayBase, NEW n \in 1 .. DayOf(now) - 1
  PROVE  /\ DateOfDay[n] # today
         /\ AtEnd(DateOfDay[n]) = CountsOf(n) /\ AtNextEnd(DateOfDay[n]) = CountsOf(n + 1)
         /\ CountsOf(n) \in Counts /\ CountsOf(n + 1) \in Counts
<1>1. Base /\ ClockInv /\ now \in Nat /\ DayOf(now) \in Nat /\ DayOf(now) >= 1
  BY DayTyped DEF DayBase, Base, Types
<1>2. n \in 1 .. DayOf(now) /\ n + 1 \in 1 .. DayOf(now) /\ n # DayOf(now)
      /\ DayOf(now) \in 1 .. DayOf(now) /\ n + 1 # 1 /\ (n + 1) - 1 = n
  BY <1>1
<1>3. /\ n + 1 \in Days
      /\ \A i, j \in 1 .. DayOf(now) : i # j => DateOfDay[i] # DateOfDay[j]
  BY <1>1, <1>2, DaysSoFar DEF ClockInv
<1>4. today = DateOfDay[DayOf(now)]
  BY DEF today, Date
<1>5. DateOfDay[n] # today
  BY <1>2, <1>3, <1>4
<1>6. AtEnd(DateOfDay[n]) = CountsOf(n)
  BY <1>2, <1>5 DEF AtEnd, CountsOf
<1>7. Tomorrow(DateOfDay[n]) = DateOfDay[n + 1]
  BY <1>2, <1>3, DatesExist
<1>8. AtNextEnd(DateOfDay[n]) = CountsOf(n + 1)
  <2>1. AtNextEnd(DateOfDay[n]) = AtEnd(DateOfDay[n + 1])
    BY <1>5, <1>7 DEF AtNextEnd
  <2>2. CASE n + 1 = DayOf(now)
    BY <1>4, <2>1, <2>2 DEF AtEnd, CountsOf
  <2>3. CASE n + 1 # DayOf(now)
    <3>1. DateOfDay[n + 1] # today
      BY <1>2, <1>3, <1>4, <2>3
    <3> QED
      BY <2>1, <2>3, <3>1 DEF AtEnd, CountsOf
  <2> QED
    BY <2>2, <2>3
<1>9. CountsOf(n) \in Counts /\ CountsOf(n + 1) \in Counts
  BY <1>1, <1>2, CountsTyped
<1> QED
  BY <1>5, <1>6, <1>8, <1>9

(* The file of a day is written between its midnight and the next: its sum *)
(* counts all records of the day, although the writers count on while it   *)
(* is written, and none that came after the next day; its lines add up to  *)
(* at most its sum.                                                        *)
THEOREM DayFilesInTime == Spec => []DayFileInTime
<1>1. Init => DayBase /\ FileInv
  BY FileInit
<1>2. DayBase /\ FileInv /\ [Next]_vars => (DayBase /\ FileInv)'
  <2> SUFFICES ASSUME DayBase, FileInv, [Next]_vars PROVE (DayBase /\ FileInv)'
    OBVIOUS
  <2>1. DayBase'
    BY BaseNext, AddNext, MidnightNext, ClockNext DEF DayBase
  <2> QED
    BY <2>1, FileNext
<1>3. DayBase /\ FileInv => DayFileInTime
  <2> SUFFICES ASSUME DayBase, FileInv, NEW d \in DOMAIN dayFile, Complete(d)
               PROVE  /\ dayFile[d].total \in Sum(AtEnd(d)) .. Sum(AtNextEnd(d))
                      /\ Sum(dayFile[d].each) <= dayFile[d].total
    BY DEF DayFileInTime
  <2>1. PICK n \in 1 .. DayOf(now) - 1 :
           d = DateOfDay[n] /\ Sound(dayFile[d], CountsOf(n), CountsOf(n + 1))
    BY DEF FileInv, FilesSound
  <2>2. Base /\ ClockInv /\ now \in Nat /\ DayOf(now) \in Nat /\ DayOf(now) >= 1
    BY DayTyped DEF DayBase, Base, Types
  <2>7. AtEnd(d) = CountsOf(n) /\ AtNextEnd(d) = CountsOf(n + 1)
    BY <2>1, EndsAre
  <2>10. Sum(CountsOf(n)) \in Nat /\ Sum(CountsOf(n + 1)) \in Nat
    <3>1. CountsOf(n) \in Counts /\ CountsOf(n + 1) \in Counts
      BY <2>1, EndsAre
    <3> QED
      BY <3>1, SumNat
  <2>11. dayFile[d].total \in Nat /\ dayFile[d].total # NoTotal
    <3>1. dayFile[d] \in DayFiles
      BY <2>2 DEF Base, Types
    <3>2. dayFile[d].total # NoTotal
      BY DEF Complete
    <3> QED
      BY <3>1, <3>2 DEF DayFiles
  <2>12. /\ Sum(CountsOf(n)) <= dayFile[d].total /\ dayFile[d].total <= Sum(CountsOf(n + 1))
         /\ Sum(dayFile[d].each) <= dayFile[d].total
    BY <2>1, <2>11 DEF Sound
  <2>13. dayFile[d].total \in Sum(CountsOf(n)) .. Sum(CountsOf(n + 1))
    BY <2>10, <2>11, <2>12
  <2> QED
    BY <2>7, <2>12, <2>13
<1> QED
  BY <1>1, <1>2, <1>3, PTL DEF Spec

-----------------------------------------------------------------------------
(* The lines of a file.  A line is written when its device has been        *)
(* visited, also in a file that was never completed: it counts the records *)
(* of the day of the file and none that came later than the day after.     *)
LineSound(f, low, high) ==
  \A k \in Keys : f.each[k] # 0 => low[k] <= f.each[k] /\ f.each[k] <= high[k]

LinesInv == \A n \in 1 .. DayOf(now) - 1 : DateOfDay[n] \in DOMAIN dayFile =>
              LineSound(dayFile[DateOfDay[n]], CountsOf(n), CountsOf(n + 1))

(* No two days have one date.                                              *)
LEMMA DatesDiffer == \A i, n \in Days : DateOfDay[i] = DateOfDay[n] => i = n
<1> SUFFICES ASSUME NEW i \in Days, NEW n \in Days, DateOfDay[i] = DateOfDay[n], i # n PROVE FALSE
  OBVIOUS
<1>1. i < n \/ n < i
  BY DayTyped, StatisticAssumption DEF Days
<1>2. DateOfDay[i] < DateOfDay[n] \/ DateOfDay[n] < DateOfDay[i]
  BY <1>1, DatesInOrder
<1>3. DateOfDay[i] \in Nat /\ DateOfDay[n] \in Nat
  BY DatesOnCalendar DEF OnCalendar
<1> QED
  BY <1>2, <1>3

(* A file whose lines are not written.                                     *)
LEMMA LinesStay ==
  ASSUME DayBase, DayBase', DaysGrow, FileInv, LinesInv,
         NEW n \in 1 .. DayOf(now') - 1, DateOfDay[n] \in DOMAIN dayFile,
         dayFile'[DateOfDay[n]].each = dayFile[DateOfDay[n]].each
  PROVE  LineSound(dayFile'[DateOfDay[n]], CountsOf(n)', CountsOf(n + 1)')
<1>1. /\ DayOf(now) \in Nat /\ DayOf(now') \in Nat /\ DayOf(now) <= DayOf(now')
  <2>1. PICK t \in Nat : t = now'
    BY DEF DayBase, Base, Types
  <2>2. DayOf(t) \in Nat /\ DayOf(now) \in Nat
    BY DayTyped DEF DayBase, Base, Types
  <2> QED
    BY <2>1, <2>2 DEF DaysGrow
<1>2. n \in 1 .. DayOf(now) - 1
  <2>1. PICK m \in 1 .. DayOf(now) - 1 : DateOfDay[n] = DateOfDay[m]
    BY DEF FileInv, FilesSound
  <2>2. DayOf(now') <= DayOf(LastTick) /\ DayOf(LastTick) \in Nat
    <3>1. PICK t \in Nat : t = now' /\ t <= LastTick
      BY DEF DayBase, Base, Types, ClockInv
    <3> QED
      BY <3>1, DaysInOrder, DayTyped, StatisticAssumption
  <2>3. n \in Days /\ m \in Days
    BY <1>1, <2>2 DEF Days
  <2>4. n = m
    BY <2>1, <2>3, DatesDiffer
  <2> QED
    BY <2>1, <2>4
<1>3. n \in 1 .. DayOf(now) /\ n + 1 \in 1 .. DayOf(now) /\ n + 1 \in 1 .. DayOf(now')
      /\ n \in 1 .. DayOf(now')
  BY <1>1, <1>2
<1>4. LineSound(dayFile[DateOfDay[n]], CountsOf(n), CountsOf(n + 1))
  BY <1>2 DEF LinesInv
<1>5. CountsOf(n)' = CountsOf(n) /\ \A k \in Keys : CountsOf(n + 1)[k] <= (CountsOf(n + 1)')[k]
  BY <1>2, <1>3 DEF DaysGrow
<1>6. CountsOf(n) \in Counts /\ CountsOf(n + 1) \in Counts /\ CountsOf(n + 1)' \in Counts
  <2>1. CountsOf(n) \in Counts /\ CountsOf(n + 1) \in Counts
    BY <1>3, CountsTyped DEF DayBase
  <2>2. CASE n + 1 = DayOf(now')
    <3>1. CountsOf(n + 1)' = m_EachTotalData'
      BY <2>2 DEF CountsOf
    <3> QED
      BY <2>1, <3>1 DEF DayBase, Base, Types
  <2>3. CASE n + 1 # DayOf(now')
    <3>1. n + 1 \in 1 .. DayOf(now') - 1
      BY <1>1, <1>3, <2>3
    <3>2. CountsOf(n + 1)' = midnight'[DateOfDay[n + 1]]
      BY <2>3 DEF CountsOf
    <3> QED
      BY <2>1, <3>1, <3>2 DEF DayBase, ClockInv
  <2> QED
    BY <2>2, <2>3
<1>7. PICK a \in Counts, b \in Counts, c \in Counts, e \in Counts :
         /\ a = CountsOf(n) /\ b = CountsOf(n + 1) /\ c = CountsOf(n + 1)'
         /\ e = dayFile[DateOfDay[n]].each
  <2>1. dayFile[DateOfDay[n]] \in DayFiles
    BY DEF DayBase, Base, Types
  <2>2. dayFile[DateOfDay[n]].each \in Counts
    BY <2>1 DEF DayFiles
  <2> QED
    BY <1>6, <2>2, Zenon
<1>8. ASSUME NEW k \in Keys, e[k] # 0 PROVE a[k] <= e[k] /\ e[k] <= c[k]
  <2>1. a[k] <= e[k] /\ e[k] <= b[k]
    BY <1>4, <1>7, <1>8 DEF LineSound
  <2>2. b[k] <= c[k]
    BY <1>5, <1>7
  <2>3. e[k] \in Nat /\ b[k] \in Nat /\ c[k] \in Nat
    BY DEF Counts
  <2> QED
    BY <2>1, <2>2, <2>3
<1> QED
  BY <1>5, <1>7, <1>8 DEF LineSound

LEMMA LinesNext ==
  DayBase /\ DayBase' /\ FileInv /\ LinesInv /\ [Next]_vars => LinesInv'
<1> SUFFICES ASSUME DayBase, DayBase', FileInv, LinesInv, [Next]_vars,
                    NEW n \in 1 .. DayOf(now') - 1, DateOfDay[n] \in DOMAIN dayFile'
             PROVE  LineSound(dayFile'[DateOfDay[n]], CountsOf(n)', CountsOf(n + 1)')
  BY DEF LinesInv, LineSound
<1>1. DaysGrow
  BY GrowNext DEF DayBase
<1>2. CASE dayFile' = dayFile
  BY <1>1, <1>2, LinesStay
<1>3. CASE timer_day /\ dayFile' # dayFile
  <2>1. dayFile' = Put(dayFile, FileDate, [each |-> NoLines, total |-> NoTotal])
    BY <1>3 DEF timer_day
  <2>2. CASE DateOfDay[n] = FileDate
    <3>1. dayFile'[DateOfDay[n]] = [each |-> NoLines, total |-> NoTotal]
      BY <2>1, <2>2 DEF Put
    <3>2. \A k \in Keys : dayFile'[DateOfDay[n]].each[k] = 0
      BY <3>1 DEF NoLines
    <3> QED
      BY <3>2 DEF LineSound
  <2>3. CASE DateOfDay[n] # FileDate
    <3>1. DateOfDay[n] \in DOMAIN dayFile /\ dayFile'[DateOfDay[n]] = dayFile[DateOfDay[n]]
      BY <2>1, <2>3 DEF Put
    <3> QED
      BY <1>1, <3>1, LinesStay
  <2> QED
    BY <2>2, <2>3
<1>4. CASE WriteTotal
  <2>1. dayFile' = [dayFile EXCEPT ![FileDate].total = totalNum]
    BY <1>4 DEF WriteTotal
  <2>2. DateOfDay[n] \in DOMAIN dayFile /\ dayFile[DateOfDay[n]] \in DayFiles
    BY <2>1 DEF DayBase, Base, Types
  <2>3. dayFile'[DateOfDay[n]].each = dayFile[DateOfDay[n]].each
    <3>1. CASE DateOfDay[n] = FileDate
      <4>1. dayFile'[DateOfDay[n]] = [dayFile[DateOfDay[n]] EXCEPT !.total = totalNum]
        BY <2>1, <2>2, <3>1 DEF DayBase, Base, Types
      <4>2. PICK f \in DayFiles : f = dayFile[DateOfDay[n]]
        BY <2>2
      <4> QED
        BY <4>1, <4>2 DEF DayFiles
    <3>2. CASE DateOfDay[n] # FileDate
      BY <2>1, <2>2, <3>2 DEF DayBase, Base, Types
    <3> QED
      BY <3>1, <3>2
  <2> QED
    BY <1>1, <2>2, <2>3, LinesStay
<1>5. CASE WriteLine
  <2>1. PICK k \in left : dayFile' = [dayFile EXCEPT ![FileDate].each[k] = m_EachTotalData[k]]
    BY <1>5 DEF WriteLine
  <2>2. pc = "day" /\ UNCHANGED <<now, m_EachTotalData, lTime, midnight>>
    BY <1>5 DEF WriteLine, history
  <2>3. /\ DOMAIN dayFile' = DOMAIN dayFile /\ k \in Keys /\ lTime = now
        /\ FileDate \in DOMAIN dayFile /\ DayOf(now) \in Nat
    BY <2>1, <2>2, DayTyped DEF DayBase, Base, Types, Control, MidnightInv
  <2>4. CASE DateOfDay[n] # FileDate
    <3>1. dayFile'[DateOfDay[n]] = dayFile[DateOfDay[n]]
      BY <2>1, <2>3, <2>4 DEF DayBase, Base, Types
    <3> QED
      BY <1>1, <2>3, <3>1, LinesStay
  <2>5. CASE DateOfDay[n] = FileDate
    <3>1. DayOf(now') = DayOf(now)
      BY <2>2
    <3>2. PICK m \in Nat \ {0} : m + 1 = DayOf(now)
      <4>1. PICK m \in Nat \ {0} : /\ m + 1 = DayOf(now)
                                  /\ Sum(CountsOf(m)) <= totalNum + Sum(ToAdd)
        BY <2>2 DEF FileInv
      <4> QED
        BY <4>1
    <3>a. m # 0 /\ m \in 1 .. DayOf(now)
      BY <3>2
    <3>3. m = DayOf(now) - 1
      BY <2>3, <3>2
    <3>4. FileDate = DateOfDay[m]
      BY <2>3, <3>3 DEF FileDate
    <3>5. n = m
      <4>1. n \in 1 .. DayOf(now)
        BY <2>3, <3>1
      <4>2. \A i, j \in 1 .. DayOf(now) : i # j => DateOfDay[i] # DateOfDay[j]
        BY DaysSoFar DEF DayBase, ClockInv
      <4> QED
        BY <2>5, <3>2, <3>a, <3>4, <4>1, <4>2
    <3>6. CountsOf(n + 1) = m_EachTotalData /\ CountsOf(n + 1)' = m_EachTotalData
          /\ CountsOf(n)' = CountsOf(n)
      BY <2>2, <3>1, <3>2, <3>5 DEF CountsOf
    <3>7. PICK f \in DayFiles : f = dayFile[FileDate]
      BY <2>3 DEF DayBase, Base, Types
    <3>8. dayFile'[FileDate] = [f EXCEPT !.each[k] = m_EachTotalData[k]]
      BY <2>1, <2>3, <3>7 DEF DayBase, Base, Types
    <3>9. dayFile'[FileDate].each = [f.each EXCEPT ![k] = m_EachTotalData[k]]
      BY <3>8 DEF DayFiles
    <3>10. f.each \in [Keys -> Nat] /\ m_EachTotalData \in [Keys -> Nat]
      BY DEF DayFiles, Counts, DayBase, Base, Types
    <3>11. n \in 1 .. DayOf(now) - 1
      BY <2>3, <3>2, <3>3, <3>5
    <3>12. CountsOf(n)[k] <= m_EachTotalData[k]
      BY <2>3, <3>6, <3>11 DEF DayBase, ClockInv
    <3>13. LineSound(f, CountsOf(n), CountsOf(n + 1))
      BY <2>3, <2>5, <3>7, <3>11 DEF LinesInv
    <3>14. ASSUME NEW j \in Keys, dayFile'[FileDate].each[j] # 0
           PROVE  /\ CountsOf(n)[j] <= dayFile'[FileDate].each[j]
                  /\ dayFile'[FileDate].each[j] <= m_EachTotalData[j]
      <4>1. CASE j = k
        <5>1. dayFile'[FileDate].each[j] = m_EachTotalData[j] /\ m_EachTotalData[j] \in Nat
          BY <3>9, <3>10, <4>1
        <5> QED
          BY <3>12, <4>1, <5>1
      <4>2. CASE j # k
        <5>1. dayFile'[FileDate].each[j] = f.each[j]
          BY <3>9, <3>10, <4>2
        <5> QED
          BY <3>6, <3>13, <3>14, <5>1 DEF LineSound
      <4> QED
        BY <4>1, <4>2
    <3> QED
      BY <2>5, <3>6, <3>14 DEF LineSound
  <2> QED
    BY <2>4, <2>5
<1>6. (Tick \/ init_server \/ Look \/ Kill) => dayFile' = dayFile
  BY DEF Tick, init_server, Look, Kill
<1>7. (VisitDevice \/ AddToTotal \/ EndStatistic) => dayFile' = dayFile
  BY DEF VisitDevice, AddToTotal, EndStatistic
<1>8. (\E k \in Keys : write_data(k)) \/ (\E r \in Ranges : QueryDays(r)) \/ UNCHANGED vars
        => dayFile' = dayFile
  BY DEF write_data, QueryDays, vars
<1> QED
  BY <1>2, <1>3, <1>4, <1>5, <1>6, <1>7, <1>8 DEF Next

-----------------------------------------------------------------------------
(* The days a query visits.  DateAt(n) is the date of day n of the clock;  *)
(* of the two days before the clock began too, which a query may reach.    *)
EightDigits == IsDate(Date(LastTick)) /\ \A n \in 0 .. 2 : IsDate(reduce_days2(FirstDay, n))

DateAt(n) == IF n >= 1 THEN DateOfDay[n] ELSE reduce_days2(FirstDay, 1 - n)
Reached   == -1 .. DayOf(LastTick)
Number(n) == DayNumber(FirstDay) + n - 1

LEMMA DaysTyped == /\ DayOf(LastTick) \in Nat /\ DayOf(LastTick) >= 1
                   /\ Days \subseteq Reached /\ 1 \in Days
BY DayTyped, StatisticAssumption DEF Days, Reached

LEMMA NumberTyped == ASSUME NEW d, OnCalendar(d), Year(d) # 0 PROVE DayNumber(d) \in Int
<1>1. Year(d) \in Nat
  BY DateFrom DEF OnCalendar
<1>2. /\ DayNumber(d) = YearStart(Year(d)) + InYear(Year(d), Month(d)) + Day(d)
      /\ YearStart(Year(d)) \in Int /\ InYear(Year(d), Month(d)) \in Nat /\ Day(d) \in Nat
  BY <1>1, Parts, Zenon
<1> QED
  BY <1>2

LEMMA DateYear == ASSUME NEW d, IsDate(d) PROVE OnCalendar(d) /\ Year(d) # 0 /\ d \in Nat
<1>1. OnCalendar(d) /\ Year(d) >= 1000
  BY DateBounds
<1>2. d \in Nat
  BY <1>1 DEF OnCalendar
<1>3. Year(d) \in Nat
  BY <1>2, DateFrom
<1>4. Year(d) # 0
  BY <1>1, <1>3, SMT
<1> QED
  BY <1>1, <1>2, <1>4

LEMMA NumbersDiffer ==
  ASSUME NEW d, OnCalendar(d), Year(d) # 0, NEW e, OnCalendar(e), Year(e) # 0,
         DayNumber(d) = DayNumber(e)
  PROVE  d = e
<1>1. d \in Nat /\ e \in Nat
  BY DEF OnCalendar
<1>2. DayNumber(d) \in Int
  BY NumberTyped
<1>3. ~(d < e)
  <2> SUFFICES ASSUME d < e PROVE FALSE
    OBVIOUS
  <2>1. DayNumber(d) < DayNumber(e)
    BY NumberOrder, Zenon
  <2> QED
    BY <1>2, <2>1
<1>4. ~(e < d)
  <2> SUFFICES ASSUME e < d PROVE FALSE
    OBVIOUS
  <2>1. DayNumber(e) < DayNumber(d)
    BY NumberOrder, Zenon
  <2> QED
    BY <1>2, <2>1
<1> QED
  BY <1>1, <1>3, <1>4

LEMMA DatesOfDays ==
  ASSUME EightDigits
  PROVE  \A n \in Days : IsDate(DateOfDay[n]) /\ DayNumber(DateOfDay[n]) = Number(n)
<1>1. IsDate(FirstDay) /\ IsDate(DateOfDay[DayOf(LastTick)]) /\ DayOf(LastTick) \in Days
      /\ DateOfDay[1] = FirstDay
  BY StatisticAssumption, DatesExist, DaysTyped DEF EightDigits, Date, Days
<1>2. ASSUME NEW n \in Days PROVE IsDate(DateOfDay[n])
  <2>1. OnCalendar(DateOfDay[n]) /\ DateOfDay[n] \in Nat
    BY DatesOnCalendar DEF OnCalendar
  <2>2. n = 1 \/ FirstDay < DateOfDay[n]
    BY <1>1, DaysTyped, DatesInOrder DEF Days
  <2>3. n = DayOf(LastTick) \/ DateOfDay[n] < DateOfDay[DayOf(LastTick)]
    BY <1>1, DaysTyped, DatesInOrder DEF Days
  <2>4. CASE n = 1 \/ n = DayOf(LastTick)
    BY <1>1, <2>4
  <2>5. CASE FirstDay < DateOfDay[n] /\ DateOfDay[n] < DateOfDay[DayOf(LastTick)]
    <3>1. PICK d \in Nat, e \in Nat, f \in Nat :
             d = DateOfDay[n] /\ e = FirstDay /\ f = DateOfDay[DayOf(LastTick)]
      BY <1>1, <2>1, DateYear
    <3>2. IsDate(e) /\ IsDate(f) /\ e < d /\ d < f /\ OnCalendar(d)
      BY <1>1, <2>1, <2>5, <3>1
    <3>3. 10000000 <= d /\ d < 100000000
      BY <3>2, SMT DEF IsDate
    <3> QED
      BY <3>1, <3>2, <3>3, SMT DEF IsDate, OnCalendar
  <2> QED
    BY <2>2, <2>3, <2>4, <2>5
<1>3. DayNumber(FirstDay) \in Int
  BY <1>1, DateYear, NumberTyped
<1> DEFINE N == {n \in Nat : n \in Days => DayNumber(DateOfDay[n]) = Number(n)}
<1>4. 0 \in N
  BY DEF Days
<1>5. ASSUME NEW n \in Nat, n \in N PROVE n + 1 \in N
  <2> SUFFICES ASSUME n + 1 \in Days PROVE DayNumber(DateOfDay[n + 1]) = Number(n + 1)
    OBVIOUS
  <2>1. CASE n = 0
    <3>1. DateOfDay[n + 1] = FirstDay
      BY <1>1, <2>1
    <3> QED
      BY <1>3, <2>1, <3>1 DEF Number
  <2>2. CASE n # 0
    <3>1. n \in Days /\ n + 1 # 1 /\ (n + 1) - 1 = n
      BY <2>2, DaysTyped DEF Days
    <3>2. DateOfDay[n + 1] = Tomorrow(DateOfDay[n])
      BY <3>1, DatesExist
    <3>3. OnCalendar(DateOfDay[n]) /\ Year(DateOfDay[n]) # 0
      BY <1>2, <3>1, DateYear
    <3>4. DayNumber(DateOfDay[n + 1]) = DayNumber(DateOfDay[n]) + 1
      BY <3>2, <3>3, TomorrowNumber, Zenon
    <3>5. DayNumber(DateOfDay[n]) = Number(n)
      BY <1>5, <3>1
    <3> QED
      BY <1>3, <3>4, <3>5 DEF Number
  <2> QED
    BY <2>1, <2>2
<1> HIDE DEF N
<1>6. \A n \in Nat : n \in N
  BY <1>4, <1>5, SetInduction
<1>7. ASSUME NEW n \in Days PROVE DayNumber(DateOfDay[n]) = Number(n)
  BY <1>6, DaysTyped DEF N, Days
<1> QED
  BY <1>2, <1>7

LEMMA DatesReached ==
  ASSUME EightDigits
  PROVE  /\ DayNumber(FirstDay) \in Int
         /\ \A n \in Reached : IsDate(DateAt(n)) /\ DayNumber(DateAt(n)) = Number(n)
<1>1. DayNumber(FirstDay) \in Int
  BY StatisticAssumption, DateYear, NumberTyped
<1>2. ASSUME NEW n \in Reached PROVE IsDate(DateAt(n)) /\ DayNumber(DateAt(n)) = Number(n)
  <2>1. CASE n >= 1
    <3>1. n \in Days /\ DateAt(n) = DateOfDay[n]
      BY <2>1, DaysTyped DEF Reached, Days, DateAt
    <3> QED
      BY <3>1, DatesOfDays
  <2>2. CASE ~(n >= 1)
    <3>1. PICK i \in 0 .. 2 : i = 1 - n
      <4>1. 1 - n \in 0 .. 2
        BY <2>2, DaysTyped DEF Reached
      <4> QED
        BY <4>1, Zenon
    <3>2. DateAt(n) = reduce_days2(FirstDay, i) /\ i \in Nat /\ n \in Int
      BY <2>2, <3>1, DaysTyped DEF DateAt, Reached
    <3>3. \A j \in 0 .. i : j \in 0 .. 2
      OBVIOUS
    <3>4. \A j \in 0 .. i : IsDate(reduce_days2(FirstDay, j))
      BY <3>3 DEF EightDigits
    <3>5. DayNumber(reduce_days2(FirstDay, i)) = DayNumber(FirstDay) - i
      BY <3>2, <3>4, ExactDaysBack, Zenon
    <3>6. DayNumber(FirstDay) - i = Number(n)
      BY <1>1, <3>1, <3>2 DEF Number
    <3> QED
      BY <3>2, <3>5, <3>6 DEF EightDigits
  <2> QED
    BY <2>1, <2>2
<1> QED
  BY <1>1, <1>2

LEMMA ReachedInOrder ==
  ASSUME EightDigits, NEW i \in Reached, NEW n \in Reached
  PROVE  /\ DateAt(i) = DateAt(n) => i = n
         /\ DateAt(i) <= DateAt(n) <=> i <= n
         /\ DateAt(i) \in Nat
<1>1. PICK d \in Nat, e \in Nat, p \in Int, q \in Int :
        /\ d = DateAt(i) /\ e = DateAt(n) /\ p = DayNumber(d) /\ q = DayNumber(e)
        /\ OnCalendar(d) /\ Year(d) # 0 /\ OnCalendar(e) /\ Year(e) # 0
  BY DatesReached, DateYear, NumberTyped
<1>2. i \in Int /\ n \in Int
  BY DaysTyped DEF Reached
<1>3. p - q = i - n
  <2>1. p = Number(i) /\ q = Number(n) /\ DayNumber(FirstDay) \in Int
    BY <1>1, DatesReached
  <2> QED
    BY <1>1, <1>2, <2>1 DEF Number
<1>4. d < e => p < q
  BY <1>1, NumberOrder, Zenon
<1>5. e < d => q < p
  BY <1>1, NumberOrder, Zenon
<1>6. (d = e => i = n) /\ (d <= e <=> i <= n)
  <2>1. d = e => p = q
    BY <1>1
  <2>2. p = q => d = e
    BY <1>1, NumbersDiffer, Zenon
  <2> QED
    BY <1>2, <1>3, <1>4, <1>5, <2>1, <2>2
<1> QED
  BY <1>1, <1>6, Zenon

LEMMA OneDayBack ==
  ASSUME EightDigits, NEW n \in Reached, n # -1
  PROVE  n - 1 \in Reached /\ DayBefore(DateAt(n)) = DateAt(n - 1)
<1>1. n - 1 \in Reached /\ n \in Int
  BY DaysTyped DEF Reached
<1>2. IsDate(DateAt(n)) /\ DayNumber(DateAt(n)) = Number(n)
      /\ IsDate(DateAt(n - 1)) /\ DayNumber(DateAt(n - 1)) = Number(n - 1)
      /\ DayNumber(FirstDay) \in Int
  BY <1>1, DatesReached
<1>3. OnCalendar(DateAt(n)) /\ Year(DateAt(n)) >= 1000
  BY <1>2, DateBounds
<1>4. /\ OnCalendar(DayBefore(DateAt(n))) /\ Year(DayBefore(DateAt(n))) # 0
      /\ DayNumber(DayBefore(DateAt(n))) = DayNumber(DateAt(n)) - 1
  BY <1>3, DayBeforeNumber
<1>5. OnCalendar(DateAt(n - 1)) /\ Year(DateAt(n - 1)) # 0
  BY <1>2, DateYear
<1>6. DayNumber(DayBefore(DateAt(n))) = DayNumber(DateAt(n - 1))
  <2>1. Number(n) - 1 = Number(n - 1)
    BY <1>1, <1>2 DEF Number
  <2> QED
    BY <1>2, <1>4, <2>1
<1> QED
  BY <1>1, <1>4, <1>5, <1>6, NumbersDiffer

LEMMA DaysBack ==
  ASSUME EightDigits, NEW n \in Days, NEW i \in 0 .. n + 1
  PROVE  n - i \in Reached /\ reduce_days2(DateOfDay[n], i) = DateAt(n - i)
<1>0. n \in Nat /\ n >= 1
  BY DaysTyped DEF Days
<1> DEFINE N == {j \in Nat : j <= n + 1 =>
                   n - j \in Reached /\ reduce_days2(DateOfDay[n], j) = DateAt(n - j)}
<1>1. ~OutOfRange(DateOfDay[n])
  BY DatesOfDays, DateBounds
<1>2. 0 \in N
  <2>1. n - 0 = n /\ n \in Reached /\ DateAt(n) = DateOfDay[n]
    BY <1>0, DaysTyped DEF DateAt
  <2>2. reduce_days2(DateOfDay[n], 0) = DateOfDay[n]
    BY <1>1, BackStep
  <2> QED
    BY <2>1, <2>2
<1>3. ASSUME NEW j \in Nat, j \in N PROVE j + 1 \in N
  <2> SUFFICES ASSUME j + 1 <= n + 1
               PROVE  n - (j + 1) \in Reached
                      /\ reduce_days2(DateOfDay[n], j + 1) = DateAt(n - (j + 1))
    OBVIOUS
  <2>1. n - j \in Reached /\ reduce_days2(DateOfDay[n], j) = DateAt(n - j)
    BY <1>0, <1>3
  <2>2. n - j # -1 /\ (n - j) - 1 = n - (j + 1)
    BY <1>0
  <2>3. (n - j) - 1 \in Reached /\ DayBefore(DateAt(n - j)) = DateAt((n - j) - 1)
    BY <2>1, <2>2, OneDayBack
  <2>4. reduce_days2(DateOfDay[n], j + 1) = DayBefore(reduce_days2(DateOfDay[n], j))
    BY <1>1, BackStep
  <2> QED
    BY <2>1, <2>2, <2>3, <2>4
<1> HIDE DEF N
<1>4. \A j \in Nat : j \in N
  BY <1>2, <1>3, SetInduction
<1>5. i \in Nat /\ i <= n + 1
  BY <1>0
<1> QED
  BY <1>4, <1>5 DEF N

(* From the end of a query to the day before its beginning.                *)
LEMMA DaysVisited ==
  ASSUME EightDigits, NEW a \in Days, NEW b \in Days, a <= b
  PROVE  /\ <<DateOfDay[a], DateOfDay[b]>> \in AllRanges
         /\ Visited[<<DateOfDay[a], DateOfDay[b]>>] = [i \in 1 .. b - a + 2 |-> DateAt(b + 1 - i)]
<1> DEFINE r == <<DateOfDay[a], DateOfDay[b]>>
<1>1. r = <<DateOfDay[a], DateOfDay[b]>> /\ r[1] = DateOfDay[a] /\ r[2] = DateOfDay[b]
  OBVIOUS
<1> HIDE DEF r
<1>2. a \in Nat /\ b \in Nat /\ a >= 1 /\ b >= 1 /\ b <= DayOf(LastTick)
  BY DaysTyped DEF Days
<1>3. r \in AllRanges
  <2>1. a = b \/ DateOfDay[a] < DateOfDay[b]
    BY <1>2, DatesInOrder
  <2>2. DateOfDay[a] \in Nat /\ DateOfDay[b] \in Nat
    BY DatesOnCalendar DEF OnCalendar
  <2>3. DateOfDay[a] <= DateOfDay[b]
    BY <2>1, <2>2
  <2>4. DateOfDay[a] \in Range(DateOfDay) /\ DateOfDay[b] \in Range(DateOfDay)
    BY DatesExist DEF Range
  <2> QED
    BY <1>1, <2>3, <2>4 DEF AllRanges
<1>4. Cardinality(DOMAIN DateOfDay) + 2 = DayOf(LastTick) + 2
  <2>1. Cardinality(1 .. DayOf(LastTick)) = DayOf(LastTick) - 1 + 1
    BY DaysTyped, FS_Interval
  <2> QED
    BY <2>1, DaysTyped, DatesExist DEF Days
<1>5. StartTime(r[1]) = DateAt(a - 2) /\ a - 2 \in Reached
  BY <1>1, <1>2, DaysBack DEF StartTime
<1> DEFINE S == {i \in 1 .. DayOf(LastTick) + 2 : reduce_days2(r[2], i) = DateAt(a - 2)}
           m == b - a + 2
<1>6. m \in 1 .. DayOf(LastTick) + 2 /\ m \in 0 .. b + 1 /\ b - m = a - 2
  BY <1>2, DaysTyped
<1>7. m \in S
  <2>1. reduce_days2(r[2], m) = DateAt(b - m)
    BY <1>1, <1>6, DaysBack
  <2> QED
    BY <1>6, <2>1
<1>8. ASSUME NEW i \in S PROVE m <= i
  <2> SUFFICES ASSUME ~(m <= i) PROVE FALSE
    OBVIOUS
  <2>1. i \in 0 .. b + 1 /\ b - i # a - 2 /\ i \in 1 .. DayOf(LastTick) + 2
    BY <1>2, <1>6, DaysTyped
  <2>2. b - i \in Reached /\ reduce_days2(r[2], i) = DateAt(b - i)
    BY <1>1, <2>1, DaysBack
  <2>3. DateAt(b - i) = DateAt(a - 2)
    BY <2>2
  <2> QED
    BY <1>5, <2>1, <2>2, <2>3, ReachedInOrder
<1>9. Min(S) = m
  <2>1. m \in Int /\ S \subseteq Int
    BY <1>6, DaysTyped
  <2> HIDE DEF S, m
  <2>2. m \in S /\ \A y \in S : m =< y
    BY <1>7, <1>8
  <2>3. \A x \in S : (\A y \in S : x =< y) => x = m
    BY <2>1, <2>2
  <2> QED
    BY <2>2, <2>3, Zenon DEF Min
<1>10. Visited[r] = [i \in 1 .. Min(S) |-> reduce_days2(r[2], i - 1)]
  BY <1>3, <1>4, <1>5 DEF Visited
<1>11. ASSUME NEW i \in 1 .. m PROVE reduce_days2(r[2], i - 1) = DateAt(b + 1 - i)
  <2>1. i - 1 \in 0 .. b + 1 /\ b - (i - 1) = b + 1 - i
    BY <1>2
  <2> QED
    BY <1>1, <2>1, DaysBack
<1> HIDE DEF S
<1> QED
  BY <1>1, <1>3, <1>9, <1>10, <1>11

-----------------------------------------------------------------------------
(* The numbers of a finite set in order: each number has its place, which  *)
(* is how many are not greater.                                            *)
UpToThe(S, i) == {j \in S : j <= i}
Place(S, i)   == Cardinality(UpToThe(S, i))

LEMMA Placed ==
  ASSUME NEW S \in SUBSET Nat, IsFiniteSet(S)
  PROVE  /\ Cardinality(S) \in Nat
         /\ \A i \in S : Place(S, i) \in 1 .. Cardinality(S)
         /\ \A i, j \in S : i < j => Place(S, i) < Place(S, j)
<1>1. Cardinality(S) \in Nat
  BY FS_CardinalityType
<1>2. ASSUME NEW i \in S
      PROVE  IsFiniteSet(UpToThe(S, i)) /\ Place(S, i) \in Nat /\ Place(S, i) <= Cardinality(S)
  <2>1. UpToThe(S, i) \in SUBSET S
    BY DEF UpToThe
  <2> QED
    BY <2>1, FS_Subset, FS_CardinalityType DEF Place
<1>3. ASSUME NEW i \in S PROVE Place(S, i) # 0
  <2>1. i \in UpToThe(S, i)
    BY DEF UpToThe
  <2>2. UpToThe(S, i) # {}
    BY <2>1
  <2>3. IsFiniteSet(UpToThe(S, i)) /\ Place(S, i) = Cardinality(UpToThe(S, i))
    BY <1>2 DEF Place
  <2>4. Cardinality(UpToThe(S, i)) = 0 => UpToThe(S, i) = {}
    BY <2>3, FS_EmptySet, Zenon
  <2> HIDE DEF UpToThe
  <2> QED
    BY <2>2, <2>3, <2>4
<1>4. ASSUME NEW i \in S, NEW j \in S, i < j PROVE Place(S, i) < Place(S, j)
  <2>1. UpToThe(S, i) \in SUBSET UpToThe(S, j)
    <3>1. ASSUME NEW k \in UpToThe(S, i) PROVE k \in UpToThe(S, j)
      <4>1. k \in S /\ k <= i /\ k \in Nat /\ i \in Nat /\ j \in Nat
        BY DEF UpToThe
      <4>2. k <= j
        BY <1>4, <4>1
      <4> QED
        BY <4>1, <4>2 DEF UpToThe
    <3> QED
      BY <3>1
  <2>2. j \in UpToThe(S, j) /\ j \notin UpToThe(S, i)
    BY <1>4 DEF UpToThe
  <2>3. Place(S, i) <= Place(S, j)
    BY <1>2, <2>1, FS_Subset DEF Place
  <2>4. Place(S, i) # Place(S, j)
    <3> SUFFICES ASSUME Place(S, i) = Place(S, j) PROVE FALSE
      OBVIOUS
    <3>1. UpToThe(S, i) = UpToThe(S, j)
      BY <1>2, <2>1, FS_Subset DEF Place
    <3> QED
      BY <2>2, <3>1
  <2> QED
    BY <1>2, <2>3, <2>4
<1> QED
  BY <1>1, <1>2, <1>3, <1>4

LEMMA AllPlaces ==
  ASSUME NEW S \in SUBSET Nat, IsFiniteSet(S), NEW n \in 1 .. Cardinality(S)
  PROVE  \E i \in S : Place(S, i) = n
<1> DEFINE T == 1 .. Cardinality(S)
           f == [i \in S |-> Place(S, i)]
<1>1. Cardinality(S) \in Nat
  BY Placed
<1>2. f \in [S -> T]
  BY Placed
<1>3. ASSUME NEW i \in S, NEW j \in S, f[i] = f[j] PROVE i = j
  <2>1. Place(S, i) = Place(S, j) /\ Place(S, i) \in Nat /\ i \in Nat /\ j \in Nat
    BY <1>1, <1>3, Placed
  <2>2. ~(i < j) /\ ~(j < i)
    BY <2>1, Placed
  <2> QED
    BY <2>1, <2>2
<1>4. f \in Injection(S, T)
  BY <1>2, <1>3 DEF Injection, IsInjective
<1>5. IsFiniteSet(T) /\ Cardinality(T) = Cardinality(S)
  <2>1. 1 \in Int /\ Cardinality(S) \in Int
    BY <1>1
  <2>2. /\ IsFiniteSet(T)
        /\ Cardinality(T) = IF 1 > Cardinality(S) THEN 0 ELSE Cardinality(S) - 1 + 1
    BY <2>1, FS_Interval
  <2> QED
    BY <1>1, <2>2
<1> HIDE DEF f
<1>6. f \in Surjection(S, T)
  BY <1>4, <1>5, FS_Injection
<1>7. \E i \in S : f[i] = n
  BY <1>6 DEF Surjection
<1> QED
  BY <1>7 DEF f

LEMMA InOrderIs ==
  ASSUME NEW S \in SUBSET Nat, IsFiniteSet(S)
  PROVE  /\ Cardinality(S) \in Nat
         /\ InOrder(S) \in [1 .. Cardinality(S) -> S]
         /\ \A m, n \in 1 .. Cardinality(S) : m < n => InOrder(S)[m] < InOrder(S)[n]
         /\ \A i \in S : \E n \in 1 .. Cardinality(S) : InOrder(S)[n] = i
<1>1. Cardinality(S) \in Nat
  BY Placed
<1>2. InOrder(S) = [n \in 1 .. Cardinality(S) |-> CHOOSE i \in S : Place(S, i) = n]
  BY DEF InOrder, Place, UpToThe
<1>3. ASSUME NEW n \in 1 .. Cardinality(S)
      PROVE  InOrder(S)[n] \in S /\ Place(S, InOrder(S)[n]) = n
  <2>1. \E i \in S : Place(S, i) = n
    BY AllPlaces
  <2>2. InOrder(S)[n] = CHOOSE i \in S : Place(S, i) = n
    BY <1>2
  <2> QED
    BY <2>1, <2>2
<1>4. InOrder(S) \in [1 .. Cardinality(S) -> S]
  BY <1>2, <1>3
<1>5. ASSUME NEW m \in 1 .. Cardinality(S), NEW n \in 1 .. Cardinality(S), m < n
      PROVE  InOrder(S)[m] < InOrder(S)[n]
  <2>1. PICK i \in S, j \in S : /\ i = InOrder(S)[m] /\ j = InOrder(S)[n]
                               /\ Place(S, i) = m /\ Place(S, j) = n
    BY <1>3
  <2>2. i \in Nat /\ j \in Nat /\ m \in Nat /\ n \in Nat
    BY <1>1
  <2>3. i # j /\ ~(j < i)
    BY <1>5, <2>1, <2>2, Placed
  <2> QED
    BY <2>1, <2>2, <2>3
<1>6. ASSUME NEW i \in S PROVE \E n \in 1 .. Cardinality(S) : InOrder(S)[n] = i
  <2>1. PICK n \in 1 .. Cardinality(S) : n = Place(S, i)
    BY Placed
  <2>2. InOrder(S)[n] \in S /\ Place(S, InOrder(S)[n]) = n
    BY <1>3
  <2>3. PICK j \in S : j = InOrder(S)[n] /\ Place(S, j) = n
    BY <2>2
  <2>4. ~(i < j) /\ ~(j < i) /\ i \in Nat /\ j \in Nat
    BY <1>1, <2>1, <2>3, Placed
  <2> QED
    BY <2>3, <2>4
<1> QED
  BY <1>1, <1>4, <1>5, <1>6

-----------------------------------------------------------------------------
(* The rows of an answer from its data, newest first: what only the last   *)
(* entry may be is a day before the range.                                 *)
Data == [time : Nat, count : Int]

LEMMA RowsSound ==
  ASSUME NEW N \in Nat, NEW data \in [1 .. N -> Data], NEW r, r[1] \in Nat, r[2] \in Nat,
         NEW low, NEW high,
         \A i \in 1 .. N : /\ low[data[i].time] \in Int /\ high[data[i].time] \in Int
                           /\ low[data[i].time] <= data[i].count
                           /\ data[i].count <= high[data[i].time]
                           /\ data[i].time <= r[2] /\ (i # N => r[1] <= data[i].time)
  PROVE  SoundRows(data, r, low, high)
<1> DEFINE After1(i) == IF i < Len(data) THEN data[i + 1].count ELSE 0
           All == [i \in DOMAIN data |-> Entry(data[i].time, data[i].count - After1(i))]
           rows == DayRows(data, r[1])
<1>1. data \in Seq(Data) /\ Len(data) = N /\ DOMAIN data = 1 .. N
  OBVIOUS
<1>2. ASSUME NEW i \in 1 .. N PROVE data[i].time \in Nat /\ data[i].count \in Int
  BY DEF Data
<1>3. ASSUME NEW i \in 1 .. N
      PROVE  All[i] = Entry(data[i].time, data[i].count - (IF i < N THEN data[i + 1].count ELSE 0))
  BY <1>1
<1>4. \A i \in 1 .. N : All[i] \in Data
  <2> SUFFICES ASSUME NEW i \in 1 .. N PROVE All[i] \in Data
    OBVIOUS
  <2>1. i < N => i + 1 \in 1 .. N
    OBVIOUS
  <2>2. (IF i < N THEN data[i + 1].count ELSE 0) \in Int
    BY <1>2, <2>1
  <2>3. data[i].count - (IF i < N THEN data[i + 1].count ELSE 0) \in Int
    BY <1>2, <2>2
  <2> QED
    BY <1>2, <1>3, <2>3 DEF Data, Entry
<1>5. All \in Seq(Data) /\ Len(All) = N
  <2>1. All \in [1 .. N -> Data]
    BY <1>1, <1>4
  <2> HIDE DEF All
  <2> QED
    BY <2>1
<1>6. rows = IF data = <<>> \/ data[Len(data)].time >= r[1] THEN All ELSE Front(All)
  BY DEF DayRows
<1>7. \A i \in DOMAIN rows : i \in 1 .. N /\ rows[i] = All[i] /\ data[i].time >= r[1]
  <2>1. CASE data = <<>> \/ data[Len(data)].time >= r[1]
    <3>1. rows = All /\ DOMAIN rows = 1 .. N
      BY <1>1, <1>6, <2>1
    <3>2. N # 0 => data[N].time >= r[1]
      BY <1>1, <2>1
    <3>3. ASSUME NEW i \in 1 .. N PROVE data[i].time >= r[1]
      <4>1. i # N => data[i].time >= r[1]
        BY <1>2
      <4> QED
        BY <3>2, <4>1
    <3> QED
      BY <3>1, <3>3
  <2>2. CASE ~(data = <<>> \/ data[Len(data)].time >= r[1])
    <3>1. rows = Front(All) /\ N # 0
      BY <1>1, <1>6, <2>2
    <3> HIDE DEF All, rows
    <3>2. rows = SubSeq(All, 1, N - 1)
      BY <1>5, <3>1 DEF Front
    <3>3. DOMAIN rows = 1 .. N - 1 /\ \A i \in 1 .. N - 1 : rows[i] = All[i]
      BY <1>5, <3>1, <3>2
    <3>4. ASSUME NEW i \in 1 .. N - 1 PROVE i \in 1 .. N /\ data[i].time >= r[1]
      <4>1. i \in 1 .. N /\ i # N
        OBVIOUS
      <4> QED
        BY <1>2, <4>1
    <3> QED
      BY <3>3, <3>4
  <2> QED
    BY <2>1, <2>2
<1>8. \A i \in 1 .. N : data[i].time >= r[1] => i \in DOMAIN rows
  <2> SUFFICES ASSUME NEW i \in 1 .. N, data[i].time >= r[1] PROVE i \in DOMAIN rows
    OBVIOUS
  <2>1. CASE data = <<>> \/ data[Len(data)].time >= r[1]
    BY <1>1, <1>6, <2>1
  <2>2. CASE ~(data = <<>> \/ data[Len(data)].time >= r[1])
    <3>1. rows = Front(All) /\ N # 0
      BY <1>1, <1>6, <2>2
    <3>2. i # N
      BY <1>1, <2>2
    <3> HIDE DEF All, rows
    <3>3. rows = SubSeq(All, 1, N - 1)
      BY <1>5, <3>1 DEF Front
    <3>4. DOMAIN rows = 1 .. N - 1
      BY <1>5, <3>1, <3>3
    <3> QED
      BY <3>2, <3>4
  <2> QED
    BY <2>1, <2>2
<1> HIDE DEF rows
<1>9. ASSUME NEW i \in DOMAIN rows
      PROVE  LET d == data[i].time
                 n == rows[i].count
             IN /\ rows[i].time = d /\ r[1] <= d /\ d <= r[2]
                /\ IF i = Len(data) THEN low[d] <= n /\ n <= high[d]
                   ELSE LET e == data[i + 1].time
                        IN low[d] - high[e] <= n /\ n <= high[d] - low[e]
  <2>1. i \in 1 .. N /\ data[i].time >= r[1]
        /\ rows[i] = Entry(data[i].time, data[i].count - (IF i < N THEN data[i + 1].count ELSE 0))
    BY <1>3, <1>7
  <2>2. rows[i].time = data[i].time
        /\ rows[i].count = data[i].count - (IF i < N THEN data[i + 1].count ELSE 0)
    BY <2>1 DEF Entry
  <2>3. PICK c \in Int, l \in Int, h \in Int :
           /\ c = data[i].count /\ l = low[data[i].time] /\ h = high[data[i].time]
           /\ l <= c /\ c <= h
    BY <1>2, <2>1
  <2>4. r[1] <= data[i].time /\ data[i].time <= r[2]
    BY <1>2, <2>1
  <2>5. CASE i = N
    <3>1. rows[i].count = c
      BY <2>2, <2>3, <2>5
    <3> QED
      BY <1>1, <2>2, <2>3, <2>4, <2>5, <3>1
  <2>6. CASE i # N
    <3>1. i + 1 \in 1 .. N /\ i < N
      BY <2>1, <2>6
    <3>2. PICK c1 \in Int, l1 \in Int, h1 \in Int :
             /\ c1 = data[i + 1].count /\ l1 = low[data[i + 1].time]
             /\ h1 = high[data[i + 1].time] /\ l1 <= c1 /\ c1 <= h1
      BY <1>2, <3>1
    <3>3. rows[i].count = c - c1
      <4>1. (IF i < N THEN data[i + 1].count ELSE 0) = data[i + 1].count
        BY <3>1
      <4>2. rows[i].count = data[i].count - data[i + 1].count
        BY <2>2, <4>1, Zenon
      <4> QED
        BY <2>3, <3>2, <4>2, Zenon
    <3>4. l - h1 <= c - c1 /\ c - c1 <= h - l1
      <4>1. l <= c /\ c <= h /\ l1 <= c1 /\ c1 <= h1
        BY <2>3, <3>2
      <4> QED
        BY <4>1
    <3>5. low[data[i].time] - high[data[i + 1].time] <= rows[i].count
          /\ rows[i].count <= high[data[i].time] - low[data[i + 1].time]
      BY <2>3, <3>2, <3>3, <3>4
    <3> QED
      BY <1>1, <2>2, <2>4, <2>6, <3>5
  <2> QED
    BY <2>5, <2>6
<1> QED
  BY <1>1, <1>8, <1>9 DEF SoundRows, rows

-----------------------------------------------------------------------------
(* A query against the files.                                              *)
LEMMA RangeIs ==
  ASSUME EightDigits, DayBase, NEW r \in Ranges
  PROVE  \E a, b \in Days : a <= b /\ b <= DayOf(now) /\ r = <<DateOfDay[a], DateOfDay[b]>>
<1>1. r \in AllRanges /\ r[2] <= today
  BY DEF Ranges
<1>2. PICK x \in Range(DateOfDay), y \in Range(DateOfDay) : r = <<x, y>> /\ x <= y /\ y <= today
  BY <1>1 DEF AllRanges
<1>3. PICK a \in Days, b \in Days : x = DateOfDay[a] /\ y = DateOfDay[b]
  BY DatesExist DEF Range
<1>4. DayOf(now) \in Days /\ today = DateOfDay[DayOf(now)]
  BY DaysSoFar DEF DayBase, ClockInv, today, Date
<1>5. \A n \in Days : n \in Reached /\ DateAt(n) = DateOfDay[n]
  BY DaysTyped DEF DateAt, Days
<1>6. a <= b /\ b <= DayOf(now)
  BY <1>2, <1>3, <1>4, <1>5, ReachedInOrder
<1> QED
  BY <1>2, <1>3, <1>6

(* The answer from the days that have data, of which each but the day      *)
(* before the range is in it.                                              *)
LEMMA ChosenSound ==
  ASSUME EightDigits, NEW a \in Days, NEW b \in Days, a <= b,
         NEW Has \in SUBSET (1 .. b - a + 2), NEW cnt \in [Has -> Int], NEW data,
         data = [i \in DOMAIN InOrder(Has) |->
                   Entry(DateAt(b + 1 - InOrder(Has)[i]), cnt[InOrder(Has)[i]])],
         NEW low, NEW high,
         \A p \in Has : cnt[p] # NoTotal =>
            /\ low[DateAt(b + 1 - p)] \in Int /\ high[DateAt(b + 1 - p)] \in Int
            /\ low[DateAt(b + 1 - p)] <= cnt[p] /\ cnt[p] <= high[DateAt(b + 1 - p)]
  PROVE  /\ (\A i \in DOMAIN data : data[i].count # NoTotal)
              => SoundRows(data, <<DateOfDay[a], DateOfDay[b]>>, low, high)
         /\ \A p \in Has : \E i \in DOMAIN data : data[i].time = DateAt(b + 1 - p)
<1>1. a \in Nat /\ b \in Nat /\ a >= 1 /\ b >= 1 /\ b <= DayOf(LastTick) /\ DayOf(LastTick) \in Nat
  BY DaysTyped DEF Days
<1>2. b - a + 2 \in Nat /\ IsFiniteSet(1 .. b - a + 2)
  <2>1. b - a + 2 \in Nat
    BY <1>1
  <2>2. 1 \in Int /\ b - a + 2 \in Int
    BY <2>1
  <2> QED
    BY <2>1, <2>2, FS_Interval
<1>3. Has \in SUBSET Nat /\ IsFiniteSet(Has)
  <2>1. IsFiniteSet(Has)
    BY <1>2, FS_Subset
  <2> QED
    BY <2>1
<1>a. PICK N \in Nat : N = Cardinality(Has)
  BY <1>3, InOrderIs
<1>4. PICK order \in [1 .. N -> Has] :
        /\ order = InOrder(Has)
        /\ \A m, n \in 1 .. N : m < n => order[m] < order[n]
        /\ \A p \in Has : \E n \in 1 .. N : order[n] = p
  BY <1>3, <1>a, InOrderIs
<1>5. data = [i \in 1 .. N |-> Entry(DateAt(b + 1 - order[i]), cnt[order[i]])]
  BY <1>4
<1>6. ASSUME NEW p \in Has
      PROVE  /\ p \in Nat /\ b + 1 - p \in Reached /\ a - 1 <= b + 1 - p /\ b + 1 - p <= b
             /\ DateAt(b + 1 - p) \in Nat
             /\ DateAt(b + 1 - p) <= DateOfDay[b]
             /\ p # b - a + 2 => DateOfDay[a] <= DateAt(b + 1 - p)
  <2>1. /\ p \in Nat /\ b + 1 - p \in Reached /\ a - 1 <= b + 1 - p /\ b + 1 - p <= b
        /\ p # b - a + 2 => a <= b + 1 - p
    BY <1>1, <1>2 DEF Reached
  <2>2. a \in Reached /\ b \in Reached /\ DateAt(a) = DateOfDay[a] /\ DateAt(b) = DateOfDay[b]
    BY <1>1, DaysTyped DEF DateAt
  <2> QED
    BY <2>1, <2>2, ReachedInOrder
<1>7. ASSUME NEW i \in 1 .. N
      PROVE  /\ data[i].time = DateAt(b + 1 - order[i]) /\ data[i].count = cnt[order[i]]
             /\ order[i] \in Has
  BY <1>5 DEF Entry
<1>8. data \in [1 .. N -> Data]
  <2>1. ASSUME NEW i \in 1 .. N
        PROVE  Entry(DateAt(b + 1 - order[i]), cnt[order[i]]) \in Data
    <3>1. order[i] \in Has
      BY <1>7
    <3>2. DateAt(b + 1 - order[i]) \in Nat /\ cnt[order[i]] \in Int
      BY <1>6, <3>1
    <3> QED
      BY <3>2 DEF Entry, Data
  <2> QED
    BY <1>5, <2>1
<1>9. ASSUME NEW i \in 1 .. N, i # N PROVE order[i] # b - a + 2
  <2>1. N \in 1 .. N /\ i < N
    BY <1>9
  <2>2. order[i] < order[N] /\ order[N] \in 1 .. b - a + 2 /\ order[i] \in 1 .. b - a + 2
    BY <1>4, <2>1
  <2> QED
    BY <1>2, <2>2
<1>10. ASSUME \A i \in DOMAIN data : data[i].count # NoTotal
       PROVE  SoundRows(data, <<DateOfDay[a], DateOfDay[b]>>, low, high)
  <2> DEFINE r == <<DateOfDay[a], DateOfDay[b]>>
  <2>1. r[1] = DateOfDay[a] /\ r[2] = DateOfDay[b]
    OBVIOUS
  <2>2. DateOfDay[a] \in Nat /\ DateOfDay[b] \in Nat
    BY DatesOnCalendar DEF OnCalendar
  <2> HIDE DEF r
  <2>3. ASSUME NEW i \in 1 .. N
        PROVE  /\ low[data[i].time] \in Int /\ high[data[i].time] \in Int
               /\ low[data[i].time] <= data[i].count /\ data[i].count <= high[data[i].time]
               /\ data[i].time <= r[2] /\ (i # N => r[1] <= data[i].time)
    <3>1. PICK p \in Has : p = order[i]
      BY <1>7
    <3>2. data[i].time = DateAt(b + 1 - p) /\ data[i].count = cnt[p]
      BY <1>7, <3>1
    <3>3. i \in DOMAIN data
      BY <1>5
    <3>4. cnt[p] # NoTotal
      BY <1>10, <3>2, <3>3
    <3>5. DateAt(b + 1 - p) <= DateOfDay[b] /\ (i # N => DateOfDay[a] <= DateAt(b + 1 - p))
      BY <1>6, <1>9, <3>1
    <3> QED
      BY <2>1, <3>2, <3>4, <3>5
  <2>4. SoundRows(data, r, low, high)
    BY <1>8, <2>1, <2>2, <2>3, RowsSound
  <2> QED
    BY <2>4 DEF r
<1>11. ASSUME NEW p \in Has PROVE \E i \in DOMAIN data : data[i].time = DateAt(b + 1 - p)
  <2>1. PICK n \in 1 .. N : order[n] = p
    BY <1>4
  <2>2. n \in DOMAIN data /\ data[n].time = DateAt(b + 1 - p)
    BY <1>5, <1>7, <2>1
  <2> QED
    BY <2>2
<1> QED
  BY <1>10, <1>11

(* The entries of the sum.                                                 *)
LowTotal  == [d \in DOMAIN dayFile \cup {today} |-> Sum(AtEnd(d))]
HighTotal == [d \in DOMAIN dayFile \cup {today} |-> Sum(AtNextEnd(d))]

LEMMA TotalSound ==
  ASSUME EightDigits, DayBase, FileInv, DayFileInTime, NEW a \in Days, NEW b \in Days, a <= b
  PROVE  LET r == <<DateOfDay[a], DateOfDay[b]>>
             data == TotalData(r)
         IN /\ (\A i \in DOMAIN data : data[i].count # NoTotal)
                 => SoundRows(data, r, LowTotal, HighTotal)
            /\ \A p \in Opened(Visited[r]) : \E i \in DOMAIN data : data[i].time = DateAt(b + 1 - p)
<1> DEFINE r == <<DateOfDay[a], DateOfDay[b]>>
           days == Visited[r]
           Has == {i \in DOMAIN days : days[i] = today} \cup Opened(days)
           Count(d) == IF d = today THEN Total ELSE dayFile[d].total
           cnt == [p \in Has |-> Count(days[p])]
           order == InOrder(Has)
           data == TotalData(r)
<1>1. days = [i \in 1 .. b - a + 2 |-> DateAt(b + 1 - i)]
  BY DaysVisited
<1>2. TotalData(r) = [i \in DOMAIN order |-> Entry(days[order[i]], Count(days[order[i]]))]
  BY DEF TotalData
<1> HIDE DEF r, days, data
<1>3. Has \in SUBSET (1 .. b - a + 2)
  BY <1>1 DEF Opened, HasFile
<1>4. ASSUME NEW p \in Has
      PROVE  /\ days[p] = today \/ days[p] \in DOMAIN dayFile
             /\ days[p] = DateAt(b + 1 - p)
  BY <1>1, <1>3 DEF Opened, HasFile
<1>5. Total \in Nat
  BY Counting DEF DayBase
<1>6. ASSUME NEW d \in DOMAIN dayFile PROVE dayFile[d].total \in Int
  <2>1. dayFile[d] \in DayFiles
    BY DEF DayBase, Base, Types
  <2> QED
    BY <2>1, ConstantsTyped DEF DayFiles
<1>7. cnt \in [Has -> Int]
  <2>1. ASSUME NEW p \in Has PROVE Count(days[p]) \in Int
    BY <1>4, <1>5, <1>6
  <2> QED
    BY <2>1
<1>8. data = [i \in DOMAIN order |-> Entry(DateAt(b + 1 - order[i]), cnt[order[i]])]
  <2>1. ASSUME NEW i \in DOMAIN order
        PROVE  days[order[i]] = DateAt(b + 1 - order[i]) /\ cnt[order[i]] = Count(days[order[i]])
    <3>1. Has \in SUBSET Nat /\ IsFiniteSet(Has)
      <4>1. b - a + 2 \in Int /\ 1 \in Int
        BY DaysTyped DEF Days
      <4>2. IsFiniteSet(1 .. b - a + 2)
        BY <4>1, FS_Interval
      <4>3. Has \in SUBSET Nat
        BY <1>3
      <4> HIDE DEF Has
      <4>4. IsFiniteSet(Has)
        BY <1>3, <4>2, FS_Subset, Zenon
      <4> QED
        BY <4>3, <4>4
    <3>2. order[i] \in Has
      <4> HIDE DEF Has
      <4> QED
        BY <3>1, InOrderIs
    <3> QED
      BY <1>4, <3>2
  <2> QED
    BY <1>2, <2>1 DEF data
<1>9. ASSUME NEW d \in DOMAIN dayFile \cup {today}, Count(d) # NoTotal
      PROVE  /\ LowTotal[d] \in Int /\ HighTotal[d] \in Int
             /\ LowTotal[d] <= Count(d) /\ Count(d) <= HighTotal[d]
  <2>1. LowTotal[d] = Sum(AtEnd(d)) /\ HighTotal[d] = Sum(AtNextEnd(d))
    BY DEF LowTotal, HighTotal
  <2>2. CASE d = today
    <3>1. AtEnd(d) = m_EachTotalData /\ AtNextEnd(d) = m_EachTotalData
      BY <2>2 DEF AtEnd, AtNextEnd
    <3>2. LowTotal[d] = Total /\ HighTotal[d] = Total
      BY <2>1, <3>1, Zenon DEF Total
    <3> QED
      BY <1>5, <2>2, <3>2
  <2>3. CASE d # today
    <3>1. d \in DOMAIN dayFile /\ Count(d) = dayFile[d].total
      BY <2>3
    <3>2. PICK n \in 1 .. DayOf(now) - 1 : d = DateOfDay[n]
      BY <3>1 DEF FileInv, FilesSound
    <3>3. AtEnd(d) \in Counts /\ AtNextEnd(d) \in Counts
      BY <3>2, EndsAre
    <3>4. Sum(AtEnd(d)) \in Nat /\ Sum(AtNextEnd(d)) \in Nat
      BY <3>3, SumNat
    <3>5. dayFile[d].total \in Sum(AtEnd(d)) .. Sum(AtNextEnd(d))
      <4>1. Complete(d)
        BY <1>9, <3>1 DEF Complete
      <4> QED
        BY <3>1, <4>1 DEF DayFileInTime
    <3> QED
      BY <2>1, <3>1, <3>4, <3>5
  <2> QED
    BY <2>2, <2>3
<1>10. ASSUME NEW p \in Has, cnt[p] # NoTotal
       PROVE  /\ LowTotal[DateAt(b + 1 - p)] \in Int /\ HighTotal[DateAt(b + 1 - p)] \in Int
              /\ LowTotal[DateAt(b + 1 - p)] <= cnt[p] /\ cnt[p] <= HighTotal[DateAt(b + 1 - p)]
  <2>1. PICK d \in DOMAIN dayFile \cup {today} : d = days[p] /\ d = DateAt(b + 1 - p)
    BY <1>4
  <2>2. cnt[p] = Count(d)
    BY <2>1
  <2> HIDE DEF Count, cnt
  <2> QED
    BY <1>9, <1>10, <2>1, <2>2
<1>11. Opened(days) \subseteq Has
  OBVIOUS
<1> HIDE DEF Has, cnt, order
<1>12. /\ (\A i \in DOMAIN data : data[i].count # NoTotal)
            => SoundRows(data, r, LowTotal, HighTotal)
       /\ \A p \in Has : \E i \in DOMAIN data : data[i].time = DateAt(b + 1 - p)
  BY <1>3, <1>7, <1>8, <1>10, ChosenSound DEF order, r
<1> QED
  BY <1>11, <1>12 DEF r, days, data

(* The entries of a device whose id is no part of another's.               *)
LowEach(k)  == [d \in DOMAIN dayFile \cup {today} |-> AtEnd(d)[k]]
HighEach(k) == [d \in DOMAIN dayFile \cup {today} |-> AtNextEnd(d)[k]]

LEMMA EachSound ==
  ASSUME EightDigits, DayBase, FileInv, LinesInv, NEW a \in Days, NEW b \in Days, a <= b,
         NEW k \in Keys, PartOf[k] = {k}
  PROVE  LET r == <<DateOfDay[a], DateOfDay[b]>>
             data == EachData(k, r)
         IN (\A i \in DOMAIN data : data[i].count # NoTotal)
              => SoundRows(data, r, LowEach(k), HighEach(k))
<1> DEFINE r == <<DateOfDay[a], DateOfDay[b]>>
           days == Visited[r]
           Has == {i \in DOMAIN days : days[i] = today /\ k \in Counted}
                  \cup {i \in Opened(days) : Lines(k, days[i]) # {} \/ ~Complete(days[i])}
           Count(d) == IF d = today THEN m_EachTotalData[k] ELSE LineCount(k, d)
           cnt == [p \in Has |-> Count(days[p])]
           order == InOrder(Has)
           data == EachData(k, r)
<1>1. days = [i \in 1 .. b - a + 2 |-> DateAt(b + 1 - i)]
  BY DaysVisited
<1>2. EachData(k, r) = [i \in DOMAIN order |-> Entry(days[order[i]], Count(days[order[i]]))]
  BY DEF EachData
<1> HIDE DEF r, days, data
<1>3. Has \in SUBSET (1 .. b - a + 2)
  BY <1>1 DEF Opened, HasFile
<1>4. ASSUME NEW p \in Has
      PROVE  /\ days[p] = today \/ days[p] \in DOMAIN dayFile
             /\ days[p] = DateAt(b + 1 - p)
  BY <1>1, <1>3 DEF Opened, HasFile
<1>5. m_EachTotalData[k] \in Nat
  BY DEF DayBase, Base, Types, Counts
<1>6. ASSUME NEW d \in DOMAIN dayFile
      PROVE  \/ LineCount(k, d) = NoTotal
             \/ /\ LineCount(k, d) = dayFile[d].each[k] /\ dayFile[d].each[k] \in Nat
                /\ dayFile[d].each[k] # 0
  <2>1. dayFile[d].each[k] \in Nat
    <3>1. dayFile[d] \in DayFiles
      BY DEF DayBase, Base, Types
    <3> QED
      BY <3>1 DEF DayFiles, Counts
  <2>2. CASE Lines(k, d) = {}
    BY <2>2 DEF LineCount
  <2>3. CASE Lines(k, d) # {}
    <3>1. Lines(k, d) = {k} /\ dayFile[d].each[k] > 0
      BY <2>3 DEF Lines
    <3>2. (CHOOSE k2 \in Lines(k, d) : TRUE) = k
      BY <3>1
    <3>3. LineCount(k, d) = dayFile[d].each[CHOOSE k2 \in Lines(k, d) : TRUE]
      BY <2>3 DEF LineCount
    <3>4. LineCount(k, d) = dayFile[d].each[k]
      BY <3>2, <3>3, Zenon
    <3> QED
      BY <2>1, <3>1, <3>4
  <2> QED
    BY <2>2, <2>3
<1>7. cnt \in [Has -> Int]
  <2>1. ASSUME NEW p \in Has PROVE Count(days[p]) \in Int
    <3>1. NoTotal \in Int
      BY ConstantsTyped
    <3>2. CASE days[p] = today
      BY <1>5, <3>2
    <3>3. CASE days[p] # today
      <4>1. LineCount(k, days[p]) \in Int
        BY <1>4, <1>6, <3>1, <3>3
      <4> QED
        BY <3>3, <4>1
    <3> QED
      BY <3>2, <3>3
  <2> QED
    BY <2>1
<1>8. data = [i \in DOMAIN order |-> Entry(DateAt(b + 1 - order[i]), cnt[order[i]])]
  <2>1. ASSUME NEW i \in DOMAIN order
        PROVE  days[order[i]] = DateAt(b + 1 - order[i]) /\ cnt[order[i]] = Count(days[order[i]])
    <3>1. Has \in SUBSET Nat /\ IsFiniteSet(Has)
      <4>1. b - a + 2 \in Int /\ 1 \in Int
        BY DaysTyped DEF Days
      <4>2. IsFiniteSet(1 .. b - a + 2)
        BY <4>1, FS_Interval
      <4>3. Has \in SUBSET Nat
        BY <1>3
      <4> HIDE DEF Has
      <4>4. IsFiniteSet(Has)
        BY <1>3, <4>2, FS_Subset, Zenon
      <4> QED
        BY <4>3, <4>4
    <3>2. order[i] \in Has
      <4> HIDE DEF Has
      <4> QED
        BY <3>1, InOrderIs
    <3> QED
      BY <1>4, <3>2
  <2> QED
    BY <1>2, <2>1 DEF data
<1>9. ASSUME NEW d \in DOMAIN dayFile \cup {today}, Count(d) # NoTotal
      PROVE  /\ LowEach(k)[d] \in Int /\ HighEach(k)[d] \in Int
             /\ LowEach(k)[d] <= Count(d) /\ Count(d) <= HighEach(k)[d]
  <2>1. LowEach(k)[d] = AtEnd(d)[k] /\ HighEach(k)[d] = AtNextEnd(d)[k]
    BY DEF LowEach, HighEach
  <2>2. CASE d = today
    <3>1. AtEnd(d) = m_EachTotalData /\ AtNextEnd(d) = m_EachTotalData
      BY <2>2 DEF AtEnd, AtNextEnd
    <3> QED
      BY <1>5, <2>1, <2>2, <3>1
  <2>3. CASE d # today
    <3>1. d \in DOMAIN dayFile /\ Count(d) = LineCount(k, d)
      BY <2>3
    <3>2. /\ Count(d) = dayFile[d].each[k] /\ dayFile[d].each[k] \in Nat
          /\ dayFile[d].each[k] # 0
      BY <1>6, <1>9, <3>1
    <3>3. PICK n \in 1 .. DayOf(now) - 1 : d = DateOfDay[n]
      BY <3>1 DEF FileInv, FilesSound
    <3>4. /\ AtEnd(d) = CountsOf(n) /\ AtNextEnd(d) = CountsOf(n + 1)
          /\ CountsOf(n) \in Counts /\ CountsOf(n + 1) \in Counts
      BY <3>3, EndsAre
    <3>5. CountsOf(n)[k] <= dayFile[d].each[k] /\ dayFile[d].each[k] <= CountsOf(n + 1)[k]
      BY <3>1, <3>2, <3>3 DEF LinesInv, LineSound
    <3>6. CountsOf(n)[k] \in Nat /\ CountsOf(n + 1)[k] \in Nat
      BY <3>4 DEF Counts
    <3> HIDE DEF Count
    <3> QED
      BY <2>1, <3>2, <3>4, <3>5, <3>6
  <2> QED
    BY <2>2, <2>3
<1>10. ASSUME NEW p \in Has, cnt[p] # NoTotal
       PROVE  /\ LowEach(k)[DateAt(b + 1 - p)] \in Int /\ HighEach(k)[DateAt(b + 1 - p)] \in Int
              /\ LowEach(k)[DateAt(b + 1 - p)] <= cnt[p]
              /\ cnt[p] <= HighEach(k)[DateAt(b + 1 - p)]
  <2>1. PICK d \in DOMAIN dayFile \cup {today} : d = days[p] /\ d = DateAt(b + 1 - p)
    BY <1>4
  <2>2. cnt[p] = Count(d)
    BY <2>1
  <2> HIDE DEF Count, cnt, Has
  <2> QED
    BY <1>9, <1>10, <2>1, <2>2
<1> HIDE DEF Has, cnt, order
<1>11. (\A i \in DOMAIN data : data[i].count # NoTotal)
         => SoundRows(data, r, LowEach(k), HighEach(k))
  BY <1>3, <1>7, <1>8, <1>10, ChosenSound DEF order, r
<1> QED
  BY <1>11 DEF r, days, data

(* A query finds every file of the days it visits while descriptors last.  *)
LEMMA AllFound ==
  ASSUME EightDigits, DayBase, FileInv, NEW a \in Days, NEW b \in Days, a <= b,
         NEW d \in DOMAIN dayFile, DayBefore(DateOfDay[a]) <= d, d <= DateOfDay[b]
  PROVE  \E p \in HasFile(Visited[<<DateOfDay[a], DateOfDay[b]>>]) : d = DateAt(b + 1 - p)
<1>1. a \in Nat /\ b \in Nat /\ a >= 1 /\ b >= 1
  BY DaysTyped DEF Days
<1>2. PICK n \in 1 .. DayOf(now) - 1 : d = DateOfDay[n]
  BY DEF FileInv, FilesSound
<1>3. d # today
  BY <1>2, EndsAre
<1>4. n \in Days /\ n \in Nat /\ n >= 1 /\ n \in Reached /\ DateAt(n) = d
  <2>1. n \in 1 .. DayOf(now)
    BY DayTyped DEF DayBase, Base, Types
  <2>2. n \in Days
    BY <2>1, DaysSoFar DEF DayBase, ClockInv
  <2> QED
    BY <1>2, <2>2, DaysTyped DEF DateAt
<1>5. a \in Reached /\ b \in Reached /\ DateAt(a) = DateOfDay[a] /\ DateAt(b) = DateOfDay[b]
  BY <1>1, DaysTyped DEF DateAt
<1>6. a - 1 \in Reached /\ DayBefore(DateOfDay[a]) = DateAt(a - 1)
  <2>1. a # -1
    BY <1>1
  <2> QED
    BY <1>5, <2>1, OneDayBack
<1>7. a - 1 <= n /\ n <= b
  BY <1>4, <1>5, <1>6, ReachedInOrder
<1>8. PICK p \in 1 .. b - a + 2 : p = b + 1 - n
  <2>1. b + 1 - n \in 1 .. b - a + 2
    BY <1>1, <1>4, <1>7
  <2> QED
    BY <2>1, Zenon
<1>9. b + 1 - p = n
  BY <1>1, <1>4, <1>8
<1>10. PICK days : days = Visited[<<DateOfDay[a], DateOfDay[b]>>]
                   /\ days = [i \in 1 .. b - a + 2 |-> DateAt(b + 1 - i)]
  BY DaysVisited
<1>11. p \in DOMAIN days /\ days[p] = d
  BY <1>4, <1>9, <1>10
<1>12. p \in HasFile(days)
  BY <1>3, <1>11 DEF HasFile
<1> QED
  BY <1>4, <1>9, <1>10, <1>12

(* The rows of an answer are right whatever files are missing: a row       *)
(* counts what was received in its days, as far as a count read while the  *)
(* writers go on can be exact, of each device as of all, each day of the   *)
(* range that has a file is in the answer, and none before it.  It needs   *)
(* that the clock stays among the dates of eight digits.                   *)
THEOREM DayRowsRight == ASSUME EightDigits PROVE Spec => []DayRowsSound
<1>1. Init => DayBase /\ FileInv /\ LinesInv
  <2> SUFFICES ASSUME Init PROVE DayBase /\ FileInv /\ LinesInv
    OBVIOUS
  <2>1. DOMAIN dayFile = {}
    BY DEF Init
  <2> QED
    BY <2>1, FileInit DEF LinesInv
<1>2. DayBase /\ FileInv /\ LinesInv /\ [Next]_vars => (DayBase /\ FileInv /\ LinesInv)'
  <2> SUFFICES ASSUME DayBase, FileInv, LinesInv, [Next]_vars
               PROVE  (DayBase /\ FileInv /\ LinesInv)'
    OBVIOUS
  <2>1. DayBase'
    BY BaseNext, AddNext, MidnightNext, ClockNext DEF DayBase
  <2> QED
    BY <2>1, FileNext, LinesNext
<1>3. DayBase /\ FileInv /\ LinesInv /\ DayFileInTime => DayRowsSound
  <2> SUFFICES ASSUME DayBase, FileInv, LinesInv, DayFileInTime, NEW r \in Ranges
               PROVE  LET data == TotalData(r)
                      IN /\ (\A i \in DOMAIN data : data[i].count # NoTotal)
                              => SoundRows(data, r, LowTotal, HighTotal)
                         /\ AllOpened(r) =>
                              \A d \in DOMAIN dayFile : DayBefore(r[1]) <= d /\ d <= r[2] =>
                                \E i \in DOMAIN data : data[i].time = d
                         /\ \A k \in Keys : PartOf[k] = {k} =>
                              ((\A i \in DOMAIN EachData(k, r) : EachData(k, r)[i].count # NoTotal)
                                => SoundRows(EachData(k, r), r, LowEach(k), HighEach(k)))
    BY Zenon DEF DayRowsSound, LowTotal, HighTotal, LowEach, HighEach
  <2>1. PICK a \in Days, b \in Days : a <= b /\ r = <<DateOfDay[a], DateOfDay[b]>>
    BY RangeIs
  <2>2. PICK data : data = TotalData(r)
    OBVIOUS
  <2>3. /\ (\A i \in DOMAIN data : data[i].count # NoTotal)
             => SoundRows(data, r, LowTotal, HighTotal)
        /\ \A p \in Opened(Visited[r]) : \E i \in DOMAIN data : data[i].time = DateAt(b + 1 - p)
    BY <2>1, <2>2, TotalSound, Zenon
  <2>4. ASSUME AllOpened(r), NEW d \in DOMAIN dayFile, DayBefore(r[1]) <= d, d <= r[2]
        PROVE  \E i \in DOMAIN data : data[i].time = d
    <3>1. r[1] = DateOfDay[a] /\ r[2] = DateOfDay[b]
      BY <2>1
    <3>2. PICK p \in HasFile(Visited[r]) : d = DateAt(b + 1 - p)
      BY <2>1, <2>4, <3>1, AllFound
    <3>3. p \in Opened(Visited[r])
      BY <2>4 DEF AllOpened
    <3> QED
      BY <2>3, <3>2, <3>3
  <2>5. ASSUME NEW k \in Keys, PartOf[k] = {k}
        PROVE  (\A i \in DOMAIN EachData(k, r) : EachData(k, r)[i].count # NoTotal)
                 => SoundRows(EachData(k, r), r, LowEach(k), HighEach(k))
    BY <2>1, <2>5, EachSound, Zenon
  <2> QED
    BY <2>2, <2>3, <2>4, <2>5, Zenon
<1> QED
  BY <1>1, <1>2, <1>3, DayFilesInTime, PTL DEF Spec
=============================================================================
