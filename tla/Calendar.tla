------------------------------ MODULE Calendar ------------------------------
(***************************************************************************)
(* Dates as the server keeps them: one integer yyyymmdd.  reduce_days and  *)
(* reduce_days2 are the two ways of utils.cpp to go back some days; the    *)
(* first part is the real calendar, which localtime gives the program.     *)
(***************************************************************************)
EXTENDS Integers

Year(d)  == d \div 10000
Month(d) == (d \div 100) % 100
Day(d)   == d % 100
DateOf(y, m, d) == y * 10000 + m * 100 + d

-----------------------------------------------------------------------------
(* the calendar of the C library *)

LeapYear(y) == y % 400 = 0 \/ (y % 4 = 0 /\ y % 100 # 0)

MonthDays(y, m) ==
  CASE m = 2 -> IF LeapYear(y) THEN 29 ELSE 28
    [] m \in {4, 6, 9, 11} -> 30
    [] OTHER -> 31

IsDate(d) ==
  /\ d \in Nat /\ 10000000 <= d /\ d < 100000000
  /\ Month(d) \in 1 .. 12
  /\ Day(d) \in 1 .. MonthDays(Year(d), Month(d))

Tomorrow(d) ==
  IF Day(d) < MonthDays(Year(d), Month(d)) THEN d + 1
  ELSE IF Month(d) < 12 THEN DateOf(Year(d), Month(d) + 1, 1)
  ELSE DateOf(Year(d) + 1, 1, 1)

(* days before the first of month m in a year without a 29th of February *)
DaysBefore == <<0, 31, 59, 90, 120, 151, 181, 212, 243, 273, 304, 334>>

(* the number of a date in the count of days since the year 0 *)
DayNumber(d) ==
  LET y == Year(d) - 1
  IN 365 * y + y \div 4 - y \div 100 + y \div 400
     + DaysBefore[Month(d)] + Day(d)
     + (IF LeapYear(Year(d)) /\ Month(d) > 2 THEN 1 ELSE 0)

DaysBetween(d, e) == DayNumber(e) - DayNumber(d)

-----------------------------------------------------------------------------
(* reduce_days: months of 30 days and years of 365, which may end in a     *)
(* month or a day 0; more than 1000 days, or no date, changes nothing.     *)
OutOfRange(day_time) == day_time >= 100000000 \/ day_time < 10000000

reduce_days(day_time, days) ==
  LET y       == Year(day_time)
      hDays   == Day(day_time) - days
      dDays   == Month(day_time) * 30 + hDays
      dmDays  == 3 * 365 + dDays
      OfYear(year, n) == DateOf(year, n \div 30, n % 30)
  IN IF OutOfRange(day_time) \/ days > 1000 THEN day_time
     ELSE IF hDays >= 0 THEN DateOf(y, Month(day_time), hDays)
     ELSE IF dDays >= 0 THEN OfYear(y, dDays)
     ELSE OfYear(y - 3 + dmDays \div 365, dmDays % 365)

(* one turn of the loop of reduce_days2 *)
DayBefore(day_time) ==
  LET y == Year(day_time)
      m == Month(day_time)
  IN IF Day(day_time) # 1 THEN day_time - 1
     ELSE IF m = 1 THEN DateOf(y - 1, 12, 31)
     ELSE DateOf(y, m - 1, MonthDays(y, m - 1))

reduce_days2(day_time, days) ==
  LET Back[n \in 0 .. days] ==
        IF n = 0 THEN day_time ELSE DayBefore(Back[n - 1])
  IN IF OutOfRange(day_time) THEN day_time ELSE Back[days]
=============================================================================
