SPECIFICATION MCSpec
CONSTANTS
  k1 = k1
  k2 = k2
  r1 = r1
  r2 = r2
  r3 = r3
  r5 = r5
  a = a
  b = b
  Keys = {k1, k2}
  Records = {r1, r2, r3, r5}
  KeyOf <- MCKeyOf
  TimeOf <- MCTimeOf
  CellOf <- MCCellOf
  HourTicks = 2
  DayHours = 2
  DayGap = 1
  IndexRange = 4
  Requests <- MCRequests
  None = None
  NoKey = NoKey
  MaxFails = 1
INVARIANTS
  FiledIsSeen
  AroundNewest
