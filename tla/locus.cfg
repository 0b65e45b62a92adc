SPECIFICATION MCSpec
CONSTANTS
  k1 = k1
  k2 = k2
  r1 = r1
  r2 = r2
  r3 = r3
  r4 = r4
  r5 = r5
  None = None
  BucketOf <- MCBucketOf
  HourTicks = 2
  DayHours = 2
  IndexRange = 65536
  Keys = {k1, k2}
  Records = {r1, r2, r3, r4, r5}
  KeyOf <- MCKeyOf
  TimeOf <- MCTimeOf
  PosOf <- MCPosOf
  Press = TRUE
  PressDist = 1
  Queries <- MCQueries
  MaxQueries = 1
  MaxCrashes = 1
  MaxFails = 1
CHECK_DEADLOCK FALSE
INVARIANTS
  LocusInv
  PressedNear
  AnswerSound
  AnswerFollowsArrival
  

  
