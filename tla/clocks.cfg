SPECIFICATION MCSpec
CONSTANTS
  k1 = k1
  k2 = k2
  NoKey = NoKey
  Keys = {k1, k2}
  PartOf <- MCPartOf
  FirstDay = 20160228
  DayTicks = 3
  m_intervalTime = 2
  m_cycleNum = 2
  LastTick = 6
  MaxCount = 2
  MaxFds = 2
  MaxCrashes = 1
  SaveDays = {7, 30, 60}
  CleanFirst = 20151201
  CleanLast = 20170301
  MaxMissed = 2
  Drift = 6
CHECK_DEADLOCK FALSE
INVARIANTS
  
  NoEarlyInterval
  
  MidnightFiled
  
  OldFilesGone
PROPERTY
  KeptOutsideMonthZero
