SPECIFICATION CleanSpec
CONSTANTS
  SaveDays = {60}
  CleanFirst = 20160130
  CleanLast = 20160301
  MaxMissed = 1
  Drift = 6
CHECK_DEADLOCK FALSE
PROPERTY
  KeepsSavedDays
