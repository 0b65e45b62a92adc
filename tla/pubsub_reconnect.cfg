SPECIFICATION FairSpec
CONSTANTS
  r1 = r1
  r2 = r2
  r3 = r3
  Customers = {1}
  Records = {r1, r2, r3}
  Requests <- MCOneRequest
  MaxCrashes = 0
  MaxFails = 1
  Producers = {bin, rest}
  Publishers = {p1, p2}
  MaxBuffer = 1
  MaxLosses = 1
INVARIANTS
  SizeBounded
PROPERTY
  QueuedIsTaken
