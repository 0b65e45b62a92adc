SPECIFICATION Spec
CONSTANTS
  k1 = k1
  k2 = k2
  r1 = r1
  r2 = r2
  r3 = r3
  Keys = {k1, k2}
  Records <- MCRecords3
  KeyOf <- MCKeyOf3
  BinaryWriters = {bin}
  RestWriters = {rest}
  Requests <- MCBatches3
  None = None
  MaxCrashes = 0
  MaxFails = 0
INVARIANTS
  StatisticsMatchLocus
  
PROPERTY
  MapsAsSeen
