SPECIFICATION MCFairSpec
CONSTANTS
  k1 = k1
  k2 = k2
  r1 = r1
  r2 = r2
  r3 = r3
  Keys = {k1, k2}
  Records <- MCRecords2
  KeyOf <- MCKeyOf2
  BinaryWriters = {bin}
  RestWriters = {rest}
  Requests <- MCSingles2
  None = None
  MaxCrashes = 0
  MaxFails = 1
PROPERTY
  EventuallyFiled
