SPECIFICATION Spec
CONSTANTS
  k1 = k1
  k2 = k2
  r1 = r1
  r2 = r2
  r3 = r3
  Keys = {k1, k2}
  Records <- MCRecords2
  KeyOf <- MCTwoKeys
  BinaryWriters = {bin}
  RestWriters = {rest}
  Requests <- MCSingles2
  None = None
  MaxCrashes = 1
  MaxFails = 1
INVARIANTS
  
  
  
  DuplicatesBounded
  LastFilesCurrent
PROPERTY
  LastPosNeverRegresses
SYMMETRY MCAlike
