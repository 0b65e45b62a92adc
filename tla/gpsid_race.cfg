SPECIFICATION InfoSpec
CONSTANTS
  Ids = {k1, k2}
  BinaryWriters = {bin}
  RestWriters = {rest}
  MaxCrashes = 2
  MaxFails = 1
  Infos = {"plain", "short", "blank"}
  Readable = {"plain", "blank"}
  ReadAs <- MCReadAs
  NoInfo = NoInfo
  MaxInfos = 2
INVARIANTS
  OnceUnlessRaced
  ListedIsKept
  LoggedIsRegistered
  InfoKept
SYMMETRY MCSymmetry
