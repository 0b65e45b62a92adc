SPECIFICATION FairSpec
CONSTANTS
  c1 = c1
  c2 = c2
  r1 = r1
  r2 = r2
  r3 = r3
  r4 = r4
  r5 = r5
  Records = {r1, r2, r3, r4, r5}
  HourOf <- MCHourOf
  Garbage = Garbage
  Clients = {c1, c2}
  Packets <- MCPackets
  Pipelining = {c2}
  BufferSize = 2
  MaxCrashes = 1
CHECK_DEADLOCK FALSE
INVARIANTS
  SessionFaithful
  NothingStranded
  CurTimeKept
PROPERTY
  PacketAnswered
