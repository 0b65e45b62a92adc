SPECIFICATION Spec
CONSTANTS
  r1 = r1
  r2 = r2
  r3 = r3
  Customers = {1, 2}
  Records = {r1, r2}
  Requests <- MCRequests
  MaxCrashes = 1
  MaxFails = 0
  Producers = {bin, rest}
  Publishers = {p1}
  MaxBuffer = 1
  MaxLosses = 1
INVARIANTS
  PublishedToSubscribers
  SubscriptionsKept
  FileKeepsWanted
PROPERTY
  PublishesInOrder
