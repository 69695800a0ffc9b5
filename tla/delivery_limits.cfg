SPECIFICATION Spec
CONSTANTS
  dev = dev
  b1 = b1
  b2 = b2
  NoUser = NoUser
  User <- MCUser
  Route <- Mixed
  Kind <- OnlyQos2
  Handler = {h1}
  NEvents = 3
  MaxTotal = 1
  MaxPerUser = 1
  DeliveredTimeout = 0
  StaleTimeout = 1
  MaxAttempts = 2
  BackoffBase = 1
  AckTtl = 1
  MaxNow = 3
  MaxSends = 1
  MaxCrashes = 1
  Away = {b2}
INVARIANTS
  StoreConsistent
  TotalBound
  PendingBound
PROPERTIES
  KeepsPromise
