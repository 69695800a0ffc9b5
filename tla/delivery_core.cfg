SPECIFICATION Spec
CONSTANTS
  dev = dev
  b1 = b1
  b2 = b2
  NoUser = NoUser
  User <- MCUser
  Route <- Fanout
  Kind <- Both
  Handler = {h1}
  NEvents = 2
  MaxTotal = 3
  MaxPerUser = 3
  DeliveredTimeout = 0
  StaleTimeout = 1
  MaxAttempts = 2
  BackoffBase = 1
  AckTtl = 1
  MaxNow = 3
  MaxSends = 2
  MaxCrashes = 0
  Away = {}
INVARIANTS
  TypeOK
  StoreConsistent
  NoEarlyLoss
  NoRedundantSend
  ExpiredIsHonest
  NeverFailed
SYMMETRY Browsers
