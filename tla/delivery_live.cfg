SPECIFICATION TimerSpec
CONSTANTS
  dev = dev
  b1 = b1
  b2 = b2
  NoUser = NoUser
  User <- TwoUsers
  Route <- Single
  Kind <- BothAndLong
  Handler = {h1}
  NEvents = 1
  MaxTotal = 3
  MaxPerUser = 3
  DeliveredTimeout = 1
  StaleTimeout = 1
  MaxAttempts = 2
  BackoffBase = 1
  AckTtl = 1
  MaxNow = 6
  MaxSends = 2
  MaxCrashes = 1
  Away = {}
PROPERTIES
  KeepsPromise
  ExpiredIsRemoved
  StoredIsSent
