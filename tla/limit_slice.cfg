SPECIFICATION Spec
CONSTANTS
  dev = dev
  b1 = b1
  b2 = b2
  NoUser = NoUser
  User <- TwoUsers
  Route <- Single
  Kind <- OnlyQos1
  Handler = {h1}
  NEvents = 4
  MaxTotal = 5
  MaxPerUser = 3
  DeliveredTimeout = 0
  StaleTimeout = 1
  MaxAttempts = 2
  BackoffBase = 1
  AckTtl = 1
  MaxNow = 5
  MaxSends = 2
  MaxCrashes = 0
  Away = {}
PROPERTIES
  EvictsOnlyAboveLimit
