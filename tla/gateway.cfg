SPECIFICATION MCSpec
CONSTANTS
  dev = dev
  b1 = b1
  c1 = c1
  c2 = c2
  c3 = c3
  NoSock = NoSock
  NoUser = NoUser
  Device <- MCDevice
  Browser <- MCBrowser
  Sock <- MCSock
  Dead = {}
  MaxMissed = 1
  Route <- MCRoute
  Kind <- MCKind
  Handler = {h1}
  NEvents = 1
  MaxTotal = 3
  MaxPerUser = 3
  DeliveredTimeout = 0
  StaleTimeout = 1
  MaxAttempts = 2
  BackoffBase = 1
  AckTtl = 1
  MaxNow = 3
  MaxSends = 2
  MaxCrashes = 1
  Away = {}
  p1 = p1
  p2 = p2
  AnyProduct = AnyProduct
  Product <- MCProduct
  ProductOf <- MCProductOf
INVARIANTS
  ViewIsCurrent
PROPERTIES
  KeepsPromise
  KeepsPresence
  ImplementsDelivery
