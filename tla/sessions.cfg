SPECIFICATION MCSpec
CONSTANTS
  dev = dev
  b1 = b1
  c1 = c1
  c2 = c2
  c3 = c3
  p1 = p1
  p2 = p2
  NoSock = NoSock
  AnyProduct = AnyProduct
  Product <- MCProduct
  ProductOf <- MCProductOf
  Device <- MCDevice
  Browser <- MCBrowser
  Sock <- MCSock
  Dead <- MCDead
  MaxMissed = 3
INVARIANTS
  TypeOK
  SuspendedIsTimed
  ViewIsCurrent
PROPERTIES
  OnlyOwnSocketSuspends
  KeepsPresence
  HeartbeatIsPatient
  DeadPeerIsRemoved
