SPECIFICATION Spec
CONSTANTS
  ip1 = ip1
  ip1ip1 = ip1ip1
  NoCred = NoCred
  Key <- Strings
  Ip <- OneIp
  Cred <- OneCred
  Join <- Joined
  Config <- Rules
  MaxNow = 5
  MaxRequests = 6
INVARIANTS
  TypeOK
  BurstBound
  LockoutBound
CHECK_DEADLOCK FALSE
