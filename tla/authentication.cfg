SPECIFICATION AuthFairSpec
CONSTANTS
  device = device
  role = role
  firebase = firebase
  m1 = m1
  m2 = m2
  NoConn = NoConn
  NotRead = NotRead
  Key <- MCKey
  Caller <- MCCaller
  Tenant = firebase
  DeviceUser = {device}
  RoleUser = {role}
  TTL = 1
  MaxNow = 4
  MaxTimer = 3
  MaxEdits = 1
INVARIANTS
  AuthTypeOK
  EntryIsTimed
  RightsOfOneHandshake
  BoundIsAuthentic
PROPERTIES
  EntryIsRemoved
CHECK_DEADLOCK FALSE
