SPECIFICATION Spec
CONSTANTS
  a = a
  b = b
  p1 = p1
  p2 = p2
  t1 = t1
  t2 = t2
  t3 = t3
  Client <- MCClient
  Req <- MCReq
  Token <- MCToken
  None = None
INVARIANTS
  TypeOK
  ServedIsDead
  OneActivePerSlot
SYMMETRY Symmetry
