SPECIFICATION Spec
CONSTANTS
  t1 = t1
  t2 = t2
  t3 = t3
  Task <- ThreeTasks
  Event <- OneHandler
  Row <- AlarmRow
  IdDevice = 1
  Blacklist = {3}
  Whitelist = {1, 4}
  TTL = 1
  MaxNow = 4
  MaxSock = 1
PROPERTIES
  FreshVerdict
SYMMETRY Tasks
CHECK_DEADLOCK FALSE
