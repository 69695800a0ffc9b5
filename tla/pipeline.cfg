SPECIFICATION FairSpec
CONSTANTS
  t1 = t1
  t2 = t2
  t3 = t3
  Task <- OneTask
  Event <- EveryEvent
  Row <- EveryRow
  IdDevice = 1
  Blacklist = {3}
  Whitelist = {1, 4}
  TTL = 1
  MaxNow = 0
  MaxSock = 2
INVARIANTS
  TypeOK
  MailIsTrue
  ErrorIsFinal
PROPERTIES
  NoSilence
CHECK_DEADLOCK FALSE
