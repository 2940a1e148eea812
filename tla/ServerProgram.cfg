SPECIFICATION FairSpec
CONSTANTS
  Conns = {c1, c2}
  NSlots = 2
  MaxThreads = 2
  Refreshers = {r1}
  main = main
  NULL = NULL
  None = None
INVARIANTS EarlyJoinExplained
PROPERTIES GoneIsClosed ShutdownEnds
CHECK_DEADLOCK FALSE
