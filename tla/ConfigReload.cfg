SPECIFICATION FairSpec
CONSTANTS
  Refreshers = {r1, r2}
  MaxEdits = 2
  Silent = TRUE
  main = main
  None = None
INVARIANTS TypeOK OneRefresher WipeCostsOneFrame FreedTwiceExplained
PROPERTIES LastVersionLoaded StopReturns RefinesRefresher
CHECK_DEADLOCK FALSE
