SPECIFICATION FairSpec
CONSTANTS
  Refreshers = {r1, r2}
  MaxEdits = 1
  Silent = FALSE
  main = main
  None = None
PROPERTY ChangeIsReloaded
CHECK_DEADLOCK FALSE
