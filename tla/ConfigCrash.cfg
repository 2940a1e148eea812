SPECIFICATION Spec
CONSTANTS
  Refreshers = {r1, r2}
  MaxEdits = 2
  Silent = FALSE
  main = main
  None = None
INVARIANT CaptureSurvivesReload
CHECK_DEADLOCK FALSE
