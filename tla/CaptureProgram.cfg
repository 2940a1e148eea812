SPECIFICATION FairSpec
CONSTANTS
  Producers = {p1, p2}
  Nodes = {n1, n2, n3}
  trans = trans
  NULL = NULL
  main = main
  poller = poller
  MaxCalls = 2
INVARIANTS CaptureTypeOK ListIntact OneOwner FaultsExplained ExitIsClean
PROPERTIES RefinesFifo PushedIsSent ShutdownEnds
CHECK_DEADLOCK FALSE
