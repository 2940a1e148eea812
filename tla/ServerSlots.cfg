SPECIFICATION Spec
CONSTANTS
  Conns = {c1, c2, c3, c4}
  NSlots = 2
  MaxThreads = 3
  main = main
  NULL = NULL
SYMMETRY Symmetry
INVARIANTS TypeOK OwnConnection DescriptorsKnown SlotsComeBack BuffersKept FaultsExplained
CHECK_DEADLOCK FALSE
