SPECIFICATION Spec
CONSTANTS
  Conns = {c1, c2, c3}
  NSlots = 2
  MaxThreads = 3
  main = main
  NULL = NULL
SYMMETRY Symmetry
INVARIANT SlotBufferUsable
CHECK_DEADLOCK FALSE
