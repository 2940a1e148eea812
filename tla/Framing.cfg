SPECIFICATION Spec
CONSTANTS
  BodyLength = 3
  Messages = 4
  MY_BUFSIZ = 26
INVARIANTS TypeOK PiecesPrinted CleanIsParsed
CHECK_DEADLOCK FALSE
