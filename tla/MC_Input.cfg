SPECIFICATION Spec
CONSTANTS
  MAX_TERMINAL_NUM = 2
  KEYB_BUFFER_SIZE = 3
  MaxLine = 3
  Patient = TRUE
INVARIANTS TypeOK LinesNotMixed
PROPERTY ImplementsLines
CHECK_DEADLOCK FALSE
