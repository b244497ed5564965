SPECIFICATION Spec
CONSTANTS
  MAX_PCB = 4
  MaxCount = 6
  MAX_TERMINAL_NUM = 2
  Windows = {"exec"}
  MaxDepth = 2
INVARIANTS RunsOwnProgram
CHECK_DEADLOCK FALSE
