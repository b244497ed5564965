\* A tick inside halt(), between its two decrements of what the terminal runs.
SPECIFICATION Spec
CONSTANTS
  MAX_PCB = 3
  MaxCount = 6
  MAX_TERMINAL_NUM = 2
  Windows = {"head"}
  MaxDepth = 1
INVARIANTS OneBaseShell
CHECK_DEADLOCK FALSE
