\* A tick in scheduler() between the load of the stack pointer and of tss.esp0.
SPECIFICATION Spec
CONSTANTS
  MAX_PCB = 3
  MaxCount = 6
  MAX_TERMINAL_NUM = 2
  Windows = {"esp"}
  MaxDepth = 2
INVARIANTS KernelKnowsWho
CHECK_DEADLOCK FALSE
