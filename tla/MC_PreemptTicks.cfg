\* Ticks that cut the switch of scheduler() short once it has loaded the TSS.
SPECIFICATION Spec
CONSTANTS
  MAX_PCB = 3
  MaxCount = 6
  MAX_TERMINAL_NUM = 2
  Windows = {"leave"}
  MaxDepth = 2
INVARIANTS NeverLost RunsOwnProgram KernelKnowsWho OneBaseShell
