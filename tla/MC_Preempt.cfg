\* No tick inside the kernel.
SPECIFICATION RefSpec
CONSTANTS
  MAX_PCB = 4
  MaxCount = 6
  MAX_TERMINAL_NUM = 2
  Windows = {}
  MaxDepth = 1
INVARIANTS NeverLost
PROPERTIES ReachesUserAgain HandlersAreAtomic
