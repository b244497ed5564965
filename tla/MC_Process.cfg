\* Five slots for three terminals: the table fills up, and two terminals
\* compete for the last two slots.
SPECIFICATION QuietSpec
CONSTANTS
  MAX_PCB = 5
  MaxCount = 6
  MAX_TERMINAL_NUM = 3
INVARIANTS
  TypeOK CountMatches CallChain ParentAlive OwnMemory Resumable NoFailingPath
PROPERTIES PreemptedRunsAgain Isolation ImplementsSessions
