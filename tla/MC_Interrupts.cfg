\* A tick in phase 6, with terminals and no files, would start a shell too early
\* (ShellsFindFiles).
SPECIFICATION Spec
CONSTANTS
  Procs = {1, 2}
  MaxDepth = 3
  TickPhases = {5, 7, 8}
INVARIANTS TypeOK ControllersReady OneAtATime
PROPERTY EveryLineServed
