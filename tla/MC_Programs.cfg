SPECIFICATION Spec
CONSTANTS
  BLOCK_SIZE = 2
  FILE_NAME_SIZE = 3
  MaxEntries = 18
  NUL = "NUL"
  MAX_FILE_NUM = 8
  Disks <- MCDisks
  Lines <- MCLines
  MAX_PCB = 3
  MAX_ARGUMENT_SIZE = 4
  Space = " "
  Newline = "NL"
  Dot = "."
  Colon = ":"
  Wall = "|"
  Magic <- MCMagic
  EntryPoint = 2
  ShellName <- MCShell
  ExitCommand <- MCExit
  BUFSIZE = 4
  SCREENWIDTH = 5
  Letters <- MCLetters
  RtcName <- MCRtc
  Stale = "?"
  Statuses = {0, 3, 255, 256}
  Digits <- MCDigits
  Limits <- MCLimits
  NearMisses <- MCNearMisses
INVARIANTS TypeOK OutputAsPromised StatusReported SysErrPasses
PROPERTY CommandsEnd
CHECK_DEADLOCK FALSE
