SPECIFICATION Spec
CONSTANTS
  Procs = {"a", "b"}
  Base = {"a"}
  MAX_FILE_NUM = 4
  Inodes = {5}
  Length = 1
  NumEntries = 1
  Frequencies = {3, 1024}
  TickCap = 1
INVARIANTS TypeOK NoStaleTick
PROPERTIES MovesOnlyRtc FirstRtcReturns
