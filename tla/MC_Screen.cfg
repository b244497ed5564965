CONSTANTS
  MAX_TERMINAL_NUM = 2
  Width = 2
  Windows = {"memory", "end"}
SPECIFICATION Spec
INVARIANTS
  TypeOK
  TextNotMixed
  OutputShown
PROPERTIES
  ScreensKept
  TurnStartsRight
