SPECIFICATION Spec
CONSTANTS
  NUM_COLS = 3
  NUM_ROWS = 3
  SPACES_NUM = 1
  MaxLine = 3
  MaxCleared = 3
INVARIANTS TypeOK ScreenShowsText
