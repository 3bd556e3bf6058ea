SPECIFICATION Spec
CONSTANTS
  MAX_ROWS = 2
  MAX_COLS = 2
  MAX_LEN = 3
  W = 4
  BLINK = 2
  Letters = {"a", "b"}
  MaxText = 4
INVARIANTS ScreenShowsText BlockIsCursor
PROPERTIES LineReturned CursorBlinks
