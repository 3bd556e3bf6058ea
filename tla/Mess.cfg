SPECIFICATION Spec
CONSTANTS
  available_cols = 5
  available_rows = 3
  LINE_NUM_WIDTH = 2
  STATUS_WIDTH = 4
  TAB_WIDTH = 2
  MAX_MATCHES = 2
  W = 32
  MaxOffset = 10
  Texts <- MCTexts
  Terms <- MCTerms
INVARIANTS PageIsText HighlightsAreMatches ScrollStopsAtEnds
