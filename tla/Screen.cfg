SPECIFICATION Spec
CONSTANTS
  COLS = 3
  ROWS = 2
  TAB = 2
  CHMOD = 12
  BYTE = 4
  Colors = {11}
  MaxChars = 5
  MaxEcho = 2
INVARIANTS
  TypeOK
  CursorOnScreen
  StrayWrites
  ScreenShowsText
  HardwareCursor
