CONSTANTS
  Rows = 6
  Scr = 3
  Cols = 2
  Line = {"blank"}
SPECIFICATION Spec
INVARIANTS WindowInside CursorFollows
CHECK_DEADLOCK FALSE
