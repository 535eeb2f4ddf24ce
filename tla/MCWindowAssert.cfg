CONSTANTS
  Rows = 4
  Scr = 2
  Cols = 2
  Line = {"blank"}
SPECIFICATION Spec
INVARIANTS CursorAsserted
CHECK_DEADLOCK FALSE
