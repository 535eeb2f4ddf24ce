CONSTANTS
  Rows = 4
  Scr = 2
  Cols = 2
  Line = {"blank", "text"}
SPECIFICATION Spec
INVARIANTS ScreenShowsMemory
PROPERTIES LockedRowsKept
CHECK_DEADLOCK FALSE
