SPECIFICATION Spec
CONSTANTS
  a = a
  none = none
  nl = nl
  Col = 2
  Row = 3
  ScrRow = 1
  Word = 3
  Char <- MCChar
  Blank = " "
  Star = a
  Newline = nl
  None = none
  Text <- MCText
  Size <- MCSize
  Block = "block"
  Modules = 1
  Tries = 1
  Inputs = 1
INVARIANTS
  ScreenTrue
  CaretTrue
  PrintInside
PROPERTIES
  EventuallyShown
  Responsive
  ImplementsPicture
