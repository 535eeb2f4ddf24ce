\* The table has up to two lines of three; two purposes may share a key.
CONSTANTS
  Key <- MCKeys
  Name = {"KEY_F4", "KEY_CT"}
  Line <- MCLine
  MaxLines = 2
  Binding <- MCBinding
  Modules = 1
  Nothing = Nothing
  MaxPresses = 4
SPECIFICATION Spec
INVARIANTS HeldModifiers RunAsNamed
CHECK_DEADLOCK FALSE
