\* Writes of more bytes than the buffer holds.
CONSTANTS
  WriteMax = 3
  MaxWrite = 2
  MaxStream = 5
  MaxFail = 2
SPECIFICATION Spec
INVARIANT WriteKeepsAll
CHECK_DEADLOCK FALSE
