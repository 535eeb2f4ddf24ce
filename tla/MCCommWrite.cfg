\* A buffer of three bytes, Writes of one or two: a Write meets a
\* transmission that runs, a full buffer, a partial and a failed one.
CONSTANTS
  WriteMax = 3
  MaxWrite = 2
  MaxStream = 5
  MaxFail = 2
SPECIFICATION Spec
INVARIANTS BufferIsUnsent NoStall
PROPERTIES ImplementsByteStream EveryByteSent
CHECK_DEADLOCK FALSE
