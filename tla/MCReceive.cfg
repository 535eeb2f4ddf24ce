\* Three reads fill BufferIO; the queue holds more than one read.
CONSTANTS
  OneShot = 2
  QueMax = 4
  MaxBytes = 6
  MaxFail = 1
  MaxInput = 2
SPECIFICATION Spec
INVARIANTS InOrder ReadWhenDrawn Listening NoStrand
PROPERTIES BytesReachParser WriteServed
