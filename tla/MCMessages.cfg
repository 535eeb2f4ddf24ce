\* A message of two lines and others of one or none: a banner is polled, and
\* replaced, while others stay.
CONSTANTS
  MaxLines = 2
  MaxInserts = 2
SPECIFICATION Spec
INVARIANTS PollOnListed WindowsListed
PROPERTIES ExpiredGo ShutdownEnds
