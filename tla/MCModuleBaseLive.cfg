\* Queues of two entries, drained four at a time: ExecuteModule reaches its
\* limit only when a module fills its queue while it is drained.
CONSTANTS
  N = 2
  MaxModules = 3
  CmdMax = 2
  DrainMax = 4
  MaxPresses = 1
  Keys = {1}
  Key <- MCKey
  HasMsg <- MCHasMsg
  Replies <- MCReplies
SPECIFICATION Spec
PROPERTIES EveryCommandAnswered OutputTaken ShutdownEnds
CHECK_DEADLOCK FALSE
