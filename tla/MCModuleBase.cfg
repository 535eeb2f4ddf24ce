\* Queues of three entries, drained two at a time: a queue fills up, and
\* ExecuteModule reaches its limit.
CONSTANTS
  N = 2
  MaxModules = 3
  CmdMax = 3
  DrainMax = 2
  MaxPresses = 2
  Keys = {1}
  Key <- MCKey
  HasMsg <- MCHasMsg
  Replies <- MCReplies
SPECIFICATION Spec
INVARIANTS CommandHandshake NoStrandedOutput FreedIsQuiet
PROPERTIES ImplementsService
CHECK_DEADLOCK FALSE
