\* The sizes of the code.
CONSTANTS
  WaitMax = 512
  Counts <- MCCounts
SPECIFICATION Spec
INVARIANTS InBuffer ParametersComplete BlockDelivered NeverDeaf
PROPERTIES CutIntoCommands
