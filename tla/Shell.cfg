CONSTANTS
  MaxCmds = 3
  MaxLines = 2
  MaxForks = 3
  Limits = {2, 4}
  Capacity = 1
  Amount = 2
  Terminal = FALSE
SPECIFICATION FairSpec
CHECK_DEADLOCK FALSE
INVARIANTS
  TypeOK
  StdRestored
  LeftoversAccounted
  PipesEndWithCommands
PROPERTIES
  PromptReturns
  EveryCommandEnds
