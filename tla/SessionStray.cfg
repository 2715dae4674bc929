CONSTANTS
  Clients = {c1, c2}
  NoClient = NoClient
  Descriptors = {1, 2}
  Bursts = {1}
  Outputs <- MCOutputs
  Beginnings <- MCBeginnings
  MaxTasks = 2
  MaxLines = 2
  MaxCuts = 0
SPECIFICATION Spec
CHECK_DEADLOCK FALSE
INVARIANT
  OutputGoesToOwner
