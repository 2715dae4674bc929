CONSTANTS
  Clients = {c1, c2}
  NoClient = NoClient
  Descriptors = {1, 2}
  Bursts = {1}
  Outputs <- MCOutputs
  Beginnings <- MCBeginnings
  MaxTasks = 1
  MaxLines = 1
  MaxCuts = 1
SPECIFICATION FairSpec
CHECK_DEADLOCK FALSE
PROPERTIES
  ClientNeverHangs
  DepartureNoticed
