CONSTANTS
  Clients = {c1, c2}
  NoClient = NoClient
  Descriptors = {1, 2}
  Bursts = {1}
  Outputs <- MCOutputs
  Beginnings <- MCBeginnings
  MaxTasks = 2
  MaxLines = 2
  MaxCuts = 1
SPECIFICATION Spec
CHECK_DEADLOCK FALSE
SYMMETRY ClientSymmetry
INVARIANTS
  TypeOK
  AnswersInStep
  OrderlyClientsHarmless
  StraysAreOrphans
