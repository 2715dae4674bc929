CONSTANTS
  Clients = {c1, c2}
  NoClient = NoClient
  Bursts = {1, 2}
  MaxTasks = 3
  FirstQuantum = 1
  LaterQuantum = 2
  MaxForkFailures = 1
  TraceCapacity = 4
SPECIFICATION ListSpec
SYMMETRY ClientSymmetry
INVARIANTS
  TypeOK
  OnePlace
  OutputInOrder
  OrphanBound
  CurrentTaskWindow
  BooksBalance
  QueueIsList
PROPERTIES
  PreemptionHonoured
  QueueUsedAsPromised
  ImplementsLifecycle
