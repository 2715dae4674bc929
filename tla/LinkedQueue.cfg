CONSTANTS
  MaxTasks = 3
  Clients = {1, 2}
  Times = {0, 2}
SPECIFICATION FairSpec
INVARIANTS
  TypeOK
  WellLinked
  PointersStayInList
PROPERTIES
  ImplementsTaskQueue
  OperationsEnd
