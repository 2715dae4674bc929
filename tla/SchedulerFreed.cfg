CONSTANTS
  Clients = {c1, c2}
  NoClient = NoClient
  Bursts = {1, 3}
  MaxTasks = 2
  FirstQuantum = 3
  LaterQuantum = 7
  MaxForkFailures = 0
  TraceCapacity = 4
SPECIFICATION Spec
INVARIANT
  SelectedTaskReadable
