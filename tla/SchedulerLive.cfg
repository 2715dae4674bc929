CONSTANTS
  Clients = {c1, c2}
  NoClient = NoClient
  Bursts = {2, 5}
  MaxTasks = 2
  FirstQuantum = 3
  LaterQuantum = 7
  MaxForkFailures = 1
  TraceCapacity = 4
SPECIFICATION FairSpec
PROPERTIES
  EveryTaskServed
  TimeSummarised
