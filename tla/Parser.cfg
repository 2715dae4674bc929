CONSTANTS
  MaxInput = 12
  MaxArgs = 3
  MaxCmds = 2
  Letters = {"a", "b", "c", "e", "x", "i", "t"}
  Streams <- MCStreams
  Remains <- MCRemains
SPECIFICATION Spec
INVARIANTS TypeOK MeansWhatItSays OnlyNeighboursLost TokensInSegment
PROPERTIES TokensKept ParseAdvances
