SPECIFICATION ServerSpec
CONSTANTS
  MaxLines = 3
  MaxStages = 2
  MaxN = 2
  Cap = 1
  Output = 2
  ProcLimit = 2
  Lines <- ShortLines
  NClients = 2
INVARIANT ReaderExpected
PROPERTIES LineEnds OrphansEnd Turns PromisesKept
