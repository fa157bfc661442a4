SPECIFICATION Spec
CONSTANTS
  MaxLines = 3
  MaxStages = 3
  MaxN = 2
  Cap = 3
  Output = 1
  ProcLimit = 3
  Lines <- AllLines
INVARIANTS TypeOK DistinctCounts OnTime ShellHolds
