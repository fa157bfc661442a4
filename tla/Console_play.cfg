SPECIFICATION Spec
CONSTANTS
  FileLines = 3
  Outputs <- SmallOutputs
  BufLen = 3
INVARIANTS Paced Transcript
PROPERTY Played
