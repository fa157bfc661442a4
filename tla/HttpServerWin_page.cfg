SPECIFICATION Spec
CONSTANTS
  c1 = c1
  c2 = c2
  Clients = {c1, c2}
  NoClient = NoClient
  Requests <- Asks
  Columnar = 2
  FileLines = 1
  Outputs <- ShortOutputs
  BufLen = 2
CHECK_DEADLOCK FALSE
INVARIANT OwnConsole
PROPERTY Served
