SPECIFICATION Spec
CONSTANTS
  c1 = c1
  c2 = c2
  Conns = {c1, c2}
  NoConn = NoConn
  Requests <- Asks
  Piece = 3
  Programs = {"/panel.cgi"}
  ProcLimit = 1
CHECK_DEADLOCK FALSE
INVARIANTS TypeOK OwnPage AnsweredFirst NeverCutOff Survives
PROPERTY Served
