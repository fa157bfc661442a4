SPECIFICATION Spec
CONSTANTS
  c1 = c1
  c2 = c2
  a1 = a1
  a2 = a2
  n1 = n1
  n2 = n2
  n3 = n3
  Conns = {c1, c2}
  Addrs = {a1, a2}
  AnyAddr = AnyAddr
  NoAddr = NoAddr
  Names = {n1, n2, n3}
  Answers <- Lookups
  HasConf = TRUE
  Rules <- SomeRules
  RunsOut = TRUE
INVARIANTS PermittedOnly Truthful
PROPERTY Accepted
CHECK_DEADLOCK FALSE
