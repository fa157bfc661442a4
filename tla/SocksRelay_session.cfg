SPECIFICATION Spec
CONSTANTS
  BufLen = 2
  MaxSent = 3
INVARIANTS TypeOK Intact LastWord
PROPERTY Teardown
