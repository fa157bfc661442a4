SPECIFICATION Spec
CONSTANTS
  BufLen = 2
  MaxSent = 2
INVARIANT FromClient
