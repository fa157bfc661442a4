SPECIFICATION Spec
CONSTANTS
  Clients = {5, 6}
  MaxTyped = 2
  MaxBurst = 2
INVARIANT RedirectedLine
