SPECIFICATION Spec
CONSTANTS
  Size = 4
  Values = {0, 1, 2}
INVARIANTS
  ChecksStayTrue
PROPERTY
  ImplementsFifo
