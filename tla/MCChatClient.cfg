SPECIFICATION Spec
CONSTANTS
  a = a
  b = b
  None = None
  Convs = {a, b}
  First = a
  MaxRuns = 2
  MaxSeq = 1
  MaxAsked = 2
  MaxFaults = 1
INVARIANTS
  DraftTrue
PROPERTIES
  ThreadCatchesUp
  ClientSettles
CHECK_DEADLOCK FALSE
