SPECIFICATION Safety
CONSTANTS
  MaxSeq = 3
  MaxEvents = 2
INVARIANTS
  NothingSkipped
CHECK_DEADLOCK FALSE
