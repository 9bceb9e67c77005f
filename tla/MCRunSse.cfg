SPECIFICATION Spec
CONSTANTS
  MaxSeq = 3
  MaxEvents = 2
INVARIANTS
  TypeOK
  ResumedInOrder
  NothingMissing
PROPERTIES
  StreamEnds
CHECK_DEADLOCK FALSE
