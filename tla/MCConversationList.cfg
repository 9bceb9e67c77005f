SPECIFICATION Spec
CONSTANTS
  None = None
  Convs = {a, b}
  PageSize = 1
  PinLimit = 1
  MaxAsked = 2
  MaxFaults = 1
INVARIANTS
  RowsSound
PROPERTIES
  RowsSettle
CHECK_DEADLOCK FALSE
