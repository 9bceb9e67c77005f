SPECIFICATION PoolSpec
CONSTANTS
  w1 = w1
  w2 = w2
  Workers = {w1, w2}
  N = 2
  Capacity = 1
  MaxPoolFaults = 1
INVARIANTS
  PermitsBalanced
  OneExecutor
  HintNotLost
PROPERTIES
  WorkGoesOn
CHECK_DEADLOCK FALSE
