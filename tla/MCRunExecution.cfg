SPECIFICATION Spec
CONSTANTS
  MaxSeq = 3
  MaxPending = 2
  Gap = 2
  MaxFaults = 1
INVARIANTS
  TypeOK
  TerminalEventMatches
  MessageIffSucceeded
  RecoverySeqSafe
PROPERTIES
  RunsEnd
  RefinesLifecycle
CHECK_DEADLOCK FALSE
