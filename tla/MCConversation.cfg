SPECIFICATION Safety
CONSTANTS
  Tabs = {t1, t2}
  MaxMsgs = 8
  MaxRuns = 4
INVARIANTS
  TypeOK
  OneActiveRun
  PositionsUnique
  AnswersInPlace
  ActiveRunAnswersLast
PROPERTIES
  NothingAskedInTrash
  RunsFollowLifecycle
CHECK_DEADLOCK FALSE
