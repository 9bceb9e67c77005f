SPECIFICATION Spec
CONSTANTS
  Tabs = {t1}
  MaxCalls = 2
  MaxPolls = 1
INVARIANTS
  TabsTrue
PROPERTIES
  SessionsSettle
CHECK_DEADLOCK FALSE
