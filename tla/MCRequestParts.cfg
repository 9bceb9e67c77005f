SPECIFICATION RequestsSpec
CONSTANTS
  Parts = 3
  Workers = 2
  Attempts = 2
  CacheTtl = 2
  UrlTtl = 3
  MaxClicks = 4
  SearchQueries = {"", "a"}
  SearchRows = {1, 2}
  SearchPages = 2
  RevealConvs = {"a", "b"}
  MaxRenders = 2
  Lengths = {2, 6}
  Chunk = 2
  ToolRuns = 4
  ToolShows = 1
  PlainSteps = 1
  AnswerSteps = 1
  MaxCards = 2
  MaxPinned = 1
  MaxMoves = 2
  SharedRooms = {1, 2}
  MaxChanges = 4
INVARIANTS
  RequestsSound
  WorkbenchSound
PROPERTIES
  RequestsEnd
CHECK_DEADLOCK FALSE
