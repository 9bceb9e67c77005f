SPECIFICATION Spec
CONSTANTS
  Models = {"seer", "text"}
  Sees = {"seer"}
  Tiers <- MCTiers
  Default = "seer"
  Chats = {"c"}
  MaxDepth = 3
  Port = 4
  Near = 2
  Far = 2
  Gap = 1
  Peek = 1
  MaxEnd = 6
  MaxReads = 2
  Rooms = {"a", "b"}
  ParaText <- MCParaText
  MaxQuoteActs = 3
  Langs = {"plain", "sql", "markup", "java"}
  Lezer = {"markup"}
  Prism = {"java"}
  MaxLen = 2
  MaxCopies = 2
  Sources = 2
  MaxTouches = 6
  ShareConvs = {"a"}
  WithFiles = {"a"}
  MaxLinks = 2
  MaxToggles = 3
  ToastTime = 3
  MaxFocus = 3
INVARIANTS
  OptionsSound
  ThreadSound
  AnswerSound
  LibrarySound
PROPERTIES
  ScreenSteps
CHECK_DEADLOCK FALSE
