CONSTANTS
  Overlapping = {p1, p2, p3}
  Runtimes = {"acp", "opencode", "codex"}
  Asking = {"acp", "opencode"}
  Leaving = {"codex"}
  LateEvents = FALSE
  CodexPrompts = {p1, p2}
  MaxTexts = 1
  NoPrompt = NoPrompt
  Rows = {1, 2}
  Grace = 2
  ExposeCurrent = FALSE
  Rescans = {"rescan"}
  RescansOverlap = FALSE
  MaxStarts = 2
  MaxLost = 1
  MaxFailed = 1
  NoService = NoService
  Prompts = {q1, q2, q3}
  User = User
  None = None
  MaxTyped = 2
  MaxThrows = 2
  MaxRefusals = 1
SPECIFICATION ChannelsSpec
INVARIANTS TurnsAreApart ServicesMatchThreads TriggersAreKept OneTurnAtATime
PROPERTIES GraceIsConsecutive PromptsAreServed ChannelsCatchUp PromptSettles
CHECK_DEADLOCK FALSE
