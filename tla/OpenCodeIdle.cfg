CONSTANTS
  Overlapping = {p1, p2}
  Runtimes = {"opencode"}
  Asking = {"opencode"}
  Leaving = {}
  LateEvents = TRUE
  MaxTexts = 1
  NoPrompt = NoPrompt
SPECIFICATION TurnsSpec
INVARIANT EachCallerItsOwnTurn
CHECK_DEADLOCK FALSE
