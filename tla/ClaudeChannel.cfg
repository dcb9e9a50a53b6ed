CONSTANTS
  Requests = {r1,r2}
  LastId = 3
  MaxNow = 7
  None = None
  Typed = 1
  Calls = 1
  EarlyEsc = FALSE
SPECIFICATION ClaudeSpec
INVARIANTS TurnsKeptApart TurnsReported
CHECK_DEADLOCK FALSE
SYMMETRY SameRequests
