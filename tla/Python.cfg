CONSTANTS
  Prompts = {1, 2, 3}
  Limits = {1, 2}
  PyStarts = 2
  MaxMore = 1
  Outside = 0
  Streams = {s1, s2}
  MaxChunks = 2
  FlushFaults = 1
SPECIFICATION PythonSpec
INVARIANTS TasksLeaveNothing InboxIsShared
PROPERTIES StopReturns KeepsPyContract StreamsAreReleased
CHECK_DEADLOCK FALSE
