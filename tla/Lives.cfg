CONSTANTS
  Signed = TRUE
  Overlap = FALSE
  MaxStarts <- Lives
  MaxStops <- Lives
  MaxBeats <- BeatBound
  AccountStarts = {1, 2}
  CloseFaults = 1
  Entries = 2
  Harnesses = {"pi", "openclaw", "claude-code"}
  Ids = {i1}
  Sessions = {1, 2}
  Requests = {r1, r2}
  Hosts = {"claude", "pi"}
  Attaching = {"claude"}
  Nobody = Nobody
  Instances = {"agent", "session"}
  SessionsOf = {"session"}
  Discovers = {d1}
  Prompts = {p1}
SPECIFICATION LivesSpec
INVARIANTS LivesAreApart NothingLeftBehind ExtensionsHearTheEnd SessionsAreSerial ExtensionsAreHarmless BrowserSeesWhatIsThere
PROPERTIES NoBeatWhileStopped HeartbeatsGoOn StartsEnd PromptsEnd BeatingIsKnown
CHECK_DEADLOCK FALSE
