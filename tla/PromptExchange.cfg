CONSTANTS
  KeepAlive = TRUE
  Abandons = TRUE
  MaxNext = 1
  MaxChunks = 1
  MaxQuestions = 1
  MaxAcks = 0
  Lossy = TRUE
SPECIFICATION CallerFairSpec
PROPERTIES KeepsReplyContract CallerIsReleased
CHECK_DEADLOCK FALSE
