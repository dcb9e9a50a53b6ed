CONSTANTS
  Root = Root
  Scopes = {Root, served}
  ToolCalls = {t1, t2}
  Offered = {"prompt_agent", "wait_agent", "answer_agent", "cancel_agent"}
  MaxCalls = 1
  MaxStarted = 1
  MaxQuestions <- FirstAsksTwice
  MaxChunks = 1
SPECIFICATION FairSpec
PROPERTIES KeepsContract NobodyWaitsForEver
CHECK_DEADLOCK FALSE
