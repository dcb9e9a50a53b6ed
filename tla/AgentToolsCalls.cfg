CONSTANTS
  Root = Root
  Scopes = {Root}
  ToolCalls = {t1, t2, t3}
  Offered = {"prompt_agent", "wait_agent", "answer_agent", "cancel_agent"}
  MaxCalls = 2
  MaxStarted = 2
  MaxQuestions <- FirstAsksTwice
  MaxChunks = 0
SPECIFICATION Spec
SYMMETRY Interchangeable
INVARIANTS ScopeSound CallsSound
PROPERTIES FinalIsFinal
CHECK_DEADLOCK FALSE
