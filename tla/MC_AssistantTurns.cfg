CONSTANTS
  Requests = {r1}
  Conversations = {c1}
  Signals = {"cancelled", "elapsed"}
  MaxRounds = 2
  ToolBudgets = {1, 3}
  MaxTurns = 1
  MaxVersions = 2
  MaxMemory = 3
  None = None
SPECIFICATION Spec
INVARIANTS AnsweredOnTimelyTools 
PROPERTIES RequestsEnd
CHECK_DEADLOCK FALSE
