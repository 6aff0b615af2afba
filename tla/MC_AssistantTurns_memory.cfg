CONSTANTS
  Requests = {r1}
  Conversations = {c1}
  Signals = {"cancelled", "elapsed"}
  MaxRounds = 2
  ToolBudgets = {1, 3}
  MaxTurns = 2
  MaxVersions = 2
  MaxMemory = 3
  None = None
SPECIFICATION Spec
INVARIANT OldAnswersExcluded
CHECK_DEADLOCK FALSE
