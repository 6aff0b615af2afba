SPECIFICATION Spec
CONSTANTS
  j1 = j1
  j2 = j2
  Jobs = {j1, j2}
  None = None
  MaxAttempts = 2
  LeaseSeconds = 2
  MaxClock = 3
SYMMETRY JobSymmetry
INVARIANTS
  Authority
  CancellationWins
  Publication
  HistoryIsOneLine
PROPERTIES
  Fencing
  ImplementsIndexJobs
CHECK_DEADLOCK FALSE
