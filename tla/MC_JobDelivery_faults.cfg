SPECIFICATION Spec
CONSTANTS
  w1 = w1
  w2 = w2
  Workers = {w1, w2}
  MaxAttempts = 3
  Stages = 1
  MaxCrashes = 1
  MaxDuplicates = 1
  Timely = FALSE
  BrokerFails = TRUE
  RunnerFails = TRUE
  DatabaseFails = TRUE
  Cancellable = TRUE
SYMMETRY WorkerSymmetry
PROPERTIES
  AuthorityKept
  VersionDecidedOnce
CHECK_DEADLOCK FALSE
