SPECIFICATION FairSpec
CONSTANTS
  w1 = w1
  w2 = w2
  Workers = {w1, w2}
  MaxAttempts = 3
  Stages = 1
  MaxCrashes = 2
  MaxDuplicates = 1
  Timely = TRUE
  BrokerFails = FALSE
  RunnerFails = TRUE
  DatabaseFails = FALSE
  Cancellable = FALSE
INVARIANTS
  OneRunner
  SuccessIsPublished
  JobAttended
PROPERTIES
  JobSettles
CHECK_DEADLOCK FALSE
