SPECIFICATION Spec
CONSTANTS
  c1 = c1
  c2 = c2
  Clients = {c1, c2}
  Operations <- OneSubmitter
  MaxJobs = 2
  MaxRestarts = 1
  None = None
CHECK_DEADLOCK FALSE
INVARIANTS
  OneIndexer
  ExposedIsStored
PROPERTIES
  ReadableStays
  CancelEnds
