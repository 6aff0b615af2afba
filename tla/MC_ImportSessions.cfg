SPECIFICATION FairSpec
CONSTANTS
  None = None
  Sessions = {s1}
  Uploads = {u1}
  Confirms = {c1, c2}
  Files <- MCFiles
  Urls <- MCUrls
  Refs <- MCRefs
  MaxFiles = 3
  MaxBytes = 2
  MaxFile = 2
  MaxRestarts = 1
  Patient = TRUE
INVARIANTS
  SourceHasOneOwner
  RepositoryIsSnapshot
PROPERTIES
  AcquisitionEnds
CHECK_DEADLOCK FALSE
