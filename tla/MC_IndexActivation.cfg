SPECIFICATION ActivationSpec
CONSTANTS
  j1 = j1
  Jobs = {j1}
  None = None
  MaxAttempts = 2
  LeaseSeconds = 1
  MaxClock = 2
  Types = {"report", "chunks"}
  Candidates <- MCCandidates
  NoCandidate = NoCandidate
  Mandatory = {"exploration"}
INVARIANTS
  ActivatedIsPublished
  OneAuditPerActivation
CHECK_DEADLOCK FALSE
