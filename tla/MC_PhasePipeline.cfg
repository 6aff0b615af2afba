SPECIFICATION Spec
CONSTANTS
  Phases = 3
  Initial = {"source"}
  Needs <- MCNeeds
  Makes <- MCMakes
  None = None
  Damaged = Damaged
  Runs = {u1, u2}
  Sources = {s1, s2}
  Releases = {"r1", "r2"}
  Version <- MCVersion
  MaxFailures = 1
  MaxDamage = 1
SYMMETRY RunSymmetry
CHECK_DEADLOCK FALSE
INVARIANTS
  ResultIsFresh
  ResultsAgree
