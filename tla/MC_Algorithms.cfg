SPECIFICATION Spec
CONSTANTS
  Families <- MCFamilies
  MaxOpen = 3
INVARIANTS
  PlansAreEquivalent
  EvidenceIsFair
  ViewsAreHonest
  ReadinessIsSound
  ImpactIsDistance
  GraphsAreExact
  RecordsAreWhole
  OnlyActivationDeadlocks
CHECK_DEADLOCK FALSE
