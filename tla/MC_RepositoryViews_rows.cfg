SPECIFICATION Spec
CONSTANTS
  MaxVersion = 4
  Restarts = TRUE
  Deletes = TRUE
INVARIANTS
  PointerIsActive
  SuccessIsReadable
  VersionIsUsable
CHECK_DEADLOCK FALSE
