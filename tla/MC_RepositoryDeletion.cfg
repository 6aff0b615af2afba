SPECIFICATION FairSpec
INVARIANTS MigrationApplies NothingLeft
PROPERTIES DeletionSucceeds
CHECK_DEADLOCK FALSE
