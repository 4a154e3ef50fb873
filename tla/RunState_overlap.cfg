SPECIFICATION RunStateSpec
CONSTANTS
  ReclaimAlone = FALSE
  MaxCommit = 6
  MaxSave = 4
INVARIANT NothingSavedIsForgotten
