SPECIFICATION RunStateSpec
CONSTANTS
  ReclaimAlone = TRUE
  MaxCommit = 6
  MaxSave = 4
INVARIANTS
  NothingSavedIsForgotten
PROPERTY OnlyTheOwnerFrees
