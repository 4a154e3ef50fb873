SPECIFICATION GuardedSpec
CONSTANTS
  Run = {r1, r2}
  Process = {r1, r2}
  Provider = {youtube}
  Resumable = {youtube}
  Standing = {youtube}
  Exclusive = FALSE
  RetryCap = 2
  MaxToken = 2
  MaxCycle = 1
  OwnerChecks = TRUE
  MaxRun = 3
INVARIANTS
  AtMostOneItem
  ReclaimableMeansNothingSent
  StateFollowsRows
  AtMostOneEngine
PROPERTIES
  FinalRowsStay
  DeliversOnce
  GuardMakesExclusive
