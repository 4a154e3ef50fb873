SPECIFICATION Spec
CONSTANTS
  Observation = {1, 2, 3}
  Persistent = {1, 2, 3}
  Event <- MCEvent
  Unsound = {1}
  Budget = 2
  TopK = 1
  MaxEdit = 1
  MaxMishap = 1
INVARIANTS OutcomesAreKept
PROPERTIES FreshOncePerCycle NobodyStarves
