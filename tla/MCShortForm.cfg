SPECIFICATION ShortFormSpec
CONSTANTS
  Run = {r1, r2, r3}
  Provider = {reels}
  Polls = 2
  Resumable = {}
  Standing = {}
  Exclusive = FALSE
  RetryCap = 3
  MaxToken = 3
  MaxCycle = 1
SYMMETRY RunSymmetry
INVARIANTS
  StatelessOnlyOnce
  AnswersAreTrue
