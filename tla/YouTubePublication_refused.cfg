SPECIFICATION YouTubeSpec
CONSTANTS
  Run = {r1}
  Provider = {youtube}
  Resumable = {youtube}
  Standing = {}
  Exclusive = TRUE
  RetryCap = 3
  MaxToken = 2
  MaxCycle = 1
  Chunks = 1
  MaxAttempts = 1
  MaxRestarts = 1
  ResumeRefused = TRUE
INVARIANT AtMostOneItem
