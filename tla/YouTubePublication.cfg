SPECIFICATION YouTubeFairSpec
CONSTANTS
  Run = {r1}
  Provider = {youtube}
  Resumable = {youtube}
  Standing = {}
  Exclusive = TRUE
  RetryCap = 2
  MaxToken = 2
  MaxCycle = 2
  Chunks = 2
  MaxAttempts = 2
  MaxRestarts = 1
  ResumeRefused = FALSE
INVARIANTS
  AttemptsAreAccounted
  OffsetIsCommitted
  UploadsAreRecoverable
PROPERTIES
  ImplementsPublication
  PublishAnswers
  InterruptedIsReported
