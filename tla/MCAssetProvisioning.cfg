SPECIFICATION Spec
CONSTANTS
  pier = pier  quay = quay  copy = copy  sign = sign  play = play
  Process = {p1, p2}
  Telling <- MCTelling
  Concrete = {"boats", "crowd"}
  Concepts <- MCConcepts
  MaxScenes = 3
  WordsPerScene = 6
  MaxQueries = 4
  Picture = {pier, quay, copy, sign, play}
  Tags <- MCTags
  Usable = {pier, quay, copy, sign, play}
  Hits <- MCHits
  Gate = TRUE
  HasKey = TRUE
  MaxQueryWords = 2
  Branded = {"logo"}
  OffStyle = {}
  Script <- MCScript
  Ideas <- MCIdeas
  MultiScene = TRUE
  QueryCount <- MCQueryCount
  Deliveries <- MCDeliveries
  FirstFailures <- MCFirstFailures
  HasVisualContext = TRUE
  Content <- MCContent
  Licensed = {pier, quay}
  Relevance = TRUE
  RetryCap = 2
  MaxPolicy = 2
  MaxMishap = 1
INVARIANTS OneInvocationProvisions RightsBeforeRender
PROPERTIES DisputeStands Provisioned
CHECK_DEADLOCK FALSE
