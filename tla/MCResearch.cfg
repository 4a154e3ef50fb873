SPECIFICATION Spec
CONSTANTS
  a1 = a1  a2 = a2  b = b  s = s  acme = acme  release = release  They = They  None = None
  Page = {a1, a2, b, s}
  Name = {acme, They}
  Verb = {release}
  Year = {2023, 2024}
  Amount = {}
  Published <- MCPublished
  Says <- MCSays
  Antecedent <- MCAntecedent
  Extracts <- MCExtracts
  MaxClaims = 3
  Domain <- MCDomain
  Authoritative = {}
  Social = {s}
  Syndicated = {}
  Wrapper = {b}
  Replies <- MCReplies
  Readings <- MCReadings
  HasReader = TRUE
  MaxQueries = 2
  PerDomain = 2
  Question = "FACTUAL"
  MaxSources = 2
  MaxAttempts = 3
  Retries = 2
  MaxEligible = 2
  MaxCandidates = 2
  MaxCalls = 2
  Workload = 7
  RetryCap = 2
  MaxMishap = 1
INVARIANTS StoredWithinCeilings WorkloadSuffices VerdictIsEarned RowsStateOneFact
PROPERTY Settles
CHECK_DEADLOCK FALSE
