SPECIFICATION FairSpec
CONSTANTS
  a = a
  b = b
  x = x
  Tables = {a, b}
  Scope <- ScopeAB
  Refs <- ParentFirst
  Carries <- Mixed
  Sources = {"mysql", "postgres"}
  OtherClients = TRUE
  PartialCopies = TRUE
  MaxRuns = 1
INVARIANTS DetailsAccounted TempsAccounted
PROPERTY RunEnds
