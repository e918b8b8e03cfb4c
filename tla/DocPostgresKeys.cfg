SPECIFICATION Spec
CONSTANTS
  a = a
  b = b
  x = x
  Tables = {a, b}
  Scope <- ScopeAB
  Refs <- ChildFirst
  Carries <- Little
  Sources = {"postgres"}
  OtherClients = FALSE
  PartialCopies = TRUE
  MaxRuns = 1
INVARIANT LostKeysAreTold
