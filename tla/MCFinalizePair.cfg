SPECIFICATION Spec
CONSTANTS
  a = a
  b = b
  x = x
  Tables = {a, b}
  Scope <- ScopeAB
  Refs <- Cycle
  Carries <- Little
  Sources = {"mysql", "postgres"}
  OtherClients = FALSE
  PartialCopies = TRUE
  MaxRuns = 2
INVARIANTS FinalNeverReal KeysAccounted KeysPointAtFinal RowsAccounted
PROPERTY TablesTakeTurns
