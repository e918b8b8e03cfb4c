SPECIFICATION Spec
CONSTANTS
  Columns = {c1, c2}
  Keys = {k1, k2}
INVARIANTS KeysInHand DefaultsKept
PROPERTIES RetriesShrink PublishesTable
CHECK_DEADLOCK FALSE
