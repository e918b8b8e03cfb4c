SPECIFICATION Spec
CONSTANTS
  Tables = {1, 2, 3}
  Limit = 2
  Fresh = {"a", "b"}
INVARIANTS SuccessAccountsForAll StopsWhereItSays OnlyScopeTreated EqualStaysEqual
CHECK_DEADLOCK FALSE
