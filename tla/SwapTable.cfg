SPECIFICATION FairSwapSpec
CONSTANTS
  Locks = 2
  LockWait = 2
  ReadTimeout = 5
PROPERTIES NoLateSwap CallReturns SwapPublishesTable
