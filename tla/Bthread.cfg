\* Two workers in different parking lots and one other thread.
CONSTANTS
  Workers <- MCWorkers
  Creators <- MCCreators
  LotOf <- MCLotOf
  Parts <- MCParts
  Items = {1, 2, 3, 4}
  NoItem = 0
  Capacity = 2
  NLots = 2
  MaxYields = 1
  MayStop = TRUE
SPECIFICATION MCSpec
INVARIANT QueueInvariant
INVARIANT NoSleepOnTask
PROPERTY ImplementsTaskPool
PROPERTY TasksEndAndWorkersStop
\* Workers that were stopped, or that all sleep, do nothing more.
CHECK_DEADLOCK FALSE
