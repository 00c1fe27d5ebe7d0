SPECIFICATION PoolLiveSpec
CONSTANTS
  Workers = {w1, w2}
  Callers = {c1, c2, c3}
  maxQueueSize_ = 2
  MaxTasks = 4
  MayStop = TRUE
INVARIANTS
  QueueIsBounded
  TakenInOrder
  NoWaitAfterStop
PROPERTIES
  QueuedTasksBegin
  CallsReturn
CHECK_DEADLOCK FALSE
