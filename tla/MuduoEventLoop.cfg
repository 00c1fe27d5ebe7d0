SPECIFICATION LiveSpec
CONSTANTS
  Threads = {t1, t2}
  MaxFunctors = 4
  MaxEvents = 2
  MayQuit = TRUE
INVARIANTS
  RunInQueueOrder
  NoSleepOnPending
PROPERTIES
  FunctorsRun
  QuitEndsLoop
CHECK_DEADLOCK FALSE
