SPECIFICATION LiveSpec
CONSTANTS
  Nobody = Nobody
  BG = BG
  Closer = Closer
  Writers = {w1, w2}
  Compactors = {m1}
  Batches = {0, 1}
  Syncs = {TRUE}
  GroupGrowth = 1
  MaxGroup = 2
  WriteBufferSize = 0
  CompactionTrigger = 1
  SlowdownTrigger = 1
  StopTrigger = 1
  RecoveredFiles = 1
  IOFails = TRUE
  MaxCalls = 1
  MaxPieces = 1
INVARIANTS
  ClosedIsQuiet
PROPERTIES
  CallsReturn
CHECK_DEADLOCK FALSE
