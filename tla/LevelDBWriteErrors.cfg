SPECIFICATION Spec
CONSTANTS
  Nobody = Nobody
  BG = BG
  Closer = Nobody
  Writers = {w1, w2, w3}
  Compactors = {}
  Batches = {0, 1, 2}
  Syncs = {TRUE, FALSE}
  GroupGrowth = 1
  MaxGroup = 3
  WriteBufferSize = 1
  CompactionTrigger = 1
  SlowdownTrigger = 1
  StopTrigger = 1
  RecoveredFiles = 0
  IOFails = TRUE
  MaxCalls = 1
  MaxPieces = 0
SYMMETRY WriterSymmetry
INVARIANTS
  OneCommitter
  SequencesAreUnique
  AcknowledgedIsStored
  WorkIsScheduled
PROPERTIES
  SnapshotsAreStable
  FailsAfterError
CHECK_DEADLOCK FALSE
