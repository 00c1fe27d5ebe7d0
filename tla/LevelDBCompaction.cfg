SPECIFICATION Spec
CONSTANTS
  Keys = {1, 2, 3}
  kNumLevels = 4
  kMaxMemCompactLevel = 2
  Workloads <- MCWorkloads
INVARIANTS
  OnlyGapsOverlap
  NewestOnTop
  MergeIsInvisible
  ReadsAreRight
CHECK_DEADLOCK FALSE
