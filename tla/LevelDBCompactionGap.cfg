SPECIFICATION Spec
CONSTANTS
  Keys = {1, 2, 3}
  kNumLevels = 4
  kMaxMemCompactLevel = 2
  Workloads <- MCPuts
INVARIANTS
  LevelsAreSorted
CHECK_DEADLOCK FALSE
