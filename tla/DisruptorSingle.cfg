\* One publisher with the single-threaded strategy, two parallel consumers and a third behind both, with alerts.
CONSTANTS
  c1 = c1
  c2 = c2
  c3 = c3
  Producers = {p1}
  Consumers = {c1, c2, c3}
  Gating = {c1, c3}
  Dependents <- DiamondDependents
  Follows <- DiamondFollows
  N = 2
  Deltas = {1, 2}
  LongMax = 99
  MultiThreaded = FALSE
  AlertTargets = {c1, c3}
  MaxSequence = 2
SPECIFICATION LiveSpec
INVARIANTS
  CapacityIsPromise
PROPERTIES
  AlertEndsTheWait
