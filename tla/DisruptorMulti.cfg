\* Two publishers with the multi-threaded claim strategy, a two-stage pipeline.
CONSTANTS
  c1 = c1
  c2 = c2
  c3 = c3
  Producers = {p1, p2}
  Consumers = {c1, c2}
  Gating = {c2}
  Dependents <- PipelineDependents
  Follows <- PipelineFollows
  N = 2
  Deltas = {1, 2}
  LongMax = 99
  MultiThreaded = TRUE
  AlertTargets = {}
  MaxSequence = 3
SPECIFICATION LiveSpec
INVARIANTS
  ExclusiveSlots
  ReadsWhatWasPublished
  RingInvariant
PROPERTIES
  CursorMovesByWholeClaims
  ImplementsBroadcastRing
  ClaimedIsConsumed
