\* One strategy object shared by publisher and consumers.
CONSTANTS
  c1 = c1
  c2 = c2
  w0 = w0
  w1 = w1
  None = None
  Consumers = {c1, c2}
  Upstream <- Stages
  Strategies = {w0}
  StrategyOf <- OneStrategy
  SequencerStrategy = w0
  Timed = {c2}
  AlertTargets = {c1, c2}
  MaxSequence = 2
SPECIFICATION LiveSpec
INVARIANTS
  NoLostWakeup
PROPERTIES
  PublishedIsConsumed
