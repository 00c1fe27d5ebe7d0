\* The objects as Sequencer::NewBarrier makes them: one in the barrier, one in the sequencer.
CONSTANTS
  c1 = c1
  c2 = c2
  w0 = w0
  w1 = w1
  None = None
  Consumers = {c1}
  Upstream <- Alone
  Strategies = {w0, w1}
  StrategyOf <- OwnStrategy
  SequencerStrategy = w0
  Timed = {}
  AlertTargets = {}
  MaxSequence = 1
SPECIFICATION LiveSpec
PROPERTIES
  PublishedIsConsumed
