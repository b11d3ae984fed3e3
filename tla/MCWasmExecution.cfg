SPECIFICATION FairSpec
CONSTANTS
  MaxTimers = 1
  Callbacks = {tick}
  MaxId = 2
  MaxFired = 2
  EpochDeadline = 2
  MaxRuns = 2
  Overrun = 1
INVARIANTS
  InterruptedAfterFullBudget
PROPERTIES
  EveryExecutionReturns
