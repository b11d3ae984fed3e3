\* Apps come and go while the scheduler reads, asks and writes.
SPECIFICATION FairSpec
CONSTANTS
  App = "a"
  Stray = "x"
  Apps = {"a", "b"}
  Slice = "."
  Refused = {"x"}
  Decisions <- MCDecisions
  MaxWeight = 2
  MiB = 4
  U64 = 16
  OverflowChecks = {TRUE, FALSE}
  MaxUse = 1
INVARIANTS
  DeltasWereUsed
  DecisionsAreCarriedOut
PROPERTIES
  TicksEnd
