\* First boot, restarts and completions, with two faults anywhere.
SPECIFICATION Spec
CONSTANTS
  Keys <- MCKeys
  Ids <- MCIds
  MaxFaults = 2
  RetryCount = 3
  Timeout = 2
INVARIANTS
  FlagMeansSaved
  RunsWithSavedKeys
  SetUpMeansEcho
  CompletionIsTimely
PROPERTIES
  ReachesPrompt
  CompletionsEnd
