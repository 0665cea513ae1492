\* The scoring job restarts and writes trees again.
SPECIFICATION Spec
CONSTANTS
  Parallelism = 2
  TotalTrees = 3
  SampleSizes = {1}
  MaxRound = 2
  MaxRestarts = 1
INVARIANTS FiresOnlyOnBatchEnd
CHECK_DEADLOCK FALSE
