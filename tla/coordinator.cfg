\* Three rounds; the scoring job restarts once and writes trees again.
SPECIFICATION Spec
CONSTANTS
  Parallelism = 2
  TotalTrees = 3
  SampleSizes = {1}
  MaxRound = 2
  MaxRestarts = 1
INVARIANTS ForestsComplete NoMissedForest OneForestPerRound
CHECK_DEADLOCK FALSE
