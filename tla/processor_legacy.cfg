\* Samples are scored with the old forest while paused, the pool is filtered
\* by z-score, and forests and decisions may be broadcast again.
SPECIFICATION AtLeastOnceSpec
CONSTANTS
  Subtasks = {0}
  LocalTreeCount = 2
  RingBufferSize = 2
  CooldownSamples = 3
  CooldownTimeout = 2
  InitSamples = 2
  PauseMode = "USE_OLD_FOREST"
  CooldownPolicy = "legacy"
  D1aFill = "cooldownsamples"
  MaxSamples = 7
  MaxTime = 3
  MaxVersion = 2
  MaxRound = 2
INVARIANTS BacklogOnlyWhilePaused
CHECK_DEADLOCK FALSE
