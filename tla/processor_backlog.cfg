\* Samples are put off while paused; the pool holds post-drift samples only.
\* The stream may fall silent at any point.
SPECIFICATION FairSpec
CONSTANTS
  Subtasks = {0}
  LocalTreeCount = 2
  RingBufferSize = 2
  CooldownSamples = 3
  CooldownTimeout = 2
  InitSamples = 2
  PauseMode = "BACKLOG_THEN_NEW_FOREST"
  CooldownPolicy = "d1a"
  D1aFill = "cooldownsamples"
  MaxSamples = 9
  MaxTime = 3
  MaxVersion = 2
  MaxRound = 3
INVARIANTS ScoredInOrderOnce PoolIsPostDrift WaitingHasSentBatch
PROPERTIES AbortsWhenExpired RoundsHandledOnce CooldownEnds
CHECK_DEADLOCK FALSE
