\* Two subtasks, two rounds, aborts possible, samples put off while paused;
\* a ring of three cells.
SPECIFICATION AllSpec
CONSTANTS
  Parallelism = 2
  TotalTrees = 2
  SubsampleSize = 2
  RingBufferSize = 2
  CooldownSamples = 2
  CooldownTimeout = 1
  InitSamples = 2
  PauseMode = "BACKLOG_THEN_NEW_FOREST"
  CooldownPolicy = "d1a"
  D1aFill = "ringfull"
  MaxSamples = 6
  MaxTime = 0
  MaxRound = 2
  Capacity = 3
  Elements = {x, y, z}
  Null = Null
INVARIANTS ForestNeedsEverySubtask CommonRoundReleases
PROPERTIES ImplementsPool
CHECK_DEADLOCK FALSE
