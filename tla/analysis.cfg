\* One instance after the other, each on a small input.
SPECIFICATION AllSpec
CONSTANTS
  Warmup = 2
  SignalMax = 5
  Lambda = 2
  Weights = 3
  Epsilon = 1
  DriftBound = 2
  WarnBound = 1
  MaxGap = 1
  MaxRows = 12
  Drifts = {1, 4, 6}
  p1 = p1
  Partitions = {p1}
  Lines = 4
  ProgressInterval = 2
  MaxStarts = 2
  MaxRestarts = 1
  Kind <- TheKind
  Jobs <- TheJobs
  Parallelism = 3
  Limit = 5
  IntRange = 4
  Labels = {"a", "b", "c", "d", ""}
  EmptyLabel = ""
  BlankRow = "blank"
  DriftPoints = {0, 1, 2, 4, 7}
  MaxRow = 5
  Sizes = {4, 7}
  DriftAt = 3
  GradualStart = 2
  GradualEnd = 5
  SlowStart = 1
  SlowEnd = 5
  Switches <- TheSwitches
  ScoreValues = {0, 1, 2}
  Half = 1
  ForestVersions = {1, 2}
  DriftLists <- TheDrifts
  TargetFpr <- TheTargets
  RecoveryShare <- NinetyFive
  StableFpr <- Ten
  SlideWin = 1
  SlideStep = 1
  MinInWindow = 1
  MaxRecords = 4
  MaxSeq = 3
  DatasetNames <- TheDatasets
  Details = {"ksweep"}
  MaxRuns = 3
  Plans <- ThePlans
  DefaultPar = "8"
  Shuffled = {"exp2"}
  Following = {"exp3"}
  MaxBatches = 2
INVARIANTS
  ReplayAgrees
  SkippedWereSent
  SentOnceInOrder
  RowsSurvive
  KeysAreSound
  TransformIsRight
  EventsTellTheConcept
  MeasuresAreExact
  ResponsesAdvance
  RowsAreLatest
  OkHasScores
PROPERTIES
  DriftsAreShifts
  DelaysAreFinal
  RunAugments
  FinishedStays
CHECK_DEADLOCK FALSE
