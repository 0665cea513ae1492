\* Two producers interleave their reports; the offline instances are there as in
\* aggregator_parallel.
SPECIFICATION AllSpec
CONSTANTS
  Features = {0, 1, 2}
  Writers = {0, 1}
  WriterOf <- TwoWriters
  K = 2
  AggWin = 2
  Refractory = 2
  MaxSeq = 5
  Columns = {0, 1}
  Peaks = {1, 2}
  KsGrid = {0, 2}
  Distinct = 2
  Persists = {1, 2}
  Window = 2
  Cooldown = 2
  ConfirmWin = 1
  Labelled <- PointDrifts
  Tau = 1
  MaxPoint = 6
  AucValues <- SomeAucs
  Deltas = {2}
  GtDelta = 1
  GtSustained = 2
  AlignKs = {1, 2}
  AlignTau = 2
  PreEnds = {3, 4}
  MaxWindow = 4
INVARIANTS WindowQuorum
CHECK_DEADLOCK FALSE
