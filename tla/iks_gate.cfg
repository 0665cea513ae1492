\* One feature, rows with gaps, a peak gate above the threshold; the offline
\* replays; a treap over two windows of two values.
SPECIFICATION AllSpec
CONSTANTS
  Features = {0}
  Detectors = {0}
  DetectorOf <- OneDetector
  WindowSize = 3
  ConfirmWin = 2
  Threshold = 0
  KsConfirm = 2
  Rows <- WithGaps
  Stats = {0, 1, 2, 3}
  KsThreshold = 1
  Strides = {1, 2}
  Confirms = {0, 1, 2}
  MaxSample = 6
  Length = 2
  FirstValues <- TwoStarts
  Values = {0, 1}
  Draws = {1, 2}
  Priorities = {1, 2}
  MaxSlides = 3
INVARIANTS
  ReportsConfirmed
  NoExcessUnreported
  GateReplaysAgree
  WindowIsExact
CHECK_DEADLOCK FALSE
