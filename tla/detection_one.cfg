\* One detector subtask.
SPECIFICATION Spec
CONSTANTS
  Features = {0, 1}
  Detectors = {0}
  DetectorOf <- OneDetector
  WindowSize = 2
  ConfirmWin = 2
  Threshold = 0
  KsConfirm = 1
  Rows <- Consecutive
  K = 2
  AggWin = 1
  Refractory = 1
  MaxSeq = 6
INVARIANTS RoundsRestOnDrift
PROPERTIES ImplementsAggregator
CHECK_DEADLOCK FALSE
