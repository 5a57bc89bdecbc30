SPECIFICATION Spec
CONSTANTS
  r1 = r1
  r2 = r2
  None = None
  Process = {r1}
  Time = {1, 2, 3}
  Contents <- AllContents
  Thresholds = {0, 1}
  HistoryLimit = 2
  MaxEntries = 3
  MaxSnapshotBytes = 2
  MaxBytes = 3
  MaxStops = 1
  MaxPublished = 4
CHECK_DEADLOCK FALSE
INVARIANTS
  QuietIsSafe
  ClaimsBacked
  OversizeByOneEach
