SPECIFICATION Spec
CONSTANTS
  r1 = r1
  r2 = r2
  None = None
  Process = {r1, r2}
  Time = {1, 2, 3, 4}
  Contents <- OneContent
  Thresholds = {0}
  HistoryLimit = 1
  MaxEntries = 2
  MaxSnapshotBytes = 2
  MaxBytes = 8
  MaxStops = 1
  MaxPublished = 4
SYMMETRY Symmetry
CHECK_DEADLOCK FALSE
INVARIANTS
  TypeOK
PROPERTIES
  PrunesOnlyOldest
