SPECIFICATION Spec
CONSTANTS
  k1 = k1
  k2 = k2
  w1 = w1
  go = go
  None = None
  Process = {k1, k2, w1}
  Keepers = {k1, k2}
  Workers = {w1}
  Candidate = {go}
  GoCache = go
  MaxGeneration = 2
  MaxInodes = 2
  MaxLitter = 1
  PlanTTL = 1
  Caches <- SomeCaches
  Tools = {1}
  MaxBytes = 1
  MaxTime = 1
  MaxPlans = 1
  MaxReceipts = 1
SYMMETRY Symmetry
INVARIANTS
  TypeOK
  ReceiptsReadable
  ProtectedIsSpared
  CleansOnlyOnValidPlan
CHECK_DEADLOCK FALSE
