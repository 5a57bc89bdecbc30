SPECIFICATION Spec
CONSTANTS
  p1 = p1
  p2 = p2
  None = None
  Process = {p1}
  Time = {1, 2, 4}
  Sizes = {1, 2}
  Legacies <- EarlyLegacy
  MaxSamples = 2
  MaxAge = 1
  MaxBytes = 3
  MaxFaults = 7
  MaxCrashes = 1
INVARIANTS
  TypeOK
  NothingLeftBehind
PROPERTIES
  PrunesOnlyBeyondBounds
  ImplementsAtomicHistory
