SPECIFICATION Spec
CONSTANTS
  p1 = p1
  p2 = p2
  None = None
  Process = {p1, p2}
  Time = {1, 2, 3}
  Sizes = {1, 2}
  Legacies = {}
  MaxSamples = 2
  MaxAge = 2
  MaxBytes = 3
  MaxFaults = 0
  MaxCrashes = 1
SYMMETRY Symmetry
INVARIANTS
  AcknowledgedNotLost
PROPERTIES
  PrunesOnlyBeyondBounds
