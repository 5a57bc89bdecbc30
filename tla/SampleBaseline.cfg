SPECIFICATION FairSpec
CONSTANTS
  None = None
  Names = {"name"}
  MaxSeconds = 176461
  MaxUnsigned = 2048
  Second = 2
  TargetSpan = 3
  Interval = 1
  Day = 2
  MinDays = 2
  MinCoverage = 2
  Time <- AnyTime
  Sizes = {1}
  MaxSamples = 5
  MaxAge = 12
  MaxBytes = 8
  Outputs <- SomeOutputs
  Levels = {1, 3}
  Swaps <- SomeSwaps
  Pause = 2
  Late = 2
  Slow = 1
  MaxMisses = 1
  Jump = 14
  MaxWrong = 1
INVARIANTS
  TypeOK
  CollectedIsValid
  ReadingsExact
  StatusTellsTheTruth
PROPERTIES
  ReadyStays
  CoverageReached
