SPECIFICATION Spec
CONSTANTS
  outer = outer
  inner = inner
  deep = deep
  deepest = deepest
  side = side
  None = None
  Denied = Denied
  Path <- FivePaths
  Above <- Nesting
  Inode = {1, 2}
  Length = {1, 2}
  Roots <- TwoRoots
  Caches <- SomeCaches
  Beginnings <- SomeTrees
  MaxItems = 6
  MaxDepth = 2
  MaxBytes = 5
  MaxChanges = 2
CHECK_DEADLOCK FALSE
INVARIANTS
  TypeOK
  CompleteCoversUntouched
  NothingOverstated
  TotalCountsOnce
  TotalCovers
