SPECIFICATION Spec
CONSTANTS
  p1 = p1
  p2 = p2
  p3 = p3
  None = None
  Contains <- LinearHistory
  Procs = {q1}
  Paths = {p1}
  AgentRoots = {}
  Main = None
  Commits = {1}
  NumRefs = 1
  Annotated = {1}
  PlanTTL = 1
  ReleaseTTL = 2
  Commands = {"register", "release", "plan", "approve", "apply", "recover"}
  OwnerMoves = {}
  MaxTime = 0
  MaxId = 2
  MaxPlans = 1
  MaxReceipts = 2
INVARIANTS
  RetirementsRecoverable
CHECK_DEADLOCK FALSE
