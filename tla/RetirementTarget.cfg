SPECIFICATION Spec
CONSTANTS
  p1 = p1
  p2 = p2
  p3 = p3
  None = None
  Contains <- LinearHistory
  Procs = {q1}
  Paths = {p1}
  AgentRoots = {}
  Main = None
  Commits = {1, 2}
  NumRefs = 1
  Annotated = {}
  PlanTTL = 1
  ReleaseTTL = 2
  Commands = {"register", "release", "plan", "approve", "apply"}
  OwnerMoves = {"edit", "path", "commit", "ref"}
  MaxTime = 0
  MaxId = 2
  MaxPlans = 1
  MaxReceipts = 1
INVARIANTS
  RemovalsAuthorised
  ReceiptsReadable
PROPERTIES
  UsedPlanNeverRevalidates
CHECK_DEADLOCK FALSE
