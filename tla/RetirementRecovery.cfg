SPECIFICATION Spec
CONSTANTS
  p1 = p1
  p2 = p2
  p3 = p3
  None = None
  Contains <- LinearHistory
  Procs = {q1}
  Paths = {p1}
  AgentRoots = {}
  Main = None
  Commits = {1, 2}
  NumRefs = 1
  Annotated = {}
  PlanTTL = 1
  ReleaseTTL = 2
  Commands = {"register", "release", "plan", "approve", "apply", "recover", "protect"}
  OwnerMoves = {"lock"}
  MaxTime = 3
  MaxId = 2
  MaxPlans = 1
  MaxReceipts = 2
INVARIANTS
  RetirementsRecoverable
  RemovalsAuthorised
PROPERTIES
  OneReleaseCoversRemoval
CHECK_DEADLOCK FALSE
