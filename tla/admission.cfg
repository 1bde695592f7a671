SPECIFICATION MCSpec
\* The engine may stop.
CHECK_DEADLOCK FALSE
CONSTANTS
  ana = ana
  bo = bo
  belief = belief
  visit = visit
  invention = invention
  branch = branch
  MaxVisits = 2
  MaxInventions = 2
  MaxBranches = 2
  Agents = {ana, bo}
  Jobs = {belief, visit, invention, branch}
  Critical = {belief}
  Ungated = {visit, branch}
  Early = {visit}
  EraBranch = branch
  Inventive = {invention}
  Picks <- TwoPicks
  Order <- TickJobs
  StartSlots = 1
  MaxSlots = 2
  PerSlot = 1
  PauseRatio = 2
  Ceiling = 2
  PerTick = 1
  Stale = 2
INVARIANTS
  LoadIsExact
  GatedQueueIsBounded
  InflightIsExact
  CriticalNeverFabricated
PROPERTIES
  GoalsMoveForward
  WorldTicks
