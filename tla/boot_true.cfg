SPECIFICATION BootsSpec
\* The starts and the events are bounded.
CHECK_DEADLOCK FALSE
CONSTANTS
  ford = ford
  ridge = ridge
  marsh = marsh
  unnamed = unnamed
  Scenarios = {ford, ridge, marsh}
  NoScenario = unnamed
  MaxBoots = 4
  c1 = c1
  Client = {c1}
  BufferMax = 3
  IdleEvery = 3
  QueueMax = 2
  MaxEvents = 4
  MaxTasks = 2
  unknown = unknown
  MaxSlots = 4
  Start = 3
  PerSlot = 3
  Hints = {1, 2, 4}
  Proposals = {0, 1, 3, 9}
  QuietDays = 2
  NoHint = unknown
  j1 = j1
  j2 = j2
  j3 = j3
  Jobs = {j1, j2, j3}
  ReasoningJobs = {j1}
  InitLimits = {1, 2}
  Targets = {0, 1, 2, 3}
  MaxResizes = 2
  PoolSize = 2
INVARIANT
  FoundingIsTrue
