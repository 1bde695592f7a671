SPECIFICATION MCSpec
CONSTANTS
  x = x
  y = y
  z = z
  star = star
  Ids = {1, 2, 3}
  Keys = {x, y}
  Wildcard = star
  weather = weather
  crops = crops
  ledger = ledger
  omen = omen
  tidy = tidy
  wx = wx
  yield = yield
  tax = tax
  dusk = dusk
  TickBudgets = {NoSpare, 1, 3}
  NoSpare = NoSpare
  Costs = {0, 1}
  MaxDebt = 1
  Order <- TaskOrder
  Class <- TaskClass
  Trigger <- TaskTrigger
  Subsystem <- TaskSubsystem
  Reads <- TaskReads
  Writes <- TaskWrites
  EventTypes <- TaskEvents
  MaxDeferrals <- DeferralBounds
  Budget <- LandBudget
  Seasons = 2
  Job = {"m", "s", "y"}
  MonthWindow = 2
  SeasonWindow = 2
  FirstDay = 8
  LastDay = 40
  RotaLastDay = 17
  DaysPerMonth <- ShortMonths
  MonthToSeason <- SeasonOfMonth
  Boundary <- Boundaries
  StartDay <- StartDays
  Cap = 2
  SpreadingFloor = 1
  EstablishedFloor = 2
  MostAdopters = 2
  MinReadings = 2
  CastSizes = {2, 10}
  MaxIdeas = 4
  MaxAsked = 1
  MaxSettlements = 3
  IdleLimits = {1, 2}
  Herd = {"aurochs", "deer", "boar"}
  Founding = {"aurochs", "deer"}
  TicksPerDay = 2
  IdleChecks = {1, 2}
  LastTick = 8
INVARIANTS
  OrderIsSafe
  RefusesExactlyCycles
  OrderIsLeast
  TickIsComplete
  BoundedDeferral
  PeriodsAreKept
  FateIsRecorded
  TurnsAreKept
  RestIsRepaid
PROPERTIES
  WritesAreSeen
  LineageIsKept
