SPECIFICATION FactionsAlone
\* A settlement may be deserted.
CHECK_DEADLOCK FALSE
CONSTANTS
  p1 = p1
  p2 = p2
  p3 = p3
  p4 = p4
  p5 = p5
  Person = {p1, p2, p3, p4, p5}
  Settlement = {1, 2}
  FoundingParty = 3
  MigrantFloor = 2
  DistrictCap = 1
  CastSize = 2
  MaxSettlements = 2
  PartyMin = 1
  PartyMax = 2
  MinRemaining = 1
  SplitPopulation = 2
  MaxRequests = 2
  MaxNaming = 2
  MaxPending = 2
  House = {"hut"}
  Vehicle = {"cart"}
  Craft = {"pottery"}
  FamilyCap = 1
  NoOne = "nobody"
  Stable <- Stable1
  Workshop <- Workshop1
  CouncilSize = 2
  CouncilThreshold = 3
  TradeOrder <- OneTrade
  Named = {1}
  AutoMasters = 3
  DeliberateMasters = 2
  FactionMin = 2
  FactionCap = 1
  Cooldown = 2
  Horizon = 4
  MostExchanges = 2
  VoiceCooldown = 1
  Stale = 1
  MaxCalls = 1
SYMMETRY Anyone
INVARIANT
  DeadMakeRoom
