SPECIFICATION MCSpec
CONSTANTS
  land = land
  folk = folk
  Parts = {land, folk}
  KeepRecent = 1
  KeyframeEvery = 3
  FullEvery = 3
  MinInterval = 1
  MaxInterval = 2
  Retention = 2
  MaxTick = 5
  MaxEvents = 2
  MaxSaves = 5
  Names <- NamesByDepth
  One = one
  True = yes
  List = list
  Tuple = pair
SYMMETRY BranchSymmetry
INVARIANTS
  RowsReconstruct
  LossIsBounded
  RoundTrip
PROPERTY
  KeyframesArePermanent
