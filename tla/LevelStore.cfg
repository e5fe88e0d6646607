SPECIFICATION Spec
CONSTANTS
  Pivots <- MCPivots
  PriceOf <- MCPriceOf
  OriginOf <- MCNear
  HalfLeft = 1
  RightExclusion = 1
  MinBars = 3
  Tolerance = 1
  ConfirmingCloses = 2
  HistoryLimit = 5
  Closes = {1, 2, 3}
  None = None
  MaxBars = 7
INVARIANTS
  TypeOK
  NoRevival
  ActiveAreUnbroken
  BreaksHappened
PROPERTIES
  BreaksStand
  NothingElseEndsALevel
