SPECIFICATION Spec
CONSTANTS
  Pivots <- MCPivots
  PriceOf <- MCPriceOf
  OriginOf <- MCFar
  HalfLeft = 1
  RightExclusion = 1
  MinBars = 3
  Tolerance = 1
  ConfirmingCloses = 1
  HistoryLimit = 5
  Closes = {1, 2}
  None = None
  MaxBars = 8
INVARIANT
  RestartFindsTheSame
