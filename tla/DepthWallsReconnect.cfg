SPECIFICATION Spec
CONSTANTS
  Sizes = {0, 1, 2}
  Thresholds = {1, 2}
  MaxAge = 1
  Persistence = 1
  Gap = 1
  Warmup = 1
  BarLength = 1
  Minute = 2
  WallLife = 2
  None = None
  MaxTime = 3
  MaxFaults = 2
INVARIANTS
  DomFollowsBook
