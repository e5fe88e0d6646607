SPECIFICATION Spec
CONSTANTS
  Nets <- MCNets
  Stop <- MCStop
  Target = 4
  Activation = 2
  Giveback = 1
  MinFloor = 0
  Baseline = 1
  HistoryLimit = 2
  None = None
  MaxMessages = 7
  MaxKills = 2
  MaxBreaks = 2
INVARIANTS
  TypeOK
  GuardMatchesExcursion
  ExitsGiveBack
  ExitsOnceInHistory
  EveryModeSettles
CHECK_DEADLOCK FALSE
