SPECIFICATION FairSpec
CONSTANTS
  Signals <- MCSignals
  SymbolOf <- MCSymbolOf
  SideOf <- MCSideOf
  StopOf <- MCStopOf
  TargetOf <- MCTargetOf
  Horizon = 1
  Symbols = {"A"}
  Prices = {1, 3}
  None = None
  MaxTime = 4
  MaxFaults = 2
INVARIANTS
  TypeOK
  HeardVerdictsAreTrue
  OneEnd
  RestartEndsOpenPaths
PROPERTIES
  EveryPathEnds
