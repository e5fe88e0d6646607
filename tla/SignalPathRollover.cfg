SPECIFICATION Spec
CONSTANTS
  Signals <- MCSignals
  SymbolOf <- MCSymbolOf
  SideOf <- MCSideOf
  StopOf <- MCStopOf
  TargetOf <- MCTargetOf
  Horizon = 2
  Symbols = {"A"}
  Prices = {1, 3}
  None = None
  MaxTime = 5
  MaxFaults = 0
INVARIANT
  VerdictsAreTrue
