SPECIFICATION Spec
CONSTANTS
  Signals <- MCSignals
  Symbols <- MCSymbols
  SymbolOf <- MCSymbolOf
  SideOf <- MCSideOf
  StopOf <- MCStopOf
  TargetOf <- MCTargetOf
  DayLength = 3
  CostPerLot = 1
  Slippage = 1
  Prices = {1, 2, 3, 4}
  Latency = 1
  Ttl = 1
  InitialEquity = 10
  LossLimit = 2
  Torn = {"decision", "cancel", "quote", "close", "fill"}
  None = None
  MaxLots = 2
  MaxShown = 1
  MaxQueue = 2
  MaxTime = 3
  MaxCrashes = 1
INVARIANTS
  SingleSlot
  DurableMemory
  FillsBehindQueue
  EquityIsBooked
  ExitWithinExcursion
PROPERTIES
  NoTradePastDailyLimit
  ImplementsLifecycle
