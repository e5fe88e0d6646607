SPECIFICATION Spec
CONSTANTS
  Levels <- MCOne
  PriceOf <- MCPriceOf
  Prices = {1, 3, 5}
  Buffer = 1
  Zone = 1
  Departure = 2
  BarLength = 1
  MinuteLength = 2
  Warmup = 1
  Cooldown = 2
  Ttl = 1
  None = None
  MaxTime = 4
  MaxFaults = 1
INVARIANTS
  SignalsWithinTtl
