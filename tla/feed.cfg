CONSTANTS
  Intervals = {1, 5, 15}
  Cycles = {1, 2, 4}
  NCandles = 2
  Kinds = {"orb", "scalp", "trend", "preclose", "vwap"}
  MaxDays = 2
  BarsPerSlot = 1
  ScalpCap = 1
  Cooldown = 2
  Consecutives = {2}
  Rates = {2, 3}
  Window = 2
  Successes = 2
  Caps = {2}
  DayFaults = 1
  NTicks = 2
  MaxTime = 2
  GapTicks = 1
  Threshold = 2
  MaxAge = 1
  ReplayAfter = 2
  BatchSize = 2
  MaxFaults = 2
  Symbols = {"a", "b"}
  Prices = {100, 200}
  Capital = 500
  NBars = 4
  BuyFee = 10
  SellFee = 20
  Slippage = 10
  None = None
SPECIFICATION Spec
INVARIANTS FeedIsClean BarsArrive SignalsWithinLimits FailuresBounded CapitalIsPnl
CHECK_DEADLOCK FALSE
