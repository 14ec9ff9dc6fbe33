SPECIFICATION Spec
CONSTANTS
  Signals = {"s1", "s2"}
  Closeout = {}
  Buys = {"s1", "s2"}
  Qty <- MCQty
  Limits <- MCLimits
  Market <- MCMarket
  Ages <- MCAges
  Profile = "live"
  BlockTTL = 2
  ReconTTL = 1
  ReadTime = 1
  MaxTime = 3
  MaxFaults = 2
INVARIANTS  BlockTakesEffect
CHECK_DEADLOCK FALSE
