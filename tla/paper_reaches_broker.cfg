SPECIFICATION Spec
CONSTANTS
  NumSignals = 2
  Plans <- MixedPlans
  Prices <- TwoPrices
  Slip = 18
  Activate = 36
  Trail = 36
  Attempts = 2
  MaxCrashes = 1
  MaxDbErrors = 0
INVARIANTS
  PaperNeverLive
CHECK_DEADLOCK FALSE
