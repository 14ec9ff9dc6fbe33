SPECIFICATION Spec
CONSTANTS
  NumSignals = 2
  Plans <- MixedPlans
  Prices <- TwoPrices
  Slip = 18
  Activate = 36
  Trail = 36
  Attempts = 2
  MaxCrashes = 1
  MaxDbErrors = 1
INVARIANTS TypeOK NoLostFill PaperBookIsSound
PROPERTIES ExitEngineIsSound StopHitIsExited
CHECK_DEADLOCK FALSE
