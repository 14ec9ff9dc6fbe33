SPECIFICATION FairSpec
CONSTANTS
  s1 = s1
  Signals <- OneSignal
  Qty = 1
  MaxRetries = 1
  PendingSettles = TRUE
  MaxCrashes = 1
  MaxDbErrors = 0
  MaxTimeouts = 1
  MaxHalts = 1
  MaxRedeliveries = 0
PROPERTIES MessageResolved TrackedOrdersSettle
CHECK_DEADLOCK FALSE
