SPECIFICATION Spec
CONSTANTS
  s1 = s1
  Signals <- OneSignal
  Qty = 2
  MaxRetries = 1
  PendingSettles = TRUE
  MaxCrashes = 1
  MaxDbErrors = 1
  MaxTimeouts = 1
  MaxHalts = 1
  MaxRedeliveries = 1
INVARIANTS TypeOK AtMostOneBrokerOrder RowBeforeBroker PositionIsTrue
PROPERTIES LifecycleSpec RowsStayTrue
CHECK_DEADLOCK FALSE
