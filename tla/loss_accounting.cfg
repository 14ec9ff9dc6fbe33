SPECIFICATION LossSpec
CONSTANTS
  Fills <- MCFills
  Marks <- MCMarks
  MaxEvents = 3
  OpeningNav = 100
  LossPct = 3
  MaxFailures = 2
INVARIANTS AccountsBalance LossHalts
PROPERTY CacheCatchesUp
CHECK_DEADLOCK FALSE
