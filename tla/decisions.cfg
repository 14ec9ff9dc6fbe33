CONSTANTS
  Symbols = {"a", "b"}
  Ranks = {1, 2, 3}
  MaxSymbols = 2
  MinSymbols = 2
  UniverseDays = 2
  Alterations = 2
  MaxEvents = 2
  StartupFaults = 1
  NoSnapshot = None
  Burst = 2
  Reserved = 1
  Second = 2
  Minute = 4
  PerSecond = 2
  PerMinute = 3
  PerDay = 3
  MaxRequests = 4
  MaxTime = 4
  MaxDate = 2
SPECIFICATION DecisionsSpec
INVARIANTS GateFailsClosed StandingWrongIsRed LiveOrdersNeedToday ReconciliationIsSafe
PROPERTY LawfulGrants
CHECK_DEADLOCK FALSE
