SPECIFICATION SwitchSpec
CONSTANTS
  LagChecks = 2
  MaxAlarms = 1
  MaxErrors = 1
  MaxCrashes = 1
  MaxOverlaps = 1
  MaxClears = 1
INVARIANT TripKept
PROPERTIES RowReachesCache AlarmHalts
