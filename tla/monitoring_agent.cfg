CONSTANTS
  Services <- MCServices
  CriticalServices <- MCCriticalServices
  Tables <- MCTables
  CriticalTables <- MCCriticalTables
  CriticalGroup = TRUE
  WarnLag = 1
  CritLag = 3
  RestartWarn = 1
  RestartCrit = 3
  MaxAge = 1
  NoAge <- MCNoAge
  Raw <- MCRaw
  Moves <- MCMoves
  Nominal <- MCNominal
  Deployments <- MCDeployments
  AIEngine = "ai_engine"
  None = None
  MaxChanges = 2
  MaxFaults = 1
  MaxClears = 1
  MaxDays = 1
SPECIFICATION Spec
INVARIANT ReportsAreTrue
PROPERTIES WritesAreJustified OutageHalts
CHECK_DEADLOCK FALSE
