SPECIFICATION Spec
CONSTANTS
  Signals = {"s1"}
  MaxRetryAttempts = 1
  LagThreshold = 1
  Window = 2
  RecoveryWindow = 2
  MaxFaults = 2
  MaxToggles = 1
INVARIANTS NothingLost
PROPERTIES DecidesOnce EverySignalSettles
CHECK_DEADLOCK FALSE
