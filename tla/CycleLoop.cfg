SPECIFICATION FairSpec
CONSTANTS
  alpha = alpha
  beta = beta
  Coordinators <- OneCoordinator
  Limits = {0, 2}
  Intervals = {1, 2}
  IdleInterval = 5
  MaxBackoff = 3
  Recommended = {7}
  MishapKinds <- Mishaps
  MaxStreak = 3
  MaxLaunches = 2
  MaxMishaps = 2
INVARIANTS
  SleepsAsRequested
PROPERTIES
  ShutdownStops
