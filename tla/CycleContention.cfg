SPECIFICATION FairSpec
CONSTANTS
  alpha = alpha
  beta = beta
  Coordinators <- TwoCoordinators
  Limits = {0}
  Intervals = {1}
  IdleInterval = 5
  MaxBackoff = 3
  Recommended = {7}
  MishapKinds = {"crash"}
  MaxStreak = 1
  MaxLaunches = 3
  MaxMishaps = 1
INVARIANTS
  OneAdmitted
PROPERTIES
  LockComesFree
