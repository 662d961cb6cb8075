SPECIFICATION FairSpec
CONSTANTS
  MaxPrompts = 2
INVARIANTS
  NoSilentSurvivor
PROPERTIES
  CompletedIsEarned
  StopEndsRun
