SPECIFICATION FairSpec
CONSTANTS
  MaxMishaps = 3
INVARIANTS
  CompletionIsTrue
  ChildrenFirst
  CleanGatewayReleases
PROPERTIES
  StrangersAreLeftAlone
  ShutdownEndsSession
