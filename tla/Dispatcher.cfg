SPECIFICATION FairSpec
CONSTANTS
  a1 = a1
  a2 = a2
  s1 = s1
  s2 = s2
  s3 = s3
  Agents = {a1, a2}
  Repositories <- TwoRepositories
  Sessions = {s1, s2, s3}
  NoSession = NoSession
  Preflights <- SomePreflights
  CheckInterval = 1
INVARIANTS
  OneSessionPerAgent
  CleanExitMeansResolved
PROPERTIES
  EveryRepositoryServed
  ShutdownSettles
