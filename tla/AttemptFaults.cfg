SPECIFICATION FairSpec
CONSTANTS
  Models = {"m1"}
  BudgetUsd = 20
  MaxEvents = 3
  Bodies <- FaultBodies
  Reorders = TRUE
  Redelivers = TRUE
  Misbehaves = TRUE
INVARIANTS
  OneOutcome
  OutcomeMatchesCause
  SilentMeansClean
PROPERTIES
  ContractSpec
  AttemptReturns
