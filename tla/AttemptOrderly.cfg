SPECIFICATION Spec
CONSTANTS
  Models = {"m1", "m2"}
  BudgetUsd = 20
  MaxEvents = 4
  Bodies <- BudgetBodies
  Reorders = FALSE
  Redelivers = FALSE
  Misbehaves = FALSE
INVARIANTS
  BudgetIsEnforced
  AdapterIsHeard
