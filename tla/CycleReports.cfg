SPECIFICATION Spec
CONSTANTS
  c1 = c1
  c2 = c2
  k1 = k1
  k2 = k2
  Keys = {k1, k2}
  Calls = {c1, c2}
  Providers = {"vertex", "rehor-openai"}
  Models = {"opus", "haiku", "gpt", "claude-sonnet-4-6"}
  Deployments <- MCDeployments
  Selections <- MCSelections
  ToolCalls <- MCToolCalls
  MaxBuffered = 1
  MaxEvents = 3
  MaxCycles = 2
  MaxRows = 2
  MaxMishaps = 1
INVARIANTS
  RecordsAgree
  StatusIsHonest
  ReportsFindTheirRow
  RunIsServed
CHECK_DEADLOCK FALSE
