SPECIFICATION ClaudeFairSpec
CONSTANTS
  None = None
  Models = {"opus", "haiku"}
  BudgetUsd = 1
  Requested = "opus"
  Responses = {"r1"}
  MaxMessages = 3
  MaxTokens = 2
INVARIANTS
  SpendReachesLedger
  NoQueryLeft
PROPERTY
  StopEndsStream
