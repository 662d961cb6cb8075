SPECIFICATION NormalizerSpec
CONSTANTS
  None = None
  Root = "root"
  Sessions = {"root", "child", "other", "grandchild"}
  Models = {"gpt", "own"}
  Priced = {"gpt"}
  Registered = {"read"}
  MaxCalls = 3
  Scenes <- MCScenes
INVARIANTS
  ReportsFollowMessages
  RecoveredUsageIsExact
  OneIdentityPerCall
