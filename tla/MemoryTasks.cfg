SPECIFICATION Spec
CONSTANTS
  jira = jira
  github = github
  gitlab = gitlab
  q1 = q1
  q2 = q2
  bot = bot
  References = {"old", "old id", "new", "ticket"}
  TaskReferences = {"ticket"}
  Tasks = {jira, github, gitlab}
  NoTask = NoTask
  Key <- SameKey
  Instances = {bot}
  NoInstance = NoInstance
  Requests = {q1, q2}
  Links = {"old"}
  Bodies <- SomeBodies
  Additions <- SomeAdditions
  StatusInputs = {"in_progress", "pr_open", "paused", "done", "archived"}
  SavedInputs = {"done"}
  MaxActive = 1
  MaxReports = 2
  MaxChanges = 4
SYMMETRY Symmetry
INVARIANTS
  StagedReportIsFresh
  ArchivedOnEvidence
  AcceptedIsEarned
  OverrunIsBounded
CHECK_DEADLOCK FALSE
