SPECIFICATION FairSpec
CONSTANTS
  c1 = c1
  c2 = c2
  r1 = r1
  r2 = r2
  d1 = d1
  d2 = d2
  d3 = d3
  Callers = {c1, c2}
  Revisions = {r1, r2}
  Snapshots = {d1, d2, d3}
  None = None
INVARIANTS
  CurrentIsComplete
PROPERTIES
  ReturnedIsFresh
  CallsSettle
