\* Two admins, an app that comes and goes, more alerts than the LIMIT.
SPECIFICATION FairSpec
CONSTANTS
  Alerts <- ThreeAlerts
  Apps = {c1}
  Requests = {q1, q2}
  Runs = {r1, r2}
  Limit = 2
  MaxErrors = 1
  MaxJoins = 2
  NULL = NULL
INVARIANTS
  TypeOK
  ResolvedByOne
  PushExcludesResolved
PROPERTIES
  ListsConverge
