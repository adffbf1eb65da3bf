\* One read overtaken by one resolve.
SPECIFICATION FairSpec
CONSTANTS
  Alerts <- TwoAlerts
  Apps = {c1}
  Requests = {q1}
  Runs = {r1}
  Limit = 2
  MaxErrors = 0
  MaxJoins = 1
  NULL = NULL
PROPERTIES
  NoResurrection
