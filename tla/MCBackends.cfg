\* Two users and two requests at a time; two nodes; two services and lists cut short.
SPECIFICATION Spec
CONSTANTS
  NULL = NULL
  Users = {u1, u2}
  Roles = {"master", "viewer"}
  Requests = {r1, r2}
  Lifetime = 2
  MaxTime = 2
  MaxLogins = 2
  MaxFails = 1
  MaxLost = 1
  Nodes = {n1, n2}
  MaxCuts = 1
  SERVICES <- TwoServices
  Seeds = 2
  MetricCap = 5
  RunCap = 3
  AlertCap = 2
  MaxAlerts = 5
  MaxIntervals = 4
INVARIANTS
  TypeOK
  SessionCoversTokens
  RoutesAgreeWithPushes
PROPERTIES
  RequestsAnswered
  NodesAnswered
  RefinesAlertBoard
CHECK_DEADLOCK FALSE
