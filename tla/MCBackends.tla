----------------------------- MODULE MCBackends -----------------------------
(***************************************************************************)
(* Three parts of the backends on small instances: the sessions of the     *)
(* API, its question to the nodes of the database, and the mock API.  They *)
(* share nothing, so a behaviour is one of one part; the others stay where *)
(* they begin.                                                             *)
(***************************************************************************)
EXTENDS Integers, Sequences

CONSTANTS
  NULL, Users, Roles, Requests, Lifetime, MaxTime, MaxLogins, MaxFails, MaxLost,
  Nodes, MaxCuts,
  SERVICES, Seeds, MetricCap, RunCap, AlertCap, MaxAlerts, MaxIntervals

TwoServices == <<"passbolt", "chkmonitor">>

VARIABLES
  part,
  now, users, requests, tokens, faults,
  fetch, answer, cuts,
  intervals, METRICS, ALERTS, COLLECTOR_RUNS, emitted

Api == INSTANCE Accounts
Patroni == INSTANCE DbNodes
Mock == INSTANCE MockApi

ASSUME BackendsAssumption ==
  Api!AccountsAssumption /\ Patroni!DbNodesAssumption /\ Mock!MockAssumption

apiVars == <<now, users, requests, tokens, faults>>
patroniVars == <<fetch, answer, cuts>>
mockVars == <<intervals, METRICS, ALERTS, COLLECTOR_RUNS, emitted>>

vars == <<part, apiVars, patroniVars, mockVars>>

Init ==
  /\ part \in {"sessions", "nodes", "mock"}
  /\ Api!Init /\ Patroni!Init /\ Mock!Init

Next ==
  \/ part = "sessions" /\ Api!Next /\ UNCHANGED <<part, patroniVars, mockVars>>
  \/ part = "nodes" /\ Patroni!Next /\ UNCHANGED <<part, apiVars, mockVars>>
  \/ part = "mock" /\ Mock!Next /\ UNCHANGED <<part, apiVars, patroniVars>>

Spec == Init /\ [][Next]_vars /\ Api!Fairness /\ Patroni!Fairness

TypeOK == Api!TypeOK /\ Patroni!TypeOK /\ Mock!TypeOK

\* While a user's row shows a session, it covers the user's good tokens.
SessionCoversTokens == Api!SessionCoversTokens

\* Every request about a session or a role is answered.
RequestsAnswered == Api!RequestsAnswered

\* db-nodes is answered unless a connection breaks inside a body.
NodesAnswered == Patroni!NodesAnswered

\* The routes of the mock show what its pushes have shown, but for the oldest
\* alerts once its route is full.
RoutesAgreeWithPushes == Mock!RoutesAgreeWithPushes

Ids(alerts) == {a.id : a \in alerts}

Board == INSTANCE AlertBoard WITH
  Alerts <- 1 .. MaxAlerts,
  open <- Ids(Mock!ActiveAlerts(ALERTS)),
  closed <- Ids(Mock!Range(ALERTS) \ Mock!ActiveAlerts(ALERTS)),
  shown <- IF emitted.active_alerts = NULL THEN NULL ELSE Ids(emitted.active_alerts)

\* The mock keeps the promise of AlertBoard: a resolved alert is never shown again.
RefinesAlertBoard == Board!Spec
=============================================================================
