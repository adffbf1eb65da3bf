------------------------------ MODULE MockApi ------------------------------
(***************************************************************************)
(* The mock API (node_mock/server.js): the lists it keeps in memory, the   *)
(* interval that grows and trims them, the handler that resolves an alert, *)
(* the routes that read them and the pushes that show them to the apps.    *)
(* Each handler runs to its end without a pause.                           *)
(***************************************************************************)
EXTENDS Naturals, Sequences, Functions, FiniteSets

CONSTANTS
  NULL,
  SERVICES,     \* a sequence of different services
  Seeds,        \* metrics of each service and runs at the start
  MetricCap,    \* METRICS keeps 200
  RunCap,       \* COLLECTOR_RUNS keeps 100
  AlertCap,     \* GET /api/alerts returns 100; ALERTS and its pushes have no cap
  MaxAlerts,    \* bound: alerts, the three seeds included
  MaxIntervals  \* bound: runs of the interval

Metric(s, n) == [service |-> s, nr |-> n]

Metrics == {Metric(s, n) : s \in Range(SERVICES), n \in 0 .. MaxIntervals}
Alerts  == [id : 1 .. MaxAlerts, resolved : BOOLEAN]
Runs    == [seed : 0 .. Seeds, nr : 0 .. MaxIntervals]

\* The seeds are within the caps, a round of metrics too.
MockAssumption ==
  /\ Seeds \in Nat /\ MetricCap \in Nat /\ RunCap \in Nat /\ AlertCap \in Nat
  /\ MaxAlerts \in Nat /\ MaxIntervals \in Nat
  /\ SERVICES \in Seq(Range(SERVICES)) /\ IsInjective(SERVICES)
  /\ Len(SERVICES) <= MetricCap /\ Seeds * Len(SERVICES) <= MetricCap
  /\ 1 <= RunCap /\ Seeds <= RunCap
  /\ 3 <= MaxAlerts
  /\ \A alerts \in SUBSET Alerts : alerts # NULL

VARIABLES
  intervals,       \* how often the interval has run; numbers what it makes
  METRICS,         \* oldest first
  ALERTS,          \* newest first
  COLLECTOR_RUNS,  \* newest first, but for the seeds
  emitted          \* the last message of each event that was emitted

vars == <<intervals, METRICS, ALERTS, COLLECTOR_RUNS, emitted>>

TypeOK ==
  /\ intervals \in 0 .. MaxIntervals
  /\ METRICS \in Seq(Metrics) /\ Len(METRICS) <= MetricCap
  /\ ALERTS \in Seq(Alerts)
  /\ COLLECTOR_RUNS \in Seq(Runs) /\ Len(COLLECTOR_RUNS) <= RunCap
  /\ emitted \in [metric        : SUBSET Metrics,
                  collector_run : {NULL} \cup Runs,
                  active_alerts : {NULL} \cup SUBSET Alerts]

\* GET /metrics/latest.
MetricsLatest(metrics) ==
  {m \in Range(metrics) :
     \E i \in DOMAIN metrics :
       metrics[i] = m /\ \A j \in DOMAIN metrics :
                           j > i => metrics[j].service # m.service}

\* What a push shows: all of them.
ActiveAlerts(alerts) == {a \in Range(alerts) : ~a.resolved}

\* When an alert was raised: of the seeds the second last, the third first.
TriggeredAt(a) == IF a.id <= 3 THEN <<2, 3, 1>>[a.id] ELSE a.id

\* Mutant of AlertsRoute: the first of the list are taken, without sorting it.
AlertsRouteUnsorted(alerts) ==
  LET active == SelectSeq(alerts, LAMBDA a : ~a.resolved) IN
  {active[i] : i \in {j \in DOMAIN active : j <= AlertCap}}

\* GET /alerts: sorted by triggered_at, the newest AlertCap of them.
AlertsRoute(alerts) ==
  {a \in ActiveAlerts(alerts) :
     Cardinality({b \in ActiveAlerts(alerts) : TriggeredAt(b) > TriggeredAt(a)}) < AlertCap}

\* GET /monitoring/collector.
Collector(limit) == SubSeq(COLLECTOR_RUNS, 1, limit)

\* The services in turn, as often as there are seeds.
SeedMetrics ==
  [i \in 1 .. Seeds * Len(SERVICES) |-> Metric(SERVICES[((i - 1) % Len(SERVICES)) + 1], 0)]

\* Two alerts are active at the start, and one is resolved.
SeedAlerts == [i \in 1 .. 3 |-> [id |-> i, resolved |-> i = 3]]

SeedRuns == [i \in 1 .. Seeds |-> [seed |-> i, nr |-> 0]]

Init ==
  /\ intervals = 0
  /\ METRICS = SeedMetrics
  /\ ALERTS = SeedAlerts
  /\ COLLECTOR_RUNS = SeedRuns
  /\ emitted = [metric |-> {}, collector_run |-> NULL, active_alerts |-> NULL]

-----------------------------------------------------------------------------
\* Mutant of Trimmed: the newest metrics are thrown away.
TrimmedAtEnd(metrics) ==
  SubSeq(metrics, 1, IF Len(metrics) > MetricCap THEN MetricCap ELSE Len(metrics))

Trimmed(metrics) ==
  SubSeq(metrics, IF Len(metrics) > MetricCap THEN Len(metrics) - MetricCap + 1 ELSE 1,
         Len(metrics))

\* A metric of each service in turn.  The code trims after each of them, which
\* leaves the same metrics as trimming after the last.
Grown(metrics, n) ==
  Trimmed(metrics \o [k \in DOMAIN SERVICES |-> Metric(SERVICES[k], n)])

\* Mutant of Unshifted: nothing is popped.
UnshiftedUncapped(item, list, cap) == <<item>> \o list

\* unshift of an item, with a limit on the length.
Unshifted(item, list, cap) ==
  SubSeq(<<item>> \o list, 1, IF Len(list) < cap THEN Len(list) + 1 ELSE cap)

\* The interval, with or without a new alert.
Interval ==
  /\ intervals < MaxIntervals
  /\ intervals' = intervals + 1
  /\ METRICS' = Grown(METRICS, intervals')
  /\ \/ UNCHANGED ALERTS
     \/ /\ Len(ALERTS) < MaxAlerts
        /\ ALERTS' = <<[id |-> Len(ALERTS) + 1, resolved |-> FALSE]>> \o ALERTS
  /\ LET run == [seed |-> 0, nr |-> intervals'] IN
     /\ COLLECTOR_RUNS' = Unshifted(run, COLLECTOR_RUNS, RunCap)
     /\ emitted' = [metric        |-> {Metric(s, intervals') : s \in Range(SERVICES)},
                    collector_run |-> run,
                    active_alerts |-> ActiveAlerts(ALERTS')]

\* Mutant of Resolve: the list is sent before the alert is marked.
ResolveSendsFirst(id) ==
  \E i \in DOMAIN ALERTS :
    /\ ALERTS[i].id = id /\ ~ALERTS[i].resolved
    /\ ALERTS' = [ALERTS EXCEPT ![i].resolved = TRUE]
    /\ emitted' = [emitted EXCEPT !.active_alerts = ActiveAlerts(ALERTS)]
    /\ UNCHANGED <<intervals, METRICS, COLLECTOR_RUNS>>

\* PATCH /alerts/:id/resolve; any other id is answered 404.
Resolve(id) ==
  \E i \in DOMAIN ALERTS :
    /\ ALERTS[i].id = id /\ ~ALERTS[i].resolved
    /\ ALERTS' = [ALERTS EXCEPT ![i].resolved = TRUE]
    /\ emitted' = [emitted EXCEPT !.active_alerts = ActiveAlerts(ALERTS')]
    /\ UNCHANGED <<intervals, METRICS, COLLECTOR_RUNS>>

Next == Interval \/ \E id \in 1 .. MaxAlerts : Resolve(id)

Spec == Init /\ [][Next]_vars

-----------------------------------------------------------------------------
(* Properties.                                                             *)

\* An app that starts from the routes sees what one that follows the pushes sees,
\* the alerts of a full route excepted: the cap on METRICS never costs a service its
\* latest metric, the cap on the runs never the last one, and the cap on the
\* route's alerts only the oldest of those that were pushed.
RoutesAgreeWithPushes ==
  emitted.collector_run # NULL =>
    /\ MetricsLatest(METRICS) = emitted.metric
    /\ Collector(1) = <<emitted.collector_run>>
    /\ AlertsRoute(ALERTS) \subseteq emitted.active_alerts
    /\ \A a \in emitted.active_alerts \ AlertsRoute(ALERTS) :
         /\ Cardinality(AlertsRoute(ALERTS)) = AlertCap
         /\ \A b \in AlertsRoute(ALERTS) : TriggeredAt(b) > TriggeredAt(a)
=============================================================================
