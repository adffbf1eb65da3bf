--------------------------- MODULE BackendsProofs ---------------------------
(***************************************************************************)
(* The three parts that MCBackends runs side by side, for any users, nodes *)
(* and services and any length of the lists.                               *)
(***************************************************************************)
EXTENDS MCBackends, SequenceTheorems, FiniteSetTheorems, WellFoundedInduction, TLAPS

-----------------------------------------------------------------------------
(* The mock's lists.                                                       *)

\* Trimming keeps the end of a list, no more of it than the cap allows.
LEMMA TrimmedIsEnd ==
  ASSUME NEW S, NEW metrics \in Seq(S), MetricCap \in Nat
  PROVE  LET kept == Mock!Trimmed(metrics) IN
         /\ kept \in Seq(S)
         /\ Len(kept) = IF Len(metrics) > MetricCap THEN MetricCap ELSE Len(metrics)
         /\ \A i \in 1 .. Len(kept) : kept[i] = metrics[i + (Len(metrics) - Len(kept))]
<1> DEFINE first == IF Len(metrics) > MetricCap THEN Len(metrics) - MetricCap + 1 ELSE 1
           kept == SubSeq(metrics, first, Len(metrics))
<1>1. Len(metrics) \in Nat /\ first \in 1 .. Len(metrics) + 1
  OBVIOUS
<1> HIDE DEF first
<1>2. kept \in Seq(S) /\ Len(kept) = Len(metrics) - first + 1
  BY <1>1
<1>3. \A i \in 1 .. Len(kept) : kept[i] = metrics[first + i - 1]
  BY <1>1, <1>2
<1> HIDE DEF kept
<1>4. Len(kept) = IF Len(metrics) > MetricCap THEN MetricCap ELSE Len(metrics)
  BY <1>1, <1>2 DEF first
<1>5. \A i \in Nat : i + (Len(metrics) - Len(kept)) = first + i - 1
  BY <1>1, <1>2
<1>6. \A i \in 1 .. Len(kept) : kept[i] = metrics[i + (Len(metrics) - Len(kept))]
  BY <1>1, <1>2, <1>3, <1>5
<1>7. Mock!Trimmed(metrics) = kept
  BY DEF Mock!Trimmed, kept, first
<1> QED
  BY <1>2, <1>4, <1>6, <1>7

\* A round of the interval ends with one metric of each service, which is then
\* the latest one.
LEMMA GrownEndsWithRound ==
  ASSUME BackendsAssumption, NEW metrics \in Seq(Mock!Metrics), NEW n \in 0 .. MaxIntervals
  PROVE  LET grown == Mock!Grown(metrics, n)
             old == Len(grown) - Len(SERVICES) IN
         /\ grown \in Seq(Mock!Metrics) /\ Len(grown) <= MetricCap /\ old \in Nat
         /\ \A k \in 1 .. Len(SERVICES) : grown[old + k] = Mock!Metric(SERVICES[k], n)
<1> DEFINE round == [k \in DOMAIN SERVICES |-> Mock!Metric(SERVICES[k], n)]
           all == metrics \o round
           grown == Mock!Trimmed(all)
           K == Len(SERVICES)
           old == Len(grown) - K
<1>1. /\ SERVICES \in Seq(Mock!Range(SERVICES)) /\ MetricCap \in Nat
      /\ K <= MetricCap /\ K \in Nat /\ Len(metrics) \in Nat /\ DOMAIN SERVICES = 1 .. K
  BY DEF BackendsAssumption, Mock!MockAssumption
<1>2. \A k \in 1 .. K : SERVICES[k] \in Mock!Range(SERVICES)
  BY <1>1 DEF Mock!Range
<1>3. \A k \in 1 .. K : Mock!Metric(SERVICES[k], n) \in Mock!Metrics
  BY <1>2 DEF Mock!Metrics
<1>4. round \in Seq(Mock!Metrics) /\ Len(round) = K
  BY <1>1, <1>3
<1>5. /\ all \in Seq(Mock!Metrics) /\ Len(all) = Len(metrics) + K
      /\ \A k \in 1 .. K : all[Len(metrics) + k] = round[k]
  BY <1>1, <1>4
<1>6. Mock!Grown(metrics, n) = grown
  BY DEF Mock!Grown
<1>7. \A k \in 1 .. K : round[k] = Mock!Metric(SERVICES[k], n)
  BY <1>1
<1> HIDE DEF all, round, K
<1>8. /\ grown \in Seq(Mock!Metrics)
      /\ Len(grown) = IF Len(all) > MetricCap THEN MetricCap ELSE Len(all)
      /\ \A i \in 1 .. Len(grown) : grown[i] = all[i + (Len(all) - Len(grown))]
  BY <1>1, <1>5, TrimmedIsEnd
<1> HIDE DEF grown
<1>9. Len(grown) <= MetricCap /\ old \in Nat /\ Len(grown) \in Nat
  BY <1>1, <1>5, <1>8
<1>10. \A k \in 1 .. K : /\ old + k \in 1 .. Len(grown)
                         /\ (old + k) + (Len(all) - Len(grown)) = Len(metrics) + k
  BY <1>1, <1>5, <1>9
<1> HIDE DEF old
<1>11. \A k \in 1 .. K : grown[old + k] = Mock!Metric(SERVICES[k], n)
  BY <1>5, <1>7, <1>8, <1>10
<1> QED
  BY <1>6, <1>8, <1>9, <1>11 DEF old, K

LEMMA LatestIsRound ==
  ASSUME BackendsAssumption, NEW metrics \in Seq(Mock!Metrics), NEW n \in 0 .. MaxIntervals
  PROVE  Mock!MetricsLatest(Mock!Grown(metrics, n)) =
           {Mock!Metric(s, n) : s \in Mock!Range(SERVICES)}
<1> DEFINE grown == Mock!Grown(metrics, n)
           K == Len(SERVICES)
           old == Len(grown) - K
<1>1. /\ grown \in Seq(Mock!Metrics) /\ Len(grown) \in Nat /\ old \in Nat
      /\ K \in Nat /\ DOMAIN SERVICES = 1 .. K /\ DOMAIN grown = 1 .. Len(grown)
      /\ \A k \in 1 .. K : grown[old + k] = Mock!Metric(SERVICES[k], n)
  BY GrownEndsWithRound DEF BackendsAssumption, Mock!MockAssumption
<1>2. \A j, k \in 1 .. K : SERVICES[j] = SERVICES[k] => j = k
  BY <1>1 DEF BackendsAssumption, Mock!MockAssumption, Mock!IsInjective
<1>3. \A k \in 1 .. K : old + k \in 1 .. Len(grown) /\ old + k > old
  BY <1>1
<1>4. \A i \in 1 .. Len(grown) : i > old => i - old \in 1 .. K /\ i = old + (i - old)
  BY <1>1
<1> HIDE DEF grown, K
<1>5. \A k \in 1 .. K : grown[old + k].service = SERVICES[k]
  <2> TAKE k \in 1 .. K
  <2>1. grown[old + k] = Mock!Metric(SERVICES[k], n)
    BY <1>1
  <2> QED
    BY <2>1 DEF Mock!Metric
<1>6. \A k \in 1 .. K : SERVICES[k] \in Mock!Range(SERVICES)
  BY <1>1 DEF Mock!Range
<1>7. \A s \in Mock!Range(SERVICES) : \E k \in 1 .. K : s = SERVICES[k]
  BY <1>1 DEF Mock!Range
<1>8. ASSUME NEW m \in Mock!MetricsLatest(grown)
      PROVE  \E s \in Mock!Range(SERVICES) : m = Mock!Metric(s, n)
  <2>1. PICK i \in 1 .. Len(grown) :
          m = grown[i] /\ \A j \in 1 .. Len(grown) : j > i => grown[j].service # m.service
    BY <1>1 DEF Mock!MetricsLatest
  <2>2. m \in Mock!Metrics
    BY <1>1, <2>1
  <2>3. m.service \in Mock!Range(SERVICES)
    BY <2>2 DEF Mock!Metrics, Mock!Metric
  <2>4. PICK k \in 1 .. K : m.service = SERVICES[k]
    BY <1>7, <2>3
  <2>5. ~(old + k > i)
    BY <1>3, <1>5, <2>1, <2>4
  <2>6. i > old
    BY <1>1, <2>5
  <2>7. m = Mock!Metric(SERVICES[i - old], n) /\ i - old \in 1 .. K
    BY <1>1, <1>4, <2>1, <2>6
  <2> QED
    BY <1>6, <2>7
<1>9. ASSUME NEW s \in Mock!Range(SERVICES)
      PROVE  Mock!Metric(s, n) \in Mock!MetricsLatest(grown)
  <2>1. PICK k \in 1 .. K : s = SERVICES[k]
    BY <1>7
  <2>2. ASSUME NEW j \in 1 .. Len(grown), j > old + k PROVE grown[j].service # s
    <3>1. j > old /\ j - old # k
      BY <1>1, <2>2
    <3>2. j - old \in 1 .. K /\ grown[j].service = SERVICES[j - old]
      BY <1>4, <1>5, <3>1
    <3> QED
      BY <1>2, <2>1, <3>1, <3>2
  <2>3. /\ old + k \in 1 .. Len(grown) /\ grown[old + k] = Mock!Metric(s, n)
        /\ Mock!Metric(s, n).service = s
    BY <1>1, <1>3, <2>1 DEF Mock!Metric
  <2> HIDE DEF old
  <2> QED
    BY <1>1, <2>2, <2>3 DEF Mock!MetricsLatest, Mock!Range
<1>10. Mock!MetricsLatest(grown) = {Mock!Metric(s, n) : s \in Mock!Range(SERVICES)}
  BY <1>8, <1>9
<1> QED
  BY <1>10 DEF grown

-----------------------------------------------------------------------------
(* The mock's types, and its alerts.                                       *)

\* Each alert has a number of its own, the number of alerts at its creation.
IdsFit(alerts) ==
  /\ Len(alerts) <= MaxAlerts
  /\ \A i \in 1 .. Len(alerts) : alerts[i].id \in 1 .. Len(alerts)
  /\ \A i, j \in 1 .. Len(alerts) : alerts[i].id = alerts[j].id => i = j

MockInv == Mock!TypeOK /\ IdsFit(ALERTS) /\ RoutesAgreeWithPushes

\* The numbers of the unresolved alerts and of the resolved ones.
Unresolved(alerts) == Ids(Mock!ActiveAlerts(alerts))
Resolved(alerts) == Ids(Mock!Range(alerts) \ Mock!ActiveAlerts(alerts))

LEMMA AlertsById ==
  ASSUME NEW alerts \in Seq(Mock!Alerts)
  PROVE  /\ Mock!ActiveAlerts(alerts) \in SUBSET Mock!Alerts
         /\ \A x : /\ x \in Unresolved(alerts) <=>
                        \E i \in 1 .. Len(alerts) : alerts[i].id = x /\ alerts[i].resolved = FALSE
                   /\ x \in Resolved(alerts) <=>
                        \E i \in 1 .. Len(alerts) : alerts[i].id = x /\ alerts[i].resolved = TRUE
<1>1. \A i \in 1 .. Len(alerts) : alerts[i] \in Mock!Alerts /\ alerts[i].resolved \in BOOLEAN
  <2> TAKE i \in 1 .. Len(alerts)
  <2>1. alerts[i] \in Mock!Alerts
    OBVIOUS
  <2> QED
    BY <2>1 DEF Mock!Alerts
<1>2. DOMAIN alerts = 1 .. Len(alerts)
  OBVIOUS
<1>3. /\ Mock!Range(alerts) = {alerts[i] : i \in 1 .. Len(alerts)}
      /\ Mock!ActiveAlerts(alerts) = {a \in Mock!Range(alerts) : a.resolved = FALSE}
  BY <1>1, <1>2 DEF Mock!Range, Mock!ActiveAlerts
<1>4. Mock!Range(alerts) \ Mock!ActiveAlerts(alerts) =
        {a \in Mock!Range(alerts) : a.resolved = TRUE}
  BY <1>1, <1>3
<1> QED
  BY <1>1, <1>3, <1>4 DEF Unresolved, Resolved, Ids

-----------------------------------------------------------------------------
(* The route's newest alerts.                                              *)

Below == {ss \in Nat \X Nat : ss[1] < ss[2]}

\* A set of natural numbers has a least element.
LEMMA Least ==
  ASSUME NEW S \in SUBSET Nat, S # {}
  PROVE  \E n \in S : \A m \in S : n <= m
<1>1. IsWellFoundedOn(Below, Nat)
  BY NatLessThanWellFounded DEF OpToRel, Below
<1>2. PICK n \in S : \A m \in S : <<m, n>> \notin Below
  BY <1>1, WFMin
<1>3. \A m \in S : ~(m < n)
  BY <1>2 DEF Below
<1> QED
  BY <1>3

\* Those with fewer than cap newer ones, of a set with different times.
Newer(S, time, a) == {b \in S : time[b] > time[a]}
Newest(S, time, cap) == {a \in S : Cardinality(Newer(S, time, a)) < cap}

LEMMA NewestOf ==
  ASSUME NEW S, IsFiniteSet(S), NEW time \in [S -> Nat], NEW cap \in Nat,
         \A a, b \in S : time[a] = time[b] => a = b,
         NEW out \in S \ Newest(S, time, cap)
  PROVE  /\ Cardinality(Newest(S, time, cap)) = cap
         /\ \A b \in Newest(S, time, cap) : time[b] > time[out]
<1> DEFINE shown == Newest(S, time, cap)
           newer(a) == Newer(S, time, a)
           left == S \ shown
<1>1. /\ shown \subseteq S /\ IsFiniteSet(shown) /\ Cardinality(shown) \in Nat
      /\ \A a \in S : a \in shown <=> Cardinality(newer(a)) < cap
  BY FS_Subset, FS_CardinalityType DEF Newest
<1>2. ASSUME NEW a \in S
      PROVE  /\ newer(a) \subseteq S /\ a \notin newer(a)
             /\ IsFiniteSet(newer(a)) /\ Cardinality(newer(a)) \in Nat
  BY FS_Subset, FS_CardinalityType DEF Newer
<1>3. ASSUME NEW a \in S, NEW b \in S, time[b] <= time[a]
      PROVE  Cardinality(newer(a)) <= Cardinality(newer(b))
  <2>1. newer(a) \subseteq newer(b)
    BY <1>3 DEF Newer
  <2> HIDE DEF newer
  <2> QED
    BY <1>2, <2>1, FS_Subset
<1>4. ASSUME NEW a \in S, NEW b \in newer(a)
      PROVE  Cardinality(newer(b)) < Cardinality(newer(a))
  <2>1. b \in S /\ time[b] > time[a]
    BY DEF Newer
  <2>2. newer(b) \subseteq newer(a) \ {b}
    BY <2>1 DEF Newer
  <2> HIDE DEF newer
  <2>3. IsFiniteSet(newer(a) \ {b}) /\ Cardinality(newer(a) \ {b}) = Cardinality(newer(a)) - 1
    BY <1>2, FS_RemoveElement
  <2>4. Cardinality(newer(b)) <= Cardinality(newer(a) \ {b})
    BY <2>2, <2>3, FS_Subset
  <2> QED
    BY <1>2, <2>1, <2>3, <2>4
<1> HIDE DEF shown, newer
<1>5. \A b \in shown : time[b] > time[out]
  <2> SUFFICES ASSUME NEW b \in shown, ~(time[b] > time[out]) PROVE FALSE
    OBVIOUS
  <2>1. b \in S /\ out \in S /\ time[b] <= time[out]
    BY <1>1 DEF shown
  <2>2. Cardinality(newer(out)) <= Cardinality(newer(b))
    BY <1>3, <2>1
  <2>3. Cardinality(newer(b)) < cap /\ ~(Cardinality(newer(out)) < cap)
    BY <1>1, <2>1 DEF shown
  <2> QED
    BY <1>2, <2>1, <2>2, <2>3
<1>6. Cardinality(shown) >= cap
  <2> DEFINE counts == {Cardinality(newer(a)) : a \in left}
  <2>1. out \in left /\ left \subseteq S
    BY DEF shown
  <2>2. counts \subseteq Nat /\ counts # {}
    BY <1>2, <2>1
  <2>3. PICK n \in counts : \A m \in counts : n <= m
    BY <2>2, Least
  <2>4. PICK a \in left : n = Cardinality(newer(a))
    BY <2>3
  <2>5. \A b \in newer(a) : b \in shown
    <3> SUFFICES ASSUME NEW b \in newer(a), b \notin shown PROVE FALSE
      OBVIOUS
    <3>1. b \in left /\ a \in S
      BY <1>2, <2>1, <2>4
    <3>2. Cardinality(newer(a)) <= Cardinality(newer(b))
      BY <2>3, <2>4, <3>1
    <3>3. Cardinality(newer(b)) < Cardinality(newer(a))
      BY <1>4, <3>1
    <3> QED
      BY <1>2, <2>1, <3>1, <3>2, <3>3
  <2>6. Cardinality(newer(a)) <= Cardinality(shown)
    BY <1>1, <2>5, FS_Subset
  <2>7. a \in S /\ ~(Cardinality(newer(a)) < cap)
    BY <1>1, <2>1
  <2> QED
    BY <1>1, <1>2, <2>6, <2>7
<1>7. Cardinality(shown) <= cap
  <2>1. CASE shown = {}
    BY <2>1, FS_EmptySet
  <2>2. CASE shown # {}
    <3> DEFINE times == {time[a] : a \in shown}
    <3>1. times \subseteq Nat /\ times # {}
      BY <1>1, <2>2
    <3>2. PICK n \in times : \A k \in times : n <= k
      BY <3>1, Least
    <3>3. PICK m \in shown : n = time[m]
      BY <3>2
    <3>4. m \in S /\ \A a \in shown : time[m] <= time[a]
      BY <1>1, <3>2, <3>3
    <3>5. \A a \in shown \ {m} : a \in S /\ time[a] > time[m]
      BY <1>1, <3>4
    <3>6. shown \ {m} \subseteq newer(m)
      BY <3>5 DEF newer, Newer
    <3>7. Cardinality(shown \ {m}) <= Cardinality(newer(m))
      BY <1>2, <3>4, <3>6, FS_Subset
    <3>8. Cardinality(shown \ {m}) = Cardinality(shown) - 1
      BY <1>1, FS_RemoveElement
    <3>9. Cardinality(newer(m)) < cap /\ Cardinality(newer(m)) \in Nat
      BY <1>1, <1>2, <3>4
    <3> QED
      BY <1>1, <3>7, <3>8, <3>9
  <2> QED
    BY <2>1, <2>2
<1> QED
  BY <1>1, <1>5, <1>6, <1>7 DEF shown

LEMMA SameCardinality == ASSUME NEW S PROVE Mock!Cardinality(S) = Cardinality(S)
  BY DEF Mock!Cardinality, Cardinality

\* The alerts of a push and those of the route at that moment.
AlertsAgree(alerts, pushed) ==
  /\ Mock!AlertsRoute(alerts) \subseteq pushed
  /\ \A a \in pushed \ Mock!AlertsRoute(alerts) :
       /\ Mock!Cardinality(Mock!AlertsRoute(alerts)) = AlertCap
       /\ \A b \in Mock!AlertsRoute(alerts) : Mock!TriggeredAt(b) > Mock!TriggeredAt(a)

LEMMA RouteIsNewest ==
  ASSUME BackendsAssumption, NEW alerts \in Seq(Mock!Alerts), IdsFit(alerts)
  PROVE  AlertsAgree(alerts, Mock!ActiveAlerts(alerts))
<1> DEFINE S == Mock!ActiveAlerts(alerts)
           time == [a \in S |-> Mock!TriggeredAt(a)]
<1>1. AlertCap \in Nat /\ MaxAlerts \in Nat /\ Len(alerts) \in Nat
  BY DEF BackendsAssumption, Mock!MockAssumption
<1>2. \A a \in S : \E i \in 1 .. Len(alerts) : a = alerts[i]
  BY DEF Mock!ActiveAlerts, Mock!Range
<1>3. IsFiniteSet(S)
  <2> DEFINE image == {alerts[i] : i \in 1 .. Len(alerts)}
             place == [i \in 1 .. Len(alerts) |-> alerts[i]]
  <2>1. IsFiniteSet(1 .. Len(alerts))
    BY <1>1, FS_Interval
  <2>2. IsFiniteSet(image)
    <3>1. place \in Surjection(1 .. Len(alerts), image)
      BY DEF Surjection
    <3> HIDE DEF place
    <3> QED
      BY <2>1, <3>1, FS_Surjection
  <2>3. S \subseteq image
    BY <1>2
  <2> QED
    BY <2>2, <2>3, FS_Subset
<1>4. /\ \A a \in S : a.id \in Nat \ {0}
      /\ \A a, b \in S : a.id = b.id => a = b
  BY <1>1, <1>2 DEF IdsFit
<1> HIDE DEF S
<1>5. ASSUME NEW a \in S
      PROVE  Mock!TriggeredAt(a) = IF a.id = 1 THEN 2 ELSE IF a.id = 2 THEN 3
                                   ELSE IF a.id = 3 THEN 1 ELSE a.id
  BY <1>4 DEF Mock!TriggeredAt
<1>6. /\ time \in [S -> Nat]
      /\ \A a, b \in S : time[a] = time[b] => a = b
  BY <1>4, <1>5
<1>7. Mock!AlertsRoute(alerts) = Newest(S, time, AlertCap)
  <2>1. \A a \in S : Newer(S, time, a) = {b \in S : Mock!TriggeredAt(b) > Mock!TriggeredAt(a)}
    BY DEF Newer
  <2> HIDE DEF time
  <2>2. \A a \in S : Cardinality(Newer(S, time, a)) =
          Mock!Cardinality({b \in S : Mock!TriggeredAt(b) > Mock!TriggeredAt(a)})
    BY <2>1, SameCardinality
  <2> QED
    BY <2>2 DEF Mock!AlertsRoute, Newest, S
<1> HIDE DEF time
<1>8. ASSUME NEW a \in S \ Mock!AlertsRoute(alerts)
      PROVE  /\ Mock!Cardinality(Mock!AlertsRoute(alerts)) = AlertCap
             /\ \A b \in Mock!AlertsRoute(alerts) : time[b] > time[a]
  BY <1>1, <1>3, <1>6, <1>7, NewestOf, SameCardinality
<1>9. Mock!AlertsRoute(alerts) \subseteq S
  BY <1>7 DEF Newest
<1> QED
  BY <1>8, <1>9 DEF AlertsAgree, S, time

-----------------------------------------------------------------------------
(* The mock's first state.                                                 *)

LEMMA MockInit ==
  ASSUME BackendsAssumption, Mock!Init
  PROVE  MockInv /\ Board!Init
<1>1. /\ Seeds \in Nat /\ MetricCap \in Nat /\ RunCap \in Nat
      /\ MaxAlerts \in Nat /\ MaxIntervals \in Nat /\ 3 <= MaxAlerts
      /\ SERVICES \in Seq(Mock!Range(SERVICES)) /\ Len(SERVICES) \in Nat
      /\ Seeds * Len(SERVICES) <= MetricCap /\ Seeds <= RunCap
  BY DEF BackendsAssumption, Mock!MockAssumption
<1>2. METRICS \in Seq(Mock!Metrics) /\ Len(METRICS) <= MetricCap
  <2> DEFINE n == Seeds * Len(SERVICES)
  <2>1. n \in Nat
    BY <1>1
  <2>2. ASSUME NEW i \in 1 .. n
        PROVE  SERVICES[((i - 1) % Len(SERVICES)) + 1] \in Mock!Range(SERVICES)
    <3>1. Len(SERVICES) # 0
      BY <1>1, <2>2
    <3>2. i - 1 \in Int /\ (i - 1) % Len(SERVICES) \in 0 .. Len(SERVICES) - 1
      BY <1>1, <2>1, <3>1
    <3>3. ((i - 1) % Len(SERVICES)) + 1 \in 1 .. Len(SERVICES)
      BY <1>1, <3>2
    <3> QED
      BY <1>1, <3>3 DEF Mock!Range
  <2>3. METRICS = [i \in 1 .. n |-> Mock!Metric(SERVICES[((i - 1) % Len(SERVICES)) + 1], 0)]
    BY DEF Mock!Init, Mock!SeedMetrics
  <2>4. \A i \in 1 .. n : Mock!Metric(SERVICES[((i - 1) % Len(SERVICES)) + 1], 0) \in Mock!Metrics
    <3>1. 0 \in 0 .. MaxIntervals
      BY <1>1
    <3>2. \A s \in Mock!Range(SERVICES) : Mock!Metric(s, 0) \in Mock!Metrics
      BY <3>1 DEF Mock!Metrics
    <3> QED
      BY <2>2, <3>2
  <2> HIDE DEF n
  <2>5. METRICS \in Seq(Mock!Metrics) /\ Len(METRICS) = n
    BY <2>1, <2>3, <2>4
  <2> QED
    BY <1>1, <2>5 DEF n
<1>3. ALERTS = [i \in 1 .. 3 |-> [id |-> i, resolved |-> i = 3]]
  BY DEF Mock!Init, Mock!SeedAlerts
<1>4. \A i \in 1 .. 3 : [id |-> i, resolved |-> i = 3] \in Mock!Alerts
  BY <1>1 DEF Mock!Alerts
<1>5. /\ ALERTS \in Seq(Mock!Alerts) /\ Len(ALERTS) = 3
      /\ \A i \in 1 .. 3 : ALERTS[i].id = i
  BY <1>3, <1>4
<1>6. COLLECTOR_RUNS \in Seq(Mock!Runs) /\ Len(COLLECTOR_RUNS) <= RunCap
  BY <1>1 DEF Mock!Init, Mock!SeedRuns, Mock!Runs
<1>7. /\ intervals \in 0 .. MaxIntervals
      /\ emitted = [metric |-> {}, collector_run |-> NULL, active_alerts |-> NULL]
  BY <1>1 DEF Mock!Init
<1>8. Mock!TypeOK
  BY <1>2, <1>5, <1>6, <1>7 DEF Mock!TypeOK
<1>9. IdsFit(ALERTS)
  BY <1>1, <1>5 DEF IdsFit
<1>10. RoutesAgreeWithPushes
  BY <1>7 DEF RoutesAgreeWithPushes, Mock!RoutesAgreeWithPushes
<1>11. Board!Init
  <2>1. /\ Unresolved(ALERTS) \subseteq 1 .. MaxAlerts
        /\ Resolved(ALERTS) \subseteq (1 .. MaxAlerts) \ Unresolved(ALERTS)
    <3>1. \A x : /\ x \in Unresolved(ALERTS) <=>
                      \E i \in 1 .. Len(ALERTS) : ALERTS[i].id = x /\ ALERTS[i].resolved = FALSE
                 /\ x \in Resolved(ALERTS) <=>
                      \E i \in 1 .. Len(ALERTS) : ALERTS[i].id = x /\ ALERTS[i].resolved = TRUE
      BY <1>5, AlertsById
    <3>2. \A x : ~(x \in Unresolved(ALERTS) /\ x \in Resolved(ALERTS))
      BY <1>5, <3>1
    <3>3. \A x \in Unresolved(ALERTS) \cup Resolved(ALERTS) : x \in 1 .. 3
      BY <1>5, <3>1
    <3> QED
      BY <1>1, <3>2, <3>3
  <2> QED
    BY <1>7, <2>1 DEF Board!Init, Unresolved, Resolved
<1> QED
  BY <1>8, <1>9, <1>10, <1>11 DEF MockInv

LEMMA UnshiftedStarts ==
  ASSUME NEW S, NEW list \in Seq(S), NEW item \in S, NEW cap \in Nat, 1 <= cap, Len(list) <= cap
  PROVE  LET new == Mock!Unshifted(item, list, cap) IN
         /\ new \in Seq(S) /\ Len(new) <= cap
         /\ SubSeq(new, 1, 1) = <<item>>
<1> DEFINE all == <<item>> \o list
           last == IF Len(list) < cap THEN Len(list) + 1 ELSE cap
           new == SubSeq(all, 1, last)
<1>1. /\ all \in Seq(S) /\ Len(all) = Len(list) + 1 /\ all[1] = item
      /\ last \in 1 .. Len(all) /\ last <= cap
  OBVIOUS
<1> HIDE DEF all, last
<1>2. new \in Seq(S) /\ Len(new) = last /\ new[1] = item
  BY <1>1
<1> HIDE DEF new
<1>3. SubSeq(new, 1, 1) = <<item>>
  <2> DEFINE t == SubSeq(new, 1, 1)
             u == <<item>>
  <2>1. 1 \in 1 .. Len(new) /\ Len(new) \in Nat
    BY <1>1, <1>2
  <2>2. t \in Seq(S) /\ Len(t) = 1 /\ t[1] = item
    BY <1>2, <2>1
  <2>3. u \in Seq(S) /\ Len(u) = 1 /\ u[1] = item
    OBVIOUS
  <2> HIDE DEF t, u
  <2>4. \A i \in 1 .. Len(t) : t[i] = u[i]
    BY <2>2, <2>3
  <2>5. t = u
    BY <2>2, <2>3, <2>4, SeqEqual
  <2> QED
    BY <2>5 DEF t, u
<1> QED
  BY <1>1, <1>2, <1>3 DEF Mock!Unshifted, new, all, last

\* A new alert in front.
LEMMA AlertRaised ==
  ASSUME NEW alerts \in Seq(Mock!Alerts), NEW new \in Mock!Alerts, IdsFit(alerts),
         MaxAlerts \in Nat, Len(alerts) < MaxAlerts,
         new.id = Len(alerts) + 1, new.resolved = FALSE
  PROVE  LET all == <<new>> \o alerts IN
         /\ all \in Seq(Mock!Alerts) /\ IdsFit(all)
         /\ new.id \in 1 .. MaxAlerts
         /\ new.id \notin Unresolved(alerts) \cup Resolved(alerts)
         /\ Unresolved(all) = Unresolved(alerts) \cup {new.id}
         /\ Resolved(all) = Resolved(alerts)
<1> DEFINE n == Len(alerts)
           all == <<new>> \o alerts
<1>1. /\ n \in Nat /\ n + 1 \in 1 .. MaxAlerts /\ 1 \in 1 .. n + 1
      /\ \A i \in 1 .. n : alerts[i].id \in 1 .. n /\ i + 1 \in 1 .. n + 1
      /\ \A i, j \in 1 .. n : alerts[i].id = alerts[j].id => i = j
  BY DEF IdsFit
<1>2. /\ all \in Seq(Mock!Alerts) /\ Len(all) = n + 1
      /\ all[1] = new /\ \A i \in 1 .. n : all[i + 1] = alerts[i]
  OBVIOUS
<1> HIDE DEF n, all
<1>3. \A i \in 1 .. n + 1 : i # 1 => i - 1 \in 1 .. n /\ all[i] = alerts[i - 1]
  <2> SUFFICES ASSUME NEW i \in 1 .. n + 1, i # 1
               PROVE  i - 1 \in 1 .. n /\ all[i] = alerts[i - 1]
    OBVIOUS
  <2>1. i - 1 \in 1 .. n /\ (i - 1) + 1 = i
    BY <1>1
  <2> QED
    BY <1>2, <2>1
<1>4. IdsFit(all)
  <2>1. \A i \in 1 .. n + 1 : all[i].id \in 1 .. n + 1 /\ (i # 1 => all[i].id # n + 1)
    <3> TAKE i \in 1 .. n + 1
    <3>1. CASE i = 1
      BY <1>1, <1>2, <3>1 DEF n
    <3>2. CASE i # 1
      <4>1. all[i].id \in 1 .. n
        BY <1>1, <1>3, <3>2
      <4> QED
        BY <1>1, <3>2, <4>1
    <3> QED
      BY <3>1, <3>2
  <2>2. ASSUME NEW i \in 1 .. n + 1, NEW j \in 1 .. n + 1, all[i].id = all[j].id
        PROVE  i = j
    <3>1. CASE i = 1 \/ j = 1
      BY <1>2, <2>1, <2>2, <3>1 DEF n
    <3>2. CASE i # 1 /\ j # 1
      <4>1. i - 1 = j - 1
        BY <1>1, <1>3, <2>2, <3>2
      <4> QED
        BY <1>1, <4>1
    <3> QED
      BY <3>1, <3>2
  <2> QED
    BY <1>1, <1>2, <2>1, <2>2 DEF IdsFit
<1>5. \A x : /\ x \in Unresolved(alerts) <=>
                  \E i \in 1 .. n : alerts[i].id = x /\ alerts[i].resolved = FALSE
             /\ x \in Resolved(alerts) <=>
                  \E i \in 1 .. n : alerts[i].id = x /\ alerts[i].resolved = TRUE
  BY AlertsById DEF n
<1>6. \A x : /\ x \in Unresolved(all) <=>
                  \E i \in 1 .. n + 1 : all[i].id = x /\ all[i].resolved = FALSE
             /\ x \in Resolved(all) <=>
                  \E i \in 1 .. n + 1 : all[i].id = x /\ all[i].resolved = TRUE
  <2>1. \A x : /\ x \in Unresolved(all) <=>
                    \E i \in 1 .. Len(all) : all[i].id = x /\ all[i].resolved = FALSE
               /\ x \in Resolved(all) <=>
                    \E i \in 1 .. Len(all) : all[i].id = x /\ all[i].resolved = TRUE
    BY <1>2, AlertsById
  <2>2. Len(all) = n + 1
    BY <1>2
  <2> QED
    BY <2>1, <2>2
<1>7. n + 1 \notin Unresolved(alerts) \cup Resolved(alerts)
  <2>1. \A x \in Unresolved(alerts) \cup Resolved(alerts) : x \in 1 .. n
    BY <1>1, <1>5
  <2> QED
    BY <1>1, <2>1
<1>8. Unresolved(all) = Unresolved(alerts) \cup {n + 1}
  <2>1. \A x \in Unresolved(all) : x \in Unresolved(alerts) \/ x = n + 1
    <3> TAKE x \in Unresolved(all)
    <3>1. PICK i \in 1 .. n + 1 : all[i].id = x /\ all[i].resolved = FALSE
      BY <1>6
    <3>2. CASE i = 1
      BY <1>2, <3>1, <3>2 DEF n
    <3>3. CASE i # 1
      BY <1>3, <1>5, <3>1, <3>3
    <3> QED
      BY <3>2, <3>3
  <2>2. n + 1 \in Unresolved(all)
    BY <1>1, <1>2, <1>6 DEF n
  <2>3. \A x \in Unresolved(alerts) : x \in Unresolved(all)
    BY <1>1, <1>2, <1>5, <1>6
  <2> QED
    BY <2>1, <2>2, <2>3
<1>9. Resolved(all) = Resolved(alerts)
  <2>1. \A x \in Resolved(all) : x \in Resolved(alerts)
    BY <1>2, <1>3, <1>5, <1>6
  <2>2. \A x \in Resolved(alerts) : x \in Resolved(all)
    BY <1>1, <1>2, <1>5, <1>6
  <2> QED
    BY <2>1, <2>2
<1> QED
  BY <1>1, <1>2, <1>4, <1>7, <1>8, <1>9 DEF n, all

\* An alert is marked where it stands.
LEMMA AlertMarked ==
  ASSUME NEW alerts \in Seq(Mock!Alerts), IdsFit(alerts),
         NEW m \in 1 .. Len(alerts), alerts[m].resolved = FALSE
  PROVE  LET all == [alerts EXCEPT ![m].resolved = TRUE] IN
         /\ all \in Seq(Mock!Alerts) /\ IdsFit(all)
         /\ alerts[m].id \in Unresolved(alerts)
         /\ Unresolved(all) = Unresolved(alerts) \ {alerts[m].id}
         /\ Resolved(all) = Resolved(alerts) \cup {alerts[m].id}
<1> DEFINE n == Len(alerts)
           marked == [alerts[m] EXCEPT !.resolved = TRUE]
           all == [alerts EXCEPT ![m] = marked]
<1>1. alerts[m] \in Mock!Alerts
  OBVIOUS
<1>2. marked \in Mock!Alerts /\ marked.id = alerts[m].id /\ marked.resolved = TRUE
  BY <1>1 DEF Mock!Alerts
<1>3. all = [alerts EXCEPT ![m].resolved = TRUE]
  OBVIOUS
<1> HIDE DEF marked
<1>4. /\ all \in Seq(Mock!Alerts) /\ Len(all) = n
      /\ all[m] = marked /\ \A i \in 1 .. n : i # m => all[i] = alerts[i]
  BY <1>2
<1> HIDE DEF all
<1>5. \A i \in 1 .. n : all[i].id = alerts[i].id
  BY <1>2, <1>4
<1>6. IdsFit(all)
  BY <1>4, <1>5 DEF IdsFit
<1>7. \A x : /\ x \in Unresolved(alerts) <=>
                  \E i \in 1 .. n : alerts[i].id = x /\ alerts[i].resolved = FALSE
             /\ x \in Resolved(alerts) <=>
                  \E i \in 1 .. n : alerts[i].id = x /\ alerts[i].resolved = TRUE
  BY AlertsById
<1>8. \A x : /\ x \in Unresolved(all) <=>
                  \E i \in 1 .. n : all[i].id = x /\ all[i].resolved = FALSE
             /\ x \in Resolved(all) <=>
                  \E i \in 1 .. n : all[i].id = x /\ all[i].resolved = TRUE
  <2>1. \A x : /\ x \in Unresolved(all) <=>
                    \E i \in 1 .. Len(all) : all[i].id = x /\ all[i].resolved = FALSE
               /\ x \in Resolved(all) <=>
                    \E i \in 1 .. Len(all) : all[i].id = x /\ all[i].resolved = TRUE
    BY <1>4, AlertsById
  <2>2. Len(all) = n
    BY <1>4
  <2> QED
    BY <2>1, <2>2
<1>9. m \in 1 .. n /\ \A i \in 1 .. n : alerts[i].id = alerts[m].id => i = m
  BY DEF IdsFit
<1> HIDE DEF n
<1>10. Unresolved(all) = Unresolved(alerts) \ {alerts[m].id}
  <2>1. \A x \in Unresolved(all) : x \in Unresolved(alerts) /\ x # alerts[m].id
    BY <1>2, <1>4, <1>5, <1>7, <1>8, <1>9
  <2>2. \A x \in Unresolved(alerts) : x # alerts[m].id => x \in Unresolved(all)
    BY <1>4, <1>7, <1>8
  <2> QED
    BY <2>1, <2>2
<1>11. Resolved(all) = Resolved(alerts) \cup {alerts[m].id}
  <2>1. \A x \in Resolved(all) : x \in Resolved(alerts) \/ x = alerts[m].id
    BY <1>2, <1>4, <1>7, <1>8
  <2>2. \A x \in Resolved(alerts) : x \in Resolved(all)
    BY <1>2, <1>4, <1>5, <1>7, <1>8
  <2>3. alerts[m].id \in Resolved(all)
    BY <1>2, <1>4, <1>8, <1>9
  <2> QED
    BY <2>1, <2>2, <2>3
<1>12. alerts[m].id \in Unresolved(alerts)
  BY <1>7, <1>9
<1> QED
  BY <1>3, <1>4, <1>6, <1>10, <1>11, <1>12

-----------------------------------------------------------------------------
(* The mock's steps.                                                       *)

LEMMA IntervalStep ==
  ASSUME BackendsAssumption, MockInv, Mock!Interval
  PROVE  MockInv' /\ [Board!Next]_(Board!vars)
<1> DEFINE n == intervals + 1
           run == [seed |-> 0, nr |-> n]
           new == [id |-> Len(ALERTS) + 1, resolved |-> FALSE]
<1>1. /\ Seeds \in Nat /\ RunCap \in Nat /\ 1 <= RunCap
      /\ MaxAlerts \in Nat /\ MaxIntervals \in Nat
      /\ \A alerts \in SUBSET Mock!Alerts : alerts # NULL
  BY DEF BackendsAssumption, Mock!MockAssumption
<1>2. /\ METRICS \in Seq(Mock!Metrics) /\ ALERTS \in Seq(Mock!Alerts)
      /\ COLLECTOR_RUNS \in Seq(Mock!Runs) /\ Len(COLLECTOR_RUNS) <= RunCap
      /\ IdsFit(ALERTS) /\ intervals \in 0 .. MaxIntervals
      /\ emitted.active_alerts \in {NULL} \cup SUBSET Mock!Alerts
  BY DEF MockInv, Mock!TypeOK
<1>3. /\ n \in 0 .. MaxIntervals /\ intervals' = n
      /\ METRICS' = Mock!Grown(METRICS, n)
      /\ COLLECTOR_RUNS' = Mock!Unshifted(run, COLLECTOR_RUNS, RunCap)
      /\ emitted' = [metric        |-> {Mock!Metric(s, n) : s \in Mock!Range(SERVICES)},
                     collector_run |-> run,
                     active_alerts |-> Mock!ActiveAlerts(ALERTS')]
      /\ \/ UNCHANGED ALERTS
         \/ Len(ALERTS) < MaxAlerts /\ ALERTS' = <<new>> \o ALERTS
  <2>1. intervals < MaxIntervals /\ intervals' = n
    BY DEF Mock!Interval
  <2>2. n \in 0 .. MaxIntervals
    BY <1>1, <1>2, <2>1
  <2>3. METRICS' = Mock!Grown(METRICS, intervals')
    BY DEF Mock!Interval
  <2>4. \/ UNCHANGED ALERTS
        \/ Len(ALERTS) < MaxAlerts /\ ALERTS' = <<new>> \o ALERTS
    BY DEF Mock!Interval
  <2>5. COLLECTOR_RUNS' = Mock!Unshifted([seed |-> 0, nr |-> intervals'],
                                         COLLECTOR_RUNS, RunCap)
    BY DEF Mock!Interval
  <2>6. emitted' = [metric        |-> {Mock!Metric(s, intervals') : s \in Mock!Range(SERVICES)},
                    collector_run |-> [seed |-> 0, nr |-> intervals'],
                    active_alerts |-> Mock!ActiveAlerts(ALERTS')]
    BY DEF Mock!Interval
  <2> QED
    BY <2>1, <2>2, <2>3, <2>4, <2>5, <2>6
<1>4. run \in Mock!Runs
  BY <1>1, <1>3 DEF Mock!Runs
<1>5. new \in Mock!Alerts \/ ~(Len(ALERTS) < MaxAlerts)
  BY <1>1, <1>2 DEF Mock!Alerts
<1>6. new.id = Len(ALERTS) + 1 /\ new.resolved = FALSE
  OBVIOUS
<1> HIDE DEF n, run, new
<1>7. /\ METRICS' \in Seq(Mock!Metrics) /\ Len(METRICS') <= MetricCap
      /\ Mock!MetricsLatest(METRICS') = {Mock!Metric(s, n) : s \in Mock!Range(SERVICES)}
  BY <1>2, <1>3, GrownEndsWithRound, LatestIsRound
<1>8. /\ COLLECTOR_RUNS' \in Seq(Mock!Runs) /\ Len(COLLECTOR_RUNS') <= RunCap
      /\ SubSeq(COLLECTOR_RUNS', 1, 1) = <<run>>
  BY <1>1, <1>2, <1>3, <1>4, UnshiftedStarts
<1>9. ALERTS' \in Seq(Mock!Alerts) /\ IdsFit(ALERTS')
  <2>1. CASE UNCHANGED ALERTS
    BY <1>2, <2>1
  <2>2. CASE Len(ALERTS) < MaxAlerts /\ ALERTS' = <<new>> \o ALERTS
    BY <1>1, <1>2, <1>5, <1>6, <2>2, AlertRaised
  <2> QED
    BY <1>3, <2>1, <2>2
<1>10. Mock!ActiveAlerts(ALERTS') \in SUBSET Mock!Alerts
  BY <1>9, AlertsById
<1>11. {Mock!Metric(s, n) : s \in Mock!Range(SERVICES)} \subseteq Mock!Metrics
  BY <1>3 DEF Mock!Metrics
<1>12. Mock!TypeOK'
  BY <1>3, <1>4, <1>7, <1>8, <1>9, <1>10, <1>11 DEF Mock!TypeOK
<1>13. RoutesAgreeWithPushes'
  <2>1. AlertsAgree(ALERTS', Mock!ActiveAlerts(ALERTS'))
    BY <1>9, RouteIsNewest
  <2>2. AlertsAgree(ALERTS', emitted'.active_alerts)
    BY <1>3, <2>1
  <2>3. Mock!MetricsLatest(METRICS') = emitted'.metric
        /\ SubSeq(COLLECTOR_RUNS', 1, 1) = <<emitted'.collector_run>>
    BY <1>3, <1>7, <1>8
  <2> QED
    BY <2>2, <2>3
    DEF RoutesAgreeWithPushes, Mock!RoutesAgreeWithPushes, Mock!Collector, AlertsAgree
<1>14. [Board!Next]_(Board!vars)
  <2> DEFINE shown(active) == IF active = NULL THEN NULL ELSE Ids(active)
  <2>1. shown(emitted.active_alerts)' = Unresolved(ALERTS')
    BY <1>1, <1>3, <1>10 DEF Unresolved
  <2> HIDE DEF shown
  <2>2. CASE UNCHANGED ALERTS
    <3>1. Board!Refresh
      BY <2>1, <2>2 DEF Board!Refresh, Unresolved, Resolved, shown
    <3> QED
      BY <3>1 DEF Board!Next
  <2>3. CASE Len(ALERTS) < MaxAlerts /\ ALERTS' = <<new>> \o ALERTS
    <3>1. /\ new.id \in 1 .. MaxAlerts
          /\ new.id \notin Unresolved(ALERTS) \cup Resolved(ALERTS)
          /\ Unresolved(ALERTS') = Unresolved(ALERTS) \cup {new.id}
          /\ Resolved(ALERTS') = Resolved(ALERTS)
      BY <1>1, <1>2, <1>5, <1>6, <2>3, AlertRaised
    <3>2. Board!Raise(new.id)
      BY <2>1, <3>1 DEF Board!Raise, Unresolved, Resolved, shown
    <3> QED
      BY <3>1, <3>2 DEF Board!Next
  <2> QED
    BY <1>3, <2>2, <2>3
<1> QED
  BY <1>9, <1>12, <1>13, <1>14 DEF MockInv

LEMMA ResolveStep ==
  ASSUME BackendsAssumption, MockInv, NEW id \in 1 .. MaxAlerts, Mock!Resolve(id)
  PROVE  MockInv' /\ [Board!Next]_(Board!vars)
<1>1. \A alerts \in SUBSET Mock!Alerts : alerts # NULL
  BY DEF BackendsAssumption, Mock!MockAssumption
<1>2. /\ ALERTS \in Seq(Mock!Alerts) /\ IdsFit(ALERTS)
      /\ emitted \in [metric        : SUBSET Mock!Metrics,
                      collector_run : {NULL} \cup Mock!Runs,
                      active_alerts : {NULL} \cup SUBSET Mock!Alerts]
  BY DEF MockInv, Mock!TypeOK
<1>3. PICK m \in 1 .. Len(ALERTS) :
        /\ ALERTS[m].id = id /\ ~ALERTS[m].resolved
        /\ ALERTS' = [ALERTS EXCEPT ![m].resolved = TRUE]
        /\ emitted' = [emitted EXCEPT !.active_alerts = Mock!ActiveAlerts(ALERTS')]
        /\ UNCHANGED <<intervals, METRICS, COLLECTOR_RUNS>>
  <2>1. DOMAIN ALERTS = 1 .. Len(ALERTS)
    BY <1>2
  <2> QED
    BY <2>1 DEF Mock!Resolve
<1>4. ALERTS[m].resolved = FALSE
  <2>1. ALERTS[m] \in Mock!Alerts
    BY <1>2
  <2> QED
    BY <1>3, <2>1 DEF Mock!Alerts
<1>5. /\ ALERTS' \in Seq(Mock!Alerts) /\ IdsFit(ALERTS')
      /\ id \in Unresolved(ALERTS)
      /\ Unresolved(ALERTS') = Unresolved(ALERTS) \ {id}
      /\ Resolved(ALERTS') = Resolved(ALERTS) \cup {id}
  BY <1>2, <1>3, <1>4, AlertMarked
<1>6. Mock!ActiveAlerts(ALERTS') \in SUBSET Mock!Alerts
  BY <1>5, AlertsById
<1>7. /\ emitted' \in [metric        : SUBSET Mock!Metrics,
                       collector_run : {NULL} \cup Mock!Runs,
                       active_alerts : {NULL} \cup SUBSET Mock!Alerts]
      /\ emitted'.active_alerts = Mock!ActiveAlerts(ALERTS')
      /\ emitted'.metric = emitted.metric
      /\ emitted'.collector_run = emitted.collector_run
  BY <1>2, <1>3, <1>6
<1>8. Mock!TypeOK'
  BY <1>3, <1>5, <1>7 DEF MockInv, Mock!TypeOK
<1>9. RoutesAgreeWithPushes'
  <2>1. AlertsAgree(ALERTS', Mock!ActiveAlerts(ALERTS'))
    BY <1>5, RouteIsNewest
  <2>2. AlertsAgree(ALERTS', emitted'.active_alerts)
    BY <1>7, <2>1
  <2>3. emitted'.collector_run # NULL =>
          /\ Mock!MetricsLatest(METRICS') = emitted'.metric
          /\ SubSeq(COLLECTOR_RUNS', 1, 1) = <<emitted'.collector_run>>
    BY <1>3, <1>7 DEF MockInv, RoutesAgreeWithPushes, Mock!RoutesAgreeWithPushes, Mock!Collector
  <2> QED
    BY <2>2, <2>3
    DEF RoutesAgreeWithPushes, Mock!RoutesAgreeWithPushes, Mock!Collector, AlertsAgree
<1>10. Board!Resolve(id)
  <2>1. (IF emitted'.active_alerts = NULL THEN NULL ELSE Ids(emitted'.active_alerts))
          = Unresolved(ALERTS')
    BY <1>1, <1>6, <1>7 DEF Unresolved
  <2> QED
    BY <1>5, <2>1 DEF Board!Resolve, Unresolved, Resolved
<1> QED
  BY <1>5, <1>8, <1>9, <1>10 DEF MockInv, Board!Next

\* What the mock does, resolving and growing, keeps its lists and its promise.
LEMMA MockStep ==
  ASSUME BackendsAssumption, MockInv, [Mock!Next]_(Mock!vars)
  PROVE  MockInv' /\ [Board!Next]_(Board!vars)
<1>1. CASE Mock!Interval
  BY <1>1, IntervalStep
<1>2. CASE \E id \in 1 .. MaxAlerts : Mock!Resolve(id)
  BY <1>2, ResolveStep
<1>3. CASE UNCHANGED Mock!vars
  BY <1>3 DEF Mock!vars, MockInv, Mock!TypeOK, IdsFit, RoutesAgreeWithPushes,
              Mock!RoutesAgreeWithPushes, Mock!Collector, Mock!AlertsRoute, Board!vars
<1> QED
  BY <1>1, <1>2, <1>3 DEF Mock!Next

-----------------------------------------------------------------------------
(* The requests to the nodes of the database.                              *)

LEMMA PatroniInit ==
  ASSUME BackendsAssumption, Patroni!Init
  PROVE  Patroni!TypeOK
  BY DEF BackendsAssumption, Patroni!DbNodesAssumption, Patroni!Init, Patroni!TypeOK

LEMMA PatroniStep ==
  ASSUME BackendsAssumption, Patroni!TypeOK, [Patroni!Next]_(Patroni!vars)
  PROVE  Patroni!TypeOK'
<1> USE DEF Patroni!TypeOK
<1>1. MaxCuts \in Nat
  BY DEF BackendsAssumption, Patroni!DbNodesAssumption
<1>2. CASE Patroni!Request
  BY <1>2 DEF Patroni!Request
<1>3. CASE Patroni!Answer
  BY <1>3 DEF Patroni!Answer
<1>4. ASSUME NEW n \in Nodes,
             \/ Patroni!Response(n) \/ Patroni!End(n)
             \/ Patroni!RequestError(n) \/ Patroni!Timeout(n)
      PROVE  Patroni!TypeOK'
  BY <1>4 DEF Patroni!Response, Patroni!End, Patroni!RequestError, Patroni!Timeout, Patroni!Goes
<1>5. ASSUME NEW n \in Nodes, Patroni!Cut(n)
      PROVE  Patroni!TypeOK'
  BY <1>1, <1>5 DEF Patroni!Cut, Patroni!Goes
<1>6. CASE UNCHANGED Patroni!vars
  BY <1>6 DEF Patroni!vars
<1> QED
  BY <1>2, <1>3, <1>4, <1>5, <1>6 DEF Patroni!Next

-----------------------------------------------------------------------------
(* The sessions: overlapping logins and what they leave behind.            *)

\* What a request carries on to its next statement.
Fits(request) ==
  request # NULL =>
    /\ request \in Api!Request
    /\ request.op \in {"compare", "update", "role"} => request.role \in Roles
    /\ request.op = "update" => request.exp # NULL /\ request.exp <= now + Lifetime

\* No token lasts longer than one signed right now would.
TokensFit == \A t \in tokens : t.exp <= now + Lifetime

ApiInv ==
  /\ Api!TypeOK
  /\ \A r \in Requests : Fits(requests[r])
  /\ TokensFit
  /\ Api!SessionCoversTokens

-----------------------------------------------------------------------------
LEMMA ApiInit == ASSUME Api!AccountsAssumption PROVE Api!Init => ApiInv
<1> SUFFICES ASSUME Api!Init PROVE ApiInv
  OBVIOUS
<1>1. Api!TypeOK
  BY DEF Api!Init, Api!TypeOK, Api!AccountsAssumption, Api!Time
<1> QED
  BY <1>1 DEF Api!Init, ApiInv, Fits, TokensFit, Api!SessionCoversTokens

\* One request moves on and the users keep their rows.
LEMMA RequestMoves ==
  ASSUME Api!AccountsAssumption, ApiInv, NEW r \in Requests, NEW next,
         Fits(next),
         requests' = [requests EXCEPT ![r] = next],
         UNCHANGED <<now, users, tokens>>,
         faults' \in [fails : 0 .. MaxFails, lost : 0 .. MaxLost, logins : 0 .. MaxLogins]
  PROVE  ApiInv'
<1>1. \A p \in Requests : requests'[p] = IF p = r THEN next ELSE requests[p]
  BY DEF ApiInv, Api!TypeOK
<1>2. requests' \in [Requests -> Api!Request \cup {NULL}]
  BY DEF ApiInv, Api!TypeOK, Fits
<1>3. \A p \in Requests : Fits(requests'[p])
  BY <1>1 DEF ApiInv
<1>4. \A p \in Requests : Fits(requests[p])'
  BY <1>3 DEF Fits, Api!Request, Api!Time
<1> QED
  BY <1>2, <1>4 DEF ApiInv, Api!TypeOK, TokensFit, Api!SessionCoversTokens, Api!Time

\* One request ends, and what it has written keeps the sessions in order.
LEMMA RequestEnds ==
  ASSUME Api!AccountsAssumption, ApiInv, NEW r \in Requests, Api!End(r),
         now' = now,
         users' \in [Users -> [role : Roles, session_expires_at : Api!Time \cup {NULL}]],
         tokens' \subseteq Api!Token,
         faults' \in [fails : 0 .. MaxFails, lost : 0 .. MaxLost, logins : 0 .. MaxLogins],
         TokensFit', Api!SessionCoversTokens'
  PROVE  ApiInv'
<1>1. \A p \in Requests : requests'[p] = IF p = r THEN NULL ELSE requests[p]
  BY DEF ApiInv, Api!TypeOK, Api!End
<1>2. requests' \in [Requests -> Api!Request \cup {NULL}]
  BY DEF ApiInv, Api!TypeOK, Api!End
<1>3. \A p \in Requests : Fits(requests[p])'
  BY <1>1 DEF ApiInv, Fits, Api!Request, Api!Time
<1> QED
  BY <1>2, <1>3 DEF ApiInv, Api!TypeOK, Api!Time

\* A statement that fails may have been executed.
LEMMA ServerErrorStep ==
  ASSUME Api!AccountsAssumption, ApiInv, NEW r \in Requests, NEW written,
         Api!ServerError(r, written), now' = now,
         written \in [Users -> [role : Roles, session_expires_at : Api!Time \cup {NULL}]],
         \A t \in tokens :
           written[t.user].session_expires_at # NULL =>
             t.exp <= written[t.user].session_expires_at
  PROVE  ApiInv'
<1>1. /\ users' = users \/ users' = written
      /\ tokens' = tokens
      /\ Api!End(r)
  BY DEF Api!ServerError
<1>2. faults' \in [fails : 0 .. MaxFails, lost : 0 .. MaxLost, logins : 0 .. MaxLogins]
  BY DEF Api!ServerError, ApiInv, Api!TypeOK, Api!AccountsAssumption
<1>3. users' \in [Users -> [role : Roles, session_expires_at : Api!Time \cup {NULL}]]
  BY <1>1 DEF ApiInv, Api!TypeOK
<1>4. TokensFit' /\ Api!SessionCoversTokens'
  BY <1>1 DEF ApiInv, TokensFit, Api!SessionCoversTokens
<1> QED
  BY <1>1, <1>2, <1>3, <1>4, RequestEnds DEF ApiInv, Api!TypeOK

LEMMA SelectUserStep ==
  ASSUME Api!AccountsAssumption, ApiInv, NEW r \in Requests, Api!SelectUser(r)
  PROVE  ApiInv'
<1>1. requests[r] \in Api!Request /\ now' = now
  BY DEF Api!SelectUser, ApiInv, Fits
<1>2. CASE Api!Continue(r, "compare", users[requests[r].user].role, NULL)
           /\ UNCHANGED <<users, tokens, faults>>
  <2> DEFINE next == [requests[r] EXCEPT !.op = "compare",
                        !.role = users[requests[r].user].role, !.exp = NULL]
  <2>1. users[requests[r].user].role \in Roles
    BY <1>1 DEF ApiInv, Api!TypeOK, Api!Request
  <2>2. Fits(next)
    BY <1>1, <2>1 DEF Fits, Api!Request
  <2>3. requests' = [requests EXCEPT ![r] = next]
    BY <1>2 DEF Api!Continue, ApiInv, Api!TypeOK
  <2> HIDE DEF next
  <2> QED
    BY <1>1, <1>2, <2>2, <2>3, RequestMoves DEF ApiInv, Api!TypeOK
<1>3. CASE Api!ServerError(r, users)
  BY <1>1, <1>3, ServerErrorStep DEF ApiInv, Api!TypeOK, Api!SessionCoversTokens
<1> QED
  BY <1>2, <1>3 DEF Api!SelectUser

LEMMA CompareStep ==
  ASSUME Api!AccountsAssumption, ApiInv, NEW r \in Requests, Api!Compare(r)
  PROVE  ApiInv'
<1>1. /\ requests[r] \in Api!Request /\ requests[r].role \in Roles
      /\ UNCHANGED <<now, users, tokens, faults>>
  BY DEF Api!Compare, ApiInv, Fits
<1>2. CASE Api!Continue(r, "update", requests[r].role, now + Lifetime)
  <2> DEFINE next == [requests[r] EXCEPT !.op = "update",
                        !.role = requests[r].role, !.exp = now + Lifetime]
  <2>1. /\ now + Lifetime \in Api!Time /\ now + Lifetime # NULL
        /\ now + Lifetime <= now + Lifetime
    BY DEF ApiInv, Api!TypeOK, Api!Time, Api!AccountsAssumption
  <2>2. Fits(next)
    BY <1>1, <2>1 DEF Fits, Api!Request
  <2>3. requests' = [requests EXCEPT ![r] = next]
    BY <1>2 DEF Api!Continue, ApiInv, Api!TypeOK
  <2> HIDE DEF next
  <2> QED
    BY <1>1, <2>2, <2>3, RequestMoves DEF ApiInv, Api!TypeOK
<1>3. CASE Api!End(r)
  BY <1>1, <1>3, RequestEnds DEF ApiInv, Api!TypeOK, TokensFit, Api!SessionCoversTokens
<1> QED
  BY <1>2, <1>3 DEF Api!Compare

\* The UPDATE of a login: by then the row gets a later moment than any token.
LEMMA SaveSessionStep ==
  ASSUME Api!AccountsAssumption, ApiInv, NEW r \in Requests, Api!SaveSession(r)
  PROVE  ApiInv'
<1> DEFINE u == requests[r].user
           written == [users EXCEPT ![u].session_expires_at = now + Lifetime]
<1>1. /\ requests[r] \in Api!Request /\ requests[r].role \in Roles
      /\ requests[r].exp \in Api!Time /\ requests[r].exp <= now + Lifetime
      /\ u \in Users /\ now' = now
  BY DEF Api!SaveSession, ApiInv, Fits, Api!Request
<1>2. now + Lifetime \in Api!Time /\ now + Lifetime # NULL
  BY DEF ApiInv, Api!TypeOK, Api!Time, Api!AccountsAssumption
<1>3. /\ written \in [Users -> [role : Roles, session_expires_at : Api!Time \cup {NULL}]]
      /\ \A v \in Users : written[v].session_expires_at =
           IF v = u THEN now + Lifetime ELSE users[v].session_expires_at
  BY <1>1, <1>2 DEF ApiInv, Api!TypeOK
<1>4. Api!Signed(r) \in Api!Token /\ Api!Signed(r).user = u /\ Api!Signed(r).exp <= now + Lifetime
  BY <1>1 DEF Api!Signed, Api!Token
<1> HIDE DEF written
<1>5. \A t \in tokens \cup {Api!Signed(r)} :
        written[t.user].session_expires_at # NULL =>
          t.exp <= written[t.user].session_expires_at
  BY <1>1, <1>3, <1>4 DEF ApiInv, Api!TypeOK, TokensFit, Api!SessionCoversTokens, Api!Token
<1>6. CASE /\ users' = written /\ tokens' = tokens \cup {Api!Signed(r)}
           /\ Api!End(r) /\ UNCHANGED faults
  <2>1. TokensFit'
    BY <1>1, <1>4, <1>6 DEF ApiInv, TokensFit
  <2>2. Api!SessionCoversTokens'
    BY <1>5, <1>6 DEF Api!SessionCoversTokens
  <2> QED
    BY <1>1, <1>3, <1>4, <1>6, <2>1, <2>2, RequestEnds DEF ApiInv, Api!TypeOK
<1>7. CASE Api!ServerError(r, written)
  BY <1>1, <1>3, <1>5, <1>7, ServerErrorStep
<1> QED
  BY <1>6, <1>7 DEF Api!SaveSession, written

LEMMA UpdateStep ==
  ASSUME Api!AccountsAssumption, ApiInv, NEW r \in Requests, Api!Update(r)
  PROVE  ApiInv'
<1> DEFINE u == requests[r].user
           written == IF requests[r].op = "logout"
                        THEN [users EXCEPT ![u].session_expires_at = NULL]
                        ELSE [users EXCEPT ![u].role = requests[r].role]
<1>1. /\ requests[r] \in Api!Request /\ u \in Users /\ now' = now
      /\ requests[r].op = "logout" \/ requests[r].role \in Roles
  BY DEF Api!Update, ApiInv, Fits, Api!Request
<1>2. /\ written \in [Users -> [role : Roles, session_expires_at : Api!Time \cup {NULL}]]
      /\ \A v \in Users : written[v].session_expires_at
                            \in {NULL, users[v].session_expires_at}
  BY <1>1 DEF ApiInv, Api!TypeOK
<1> HIDE DEF written
<1>3. \A t \in tokens :
        written[t.user].session_expires_at # NULL =>
          t.exp <= written[t.user].session_expires_at
  BY <1>2 DEF ApiInv, Api!TypeOK, Api!SessionCoversTokens, Api!Token
<1>4. CASE users' = written /\ Api!End(r) /\ UNCHANGED <<tokens, faults>>
  <2>1. TokensFit'
    BY <1>1, <1>4 DEF ApiInv, TokensFit
  <2>2. Api!SessionCoversTokens'
    BY <1>3, <1>4 DEF Api!SessionCoversTokens
  <2> QED
    BY <1>1, <1>2, <1>4, <2>1, <2>2, RequestEnds DEF ApiInv, Api!TypeOK
<1>5. CASE Api!ServerError(r, written)
  BY <1>1, <1>2, <1>3, <1>5, ServerErrorStep
<1> QED
  BY <1>4, <1>5 DEF Api!Update, written

\* A request arrives.
LEMMA BeginStep ==
  ASSUME Api!AccountsAssumption, ApiInv, NEW r \in Requests, NEW request, Api!Begin(r, request),
         Fits(request),
         faults' \in [fails : 0 .. MaxFails, lost : 0 .. MaxLost, logins : 0 .. MaxLogins]
  PROVE  ApiInv'
  BY RequestMoves DEF Api!Begin

LEMMA LoginStep ==
  ASSUME Api!AccountsAssumption, ApiInv, NEW r \in Requests, NEW u \in Users, Api!Login(r, u)
  PROVE  ApiInv'
<1> DEFINE request == [op |-> "select", user |-> u, role |-> NULL, exp |-> NULL]
<1>1. Fits(request)
  BY DEF Fits, Api!Request
<1>2. faults' \in [fails : 0 .. MaxFails, lost : 0 .. MaxLost, logins : 0 .. MaxLogins]
  BY DEF Api!Login, ApiInv, Api!TypeOK, Api!AccountsAssumption
<1>3. Api!Begin(r, request)
  BY DEF Api!Login
<1> HIDE DEF request
<1> QED
  BY <1>1, <1>2, <1>3, BeginStep

LEMMA LogoutStep ==
  ASSUME Api!AccountsAssumption, ApiInv, NEW r \in Requests, NEW t \in tokens, Api!Logout(r, t)
  PROVE  ApiInv'
<1> DEFINE request == [op |-> "logout", user |-> t.user, role |-> NULL, exp |-> NULL]
<1>1. Fits(request)
  BY DEF Fits, Api!Request, ApiInv, Api!TypeOK, Api!Token
<1>2. Api!Begin(r, request) /\ UNCHANGED faults
  BY DEF Api!Logout
<1> HIDE DEF request
<1> QED
  BY <1>1, <1>2, BeginStep DEF ApiInv, Api!TypeOK

LEMMA ChangeRoleStep ==
  ASSUME Api!AccountsAssumption, ApiInv, NEW r \in Requests, NEW t \in tokens, NEW u \in Users,
         NEW role \in Roles, Api!ChangeRole(r, t, u, role)
  PROVE  ApiInv'
<1> DEFINE request == [op |-> "role", user |-> u, role |-> role, exp |-> NULL]
<1>1. Fits(request)
  BY DEF Fits, Api!Request
<1>2. Api!Begin(r, request) /\ UNCHANGED faults
  BY DEF Api!ChangeRole
<1> HIDE DEF request
<1> QED
  BY <1>1, <1>2, BeginStep DEF ApiInv, Api!TypeOK

\* Time only makes the bound on the tokens weaker.
LEMMA TickStep ==
  ASSUME Api!AccountsAssumption, ApiInv, Api!Tick
  PROVE  ApiInv'
<1>1. /\ now \in 0 .. MaxTime /\ now' = now + 1 /\ now' \in 0 .. MaxTime
      /\ Lifetime \in Nat /\ tokens' \subseteq tokens
      /\ UNCHANGED <<users, requests, faults>>
  BY DEF Api!Tick, ApiInv, Api!TypeOK, Api!AccountsAssumption
<1>2. Api!TypeOK'
  BY <1>1 DEF ApiInv, Api!TypeOK, Api!Time
<1>3. \A r \in Requests : Fits(requests[r])'
  BY <1>1 DEF ApiInv, Fits, Api!Request, Api!Time
<1>4. TokensFit'
  BY <1>1 DEF ApiInv, Api!TypeOK, TokensFit, Api!Token, Api!Time
<1>5. Api!SessionCoversTokens'
  BY <1>1 DEF ApiInv, Api!SessionCoversTokens
<1> QED
  BY <1>2, <1>3, <1>4, <1>5 DEF ApiInv

LEMMA ApiStep == ASSUME Api!AccountsAssumption, ApiInv, [Api!Next]_(Api!vars) PROVE ApiInv'
<1>1. CASE Api!Tick
  BY <1>1, TickStep
<1>2. ASSUME NEW r \in Requests, Api!Answer(r) PROVE ApiInv'
  BY <1>2, SelectUserStep, CompareStep, SaveSessionStep, UpdateStep DEF Api!Answer
<1>3. ASSUME NEW r \in Requests, NEW u \in Users, Api!Login(r, u) PROVE ApiInv'
  BY <1>3, LoginStep
<1>4. ASSUME NEW r \in Requests, NEW t \in tokens, Api!Logout(r, t) PROVE ApiInv'
  BY <1>4, LogoutStep
<1>5. ASSUME NEW r \in Requests, NEW t \in tokens, NEW u \in Users, NEW role \in Roles,
             Api!ChangeRole(r, t, u, role)
      PROVE  ApiInv'
  BY <1>5, ChangeRoleStep
<1>6. CASE UNCHANGED Api!vars
  BY <1>6 DEF Api!vars, ApiInv, Api!TypeOK, Fits, TokensFit, Api!SessionCoversTokens
<1> QED
  BY <1>1, <1>2, <1>3, <1>4, <1>5, <1>6 DEF Api!Next

-----------------------------------------------------------------------------
(* Side by side.                                                           *)

IInv == ApiInv /\ Patroni!TypeOK /\ MockInv

\* Whatever part a behaviour is of, each part takes a step of its own or none.
LEMMA EachPartSteps ==
  ASSUME [Next]_vars
  PROVE  /\ [Api!Next]_(Api!vars)
         /\ [Patroni!Next]_(Patroni!vars)
         /\ [Mock!Next]_(Mock!vars)
<1>1. [Api!Next]_(Api!vars)
  BY DEF Next, vars, apiVars, Api!vars
<1>2. [Patroni!Next]_(Patroni!vars)
  BY DEF Next, vars, patroniVars, Patroni!vars
<1>3. [Mock!Next]_(Mock!vars)
  BY DEF Next, vars, mockVars, Mock!vars
<1> QED
  BY <1>1, <1>2, <1>3

LEMMA Invariance == Spec => []IInv
<1> USE BackendsAssumption
<1>1. Api!AccountsAssumption
  BY DEF BackendsAssumption
<1>2. Init => IInv
  BY <1>1, ApiInit, PatroniInit, MockInit DEF Init, IInv
<1>3. IInv /\ [Next]_vars => IInv'
  BY <1>1, EachPartSteps, ApiStep, PatroniStep, MockStep DEF IInv
<1> QED
  BY <1>2, <1>3, PTL DEF Spec

\* Rows, requests, tokens and lists are what the code keeps in them, and the
\* lists of the mock keep their caps.
THEOREM TypeCorrect == Spec => []TypeOK
<1>1. IInv => TypeOK
  BY DEF IInv, ApiInv, MockInv, TypeOK
<1> QED
  BY <1>1, Invariance, PTL

\* However the logins of a user overlap, fail or lose their answers, the row
\* never shows a session that ends before one of the user's tokens.
THEOREM SessionsCoverTokens == Spec => []SessionCoversTokens
<1>1. IInv => SessionCoversTokens
  BY DEF IInv, ApiInv, SessionCoversTokens
<1> QED
  BY <1>1, Invariance, PTL

\* Whatever the caps and however long the mock runs: an app that starts from
\* its routes sees what one that follows its pushes sees, but for the oldest
\* alerts once there are more than the route returns.
THEOREM RoutesAgree == Spec => []RoutesAgreeWithPushes
<1>1. IInv => RoutesAgreeWithPushes
  BY DEF IInv, MockInv
<1> QED
  BY <1>1, Invariance, PTL

\* The mock keeps the promise of AlertBoard.
THEOREM ImplementsAlertBoard == Spec => RefinesAlertBoard
<1> USE BackendsAssumption
<1>1. Init => Board!Init
  BY MockInit DEF Init
<1>2. IInv /\ [Next]_vars => [Board!Next]_(Board!vars)
  BY EachPartSteps, MockStep DEF IInv
<1> QED
  BY <1>1, <1>2, Invariance, PTL DEF Spec, RefinesAlertBoard, Board!Spec
=============================================================================
