# Cuy Sentinel: verification project

TLA+ specifications of the Cuy Sentinel back end, the TLC configurations that
check them, and TLAPS proofs of their main safety properties.

## 1. The system

Cuy Sentinel monitors hosts by SNMP, stores what it sees in a replicated
PostgreSQL, and pushes it to mobile apps.

    SNMP agents <--GET-- collector --SQL--> HAProxy --> PostgreSQL (Patroni x2, etcd)
                                                            | pg_notify
    apps <--Socket.IO-- node_api <--------LISTEN------------+
      +-----REST--------->  |  ---------- SQL through HAProxy ------>

| component | source | state | operations | interacts with |
|---|---|---|---|---|
| Go collector | `go_collector/` | `activeEvents` map, health, locals of the poll | start-up with retries; poll: `GetServices`, per service sync / collect / handle / save, `SaveCollectorRun` | SNMP agents (UDP), PostgreSQL (one statement at a time) |
| service_events | `init/01_schema.sql`, `postgres_storage.go` | rows with `ended_at`, `resolved` | INSERT 'down', UPDATE close, INSERT 'recovered', two SELECTs | both collectors write, the API reads |
| Node collector | `node_collector/src/main.js`, `storage/` | the same | the same statements, other error paths | the same; not deployed by compose |
| Node SNMP collector | `node_collector/src/collector/` | one session per collect | request, retry, answer, conversion of units | SNMP agents (UDP) |
| LISTEN bridge | `node_api/src/index.js` | `_listenerClient`, `_reconnectTimer`, the session's LISTENs | `connectListener`, the timer, `error` and `notification` events | PostgreSQL triggers, Socket.IO |
| active lists | `index.js`, `routes/alerts.js` | alerts in the table, lists on their way | `emitActiveAlerts`, `emitActiveEvents`, PATCH resolve, 30 s intervals | PostgreSQL, Socket.IO |
| sessions and users | `auth.js`, `routes/auth.js`, `routes/users.js` | `session_expires_at` and role of a row; the tokens clients hold | login (two statements and two computations), logout, role change | PostgreSQL |
| read routes | `routes/services, metrics, monitoring, databases` | none | one SELECT each; `db-nodes` asks Patroni | PostgreSQL, Patroni REST |
| HAProxy, Patroni, etcd | `haproxy/`, `patroni/` | health-check counters, roles | check every 3 s, fall 3, rise 2, cut sessions of a node marked down | everything that speaks SQL |
| SNMP mock | `snmp_mock/agent.js` | counters and loads of a simulated host | interval that grows them, BER decode of a GET, BER encode of the answer | collectors |
| mock API | `node_mock/server.js` | METRICS, ALERTS, COLLECTOR_RUNS in memory, the first and last with a cap | interval, resolve, routes, pushes | apps in development |

What is hard here:

- a poll is a sequence of statements, each of which can fail, or be executed
  and lose its acknowledgement (HAProxy cuts sessions in a fail-over), and the
  process can die between any two of them;
- the collector trusts a map in memory over the table;
- RecordDown and RecordRecovered are two statements each, without a
  transaction, and no unique index forbids two open outages;
- the bridge reconnects from three places (a failed connect, a refused LISTEN,
  an `error` event) through one timer;
- lists are read and emitted in separate callbacks, so that they overtake each
  other;
- the database replicates asynchronously: a fail-over may take acknowledged
  rows away, or open a row again that was closed;
- datagrams of SNMP are lost, late, doubled and reordered, and the numbers in
  them are as wide as their values need;
- requests of one user overlap between a statement and the next.

What makes the components correct: the outages of a service are disjoint and at
most one is open; history is not rewritten; outages and recoveries are recorded
in the end; the tables agree; the bridge neither stops nor listens twice; lists
converge; a reading is one moment of the host; a session that is shown covers
every good token; every request is answered; what the mock's routes show is what
its pushes have shown, but for the oldest alerts once a route is full.

## 2. Modules

| module | what it is |
|---|---|
| `EventStore` | the table service_events as a sequence of rows, and its statements as operators |
| `OutageLog` | what the table promises to its readers: per service, outages opened and closed one after another, and recoveries announced while none is open |
| `GoCollector` | the Go collector: one action per SQL statement, SNMP exchange or process event; its properties and its inductive invariant `IInv` |
| `GoLog`, `NodeLog` | the refinement mappings from `GoCollector` and `NodeCollector` to `OutageLog` |
| `MCGoCollector` | instances of `GoCollector` and `GoLog` for TLC |
| `NodeCollector`, `MCNodeCollector` | the Node collector over the same `EventStore`, and a database that fails over to an older copy |
| `ListenBridge`, `MCListenBridge` | connectListener, its timer, the sessions and notifications |
| `ActiveLists`, `MCActiveLists` | reads and pushes of active_alerts against PATCH resolve |
| `Ber` | the BER encoders and parsers of the mock agent |
| `Snmp`, `MCSnmp` | `collect`, the agent and the network between them; `MCSnmp` also compares encoders with parsers at the ends of their ranges, number by number and datagram by datagram |
| `Accounts` | login, logout, role change and the check of tokens |
| `DbNodes` | GET db-nodes: one request to Patroni per node, one answer |
| `MockApi` | the mock's lists, interval, resolve handler and routes |
| `AlertBoard` | what an app may expect of active_alerts; `MockApi` implements it |
| `MCBackends` | instances of `Accounts`, `DbNodes` and `MockApi`, and the mapping to `AlertBoard` |
| `EventStoreProofs`, `GoCollectorProofs`, `NodeCollectorProofs`, `ListenBridgeProofs`, `ActiveListsProofs`, `BackendsProofs`, `BerProofs`, `SnmpProofs` | lemmas and theorems, section 4 |

How they compose: `GoCollector` and `NodeCollector` extend `EventStore`, and
each is mapped to `OutageLog`; `Snmp` extends `Ber`; `MockApi` is mapped to
`AlertBoard`. `Accounts`, `DbNodes` and `MockApi` share no state, so
`MCBackends` chooses with `part` which of them a behaviour is about and leaves
the others where they begin: one run checks three separate state spaces, never
their product.

Operators called "Mutant of X" are mistakes X could plausibly contain. Nothing
uses them in the specifications; with one in X's place, the property it belongs
to (PROJECT.json, "mutants") fails, which shows that the property constrains X.

### GoCollector and the code

`pc` names the statement about to run. `connect` is `NewPostgresStorage`;
`poll` is `GetServices`; `next` is the `for` over the services (in any order:
the SELECT has no ORDER BY); `sync` is `syncActiveEvent`; `probe` is `Collect`
with the first test of `handleDown` or `handleRecovered`; `checkOpen` and
`insertDown` are the statements of `RecordDown`, `closeRow` and
`insertRecovered` those of `RecordRecovered`; `saveMetric` and `saveRun` end a
service and a poll. Sleeping is part of `poll`. `activeEvents[s] = NULL` is an
absent key, `NoEvent` is `""`. The services' reachability changes between any
two steps (`Flip`), and `clock` counts these changes: two timestamps are equal
when nothing observable happened between them. `now()` reads `clock`.

A row's position stands for its UUID. Causes, metric values and latencies are
left out; of a metric only `service_status` of the latest row is kept, and of
collector_runs the latest `success`. Names, hosts and the set of enabled
services do not change while the model runs. The table holds only what one
collector writes: a second collector at the same time is not modelled.
`Crash` stands for a kill and for `log.Fatalf` of the health server. A
statement that a dead process left behind is either executed before the
restart or not at all.

Faults: `Fails` is a statement that is not executed, `AckLost` one that is
executed and reported as failed. A read that loses its answer is a read that
fails. Two things are outside the model. `database/sql` may itself repeat a
statement whose connection turned out to be bad; where the first try had been
executed after all, an INSERT would run twice within one call, and no property here
speaks of that. And the database of this module never falls back on an older copy:
the fail-over that loses committed rows is in `NodeCollector` only.

### ListenBridge and the code

A client is a connection handed out by `listenerPool`; `phase` says how far
connectListener has got with it. `connecting` and `timers` are counters, so that
more than one call or timer can exist if the code lets it. A LISTEN takes
effect and is acknowledged in one step; notifications of a session are
delivered in order and lost with the session. The channels are a parameter; TLC
uses two of the four, which keeps a LISTEN before and one after an INSERT.
A released client goes back to the pool without its handler. Its session keeps the
LISTENs it had, and the pool may hand it out again; the model gives out a new
session each time, and no property depends on the difference: a LISTEN repeated in
a session changes nothing. A
connection whose peer disappears without a word (no FIN, no RST) is not
modelled: pg would not notice it either, unless HAProxy's timeout ends it.

### ActiveLists and the code

`run` holds the runs of emitActiveAlerts that may overlap: a run is idle, has sent
its SELECT, or has the rows and not yet emitted them; each awaits on a connection
of its own, so no order relates them. The interval and the `new_alert` notification
both lead to `Ask`. The list is a set of alerts, cut to the newest `Limit` as
the query does. A request is a PATCH by an admin; the 403 of other roles changes
nothing and is left out. No code of the repository inserts alert_events, so
`Trigger` is external. `active_events` takes the same path from SELECT to emit,
with the collector as its writer.

### NodeCollector and the code

The statements, the map and the poll are those of the Go collector; `events` is
a component of `db`, the tables of the primary. What differs is what an error
does. `Thrown` is the catch in main's `for`: the rest of `processService`,
its metric included, is skipped and the poll goes on with the next service.
Only the inner `try` of `SaveMetric` swallows its error, and the poll still
counts as a success. `Crash` is a kill or the pool's `error` event that nobody
listens to; `Restart` is an operator.

`LastReplicated` fixes the moment up to which the replica has received writes,
`Failover` makes that copy the primary. A row the new primary never received
keeps its place as `LostRow`, because its id is not used again: an UPDATE of it
changes nothing and reports no error. HAProxy, which decides which node a
connection reaches, has no state here: its effect on the collector is a
statement that fails or loses its acknowledgement.

One interval breaks the promise of disjoint outages: a fail-over between
recordDown's lookup and its INSERT can open a closed row again after the lookup
has found none. The flag `torn` records it, and `OutagesDisjoint` excludes it;
nothing else has to be excluded.

### Snmp, Ber and the code

A session is one `collect`: it opens a socket, sends a GET for ten OIDs, and
repeats it once after a timeout; the first answer with the right request id that
reaches its socket ends it. Datagrams in `net` are buffers, that is sequences of
bytes: the agent parses the request with `Ber` and builds its answer with it,
and the manager reads it by the standard's rules (`Item`, `Number`,
`ReadAnswer`, external). A number of up to 32 bits is a pair of 16-bit words,
since TLC's own numbers end at 2^31. What the collector computes in doubles is kept
exactly: megabytes as a mixed number, the whole part and the rest in 2^20ths
(`InMB`), the percentage of the disk as numerator and denominator (`Percent`);
only the rounding of doubles is left out. `IsReadingOf` says what a reading has to be
without the operators that compute it: it converts the reading back, octets from
megabytes and hundredths from seconds, and compares with the host, so that a lost or
doubled factor shows (the mutants `InKB` and `Share`). A host may know
only some of the OIDs; the mock agent knows all of them. The agent counts time and
octets in doubles without a limit and the encoder keeps 32 bits of them, so a
reading equals the host's time and octets modulo 2^32, as it does in SNMP
(`Word32`), and everything else exactly.

`session.get`'s error has three causes: a second timeout (`Timeout`), an answer that
does not fit the request (`Receive`), and a request that cannot be sent because no
name server knows the host or the socket fails (`SendError`). The last is reported
at once, without the retry, whether it was the first request or the second;
`unsent` remembers it, so that `DownHasCause` can say that nothing but two missed
datagrams or such an error makes a collect report a host down.

### Accounts, DbNodes, MockApi and the code

In `Accounts` a request holds what the handler has in its local variables; each
step of it is one statement or one computation with its await. A statement ends
well, fails, or is executed and answered with an error, as in the collectors.
Time is the eight hours cut to `Lifetime` moments. A token is what jwt.sign has
put into it: changing a role or logging out writes the row and leaves the tokens
that are out as they are, which is what `SessionCoversTokens` has to live with.
Rows of the access log and the list of users change nothing else and are left out.

In `DbNodes` a promise is resolved by the end of the body, an error of the
request or three seconds of silence. A connection that breaks inside the body is
none of these, so the route then never answers; `NodesAnswered` says that
this is the only way for it not to.

`MockApi` keeps the order of each list as the code does: METRICS grows at its
end, ALERTS and COLLECTOR_RUNS at the front, the seeds of COLLECTOR_RUNS stand
in the opposite order. A push shows every active alert; GET /api/alerts sorts
them by `TriggeredAt` and returns the newest `AlertCap`, and since ALERTS has no cap
the two may differ: `RoutesAgreeWithPushes` says by how much. Random values, ids, texts and the fixed lists that nothing
changes are left out.

## 3. Runs

| run | instance | what it shows |
|---|---|---|
| `collector` | 2 services, 3 flips, 1 failing statement, 1 lost acknowledgement, 1 crash | safety under every interleaving of the faults |
| `collector_long` | 1 service, 4 flips, one fault of each kind, `FairSpec` | refinement of `OutageLog`, frozen history, liveness |
| `stale_map` | 1 failing statement | finding: an outage that is never recorded |
| `lost_ack` | 1 lost acknowledgement | finding: an outage that is never closed |
| `half_recovery` | 1 crash | finding: a recovery that is never announced |
| `bridge` | 2 channels, 3 rows, 2 breaks, 2 refusals | one activity at a time, order, recovery |
| `listen_gap` | 1 row, no faults | finding: a row dropped while the handler is not attached |
| `lists` | 3 alerts, limit 2, 2 requests, 2 overlapping reads, 1 failing query, 1 app joining twice | one resolver per alert, convergence |
| `stale_list` | 2 alerts, 1 request, 1 read | finding: a resolved alert shown again |
| `node_collector` | 1 service, 2 flips, one fault of each kind, 1 fail-over, `FairSpec` | disjoint outages, metrics stored only beside matching events (see below), refinement of `OutageLog` up to the first fail-over, liveness |
| `snmp` | a young and an old agent, 2 hosts, a tick, a stop, one lost, one late and one doubled datagram, and one that cannot be sent, `FairSpec` | exact readings of one moment, conversions included, no outage from a single loss, collects that end |
| `backends` | 2 users, 2 requests at a time, 2 logins; 2 nodes, 1 cut; lists cut to 5 metrics and 3 runs, a route to 2 alerts, 4 intervals | sessions cover tokens, requests and db-nodes are answered, the mock's routes agree with its pushes up to the cap of the alerts, and it implements `AlertBoard` |

Which faults a property of the collector assumes is part of the property:
`TablesAgree` and `OutageRecorded` hold as long as no statement fails, whatever
crashes; `RecoveryRecorded` and `AnnouncedOnce` as long as no acknowledgement is
lost; the others hold always. In the Node collector `MetricMatchesEvents` holds
before the first fail-over and lost acknowledgement; that an 'offline' metric has
its open outage needs, besides, that no statement has failed, since an INSERT of a
'recovered' row that fails leaves the outage closed and the map as if it were open.
The findings are the same statements without the
assumption, as the documentation makes them.

### Bounds

- `MaxFlips` 3 takes a service through down, up, down, or two services through
  different halves of it; 4 adds the end of the second outage. A stale id needs
  one outage and the beginning of the next.
- `MaxFails`, `MaxLost`, `MaxCrashes` 1 each: in one run, every pair and the
  triple of different faults at any two or three steps. One fault of a kind is
  enough for each finding.
- `Retries` is 7 in the code. 0 reaches `GiveUp` with one failure, 1 reaches
  `PingRetry`. The proofs hold for any number.
- `MaxRows` 3, `MaxBreaks` 2, `MaxRefusals` 2: two reconnections in a row, each
  by a different cause, with rows before, between and after.
- `Limit` 2 of 3 alerts (100 in the code) has one alert beyond the limit; two
  `Runs` let reads overtake each other; `MaxJoins` 2 lets the app leave and come
  back.
- The Node collector has one service: its error paths are per service, and a
  poll of one already goes from each of them to the end of the poll. Two flips
  are an outage and its end, or an end and an outage.
- `snmp`: two sockets let a late answer meet the next collect. The old agent's
  time and incoming octets stand a tick before their wrap at 2^32, its outgoing
  octets before a fifth byte; its loads stand a tick before their upper limits.
  Two hosts are asked: one that knows every OID, and one without the allocation
  units, whose memory takes the collector's fallback and whose disk counts as 0. The
  proofs are for any host. `MaxErrors` 1 fails the first request or the retry.
- `backends`: two logins of one user overlap in every way, with a moment passing
  between any two statements; `Lifetime` 2 lets a token expire. The caps of
  the mock (200 and 100 in the code) are so small that four intervals pass
  them; `AlertCap` 2 (100 in the code) is passed by the first new alert, and by
  one more by the second.

Deadlock is checked except where the system really may stop: in `bridge` and
`listen_gap`, when the bounded rows and faults are used up and the listener is
established; in `backends`, when the bounded intervals, logins and moments are
over.

### Fairness

- The collector: `WF(Step)` and `WF(Restart)`. The loop is sequential, every
  statement and every SNMP exchange ends (the driver's and gosnmp's timeouts),
  and docker restarts the container (`restart: unless-stopped`). Faults, flips
  and crashes are the environment's and have no fairness.
- The bridge: timers fire, connects end within `connectionTimeoutMillis`, a
  live session answers its LISTENs and delivers, a dead one is noticed.
- The lists: each run of emitActiveAlerts moves on: the interval keeps firing, a
  query that was sent ends, an answer is emitted. No request, trigger or app has to come.
- The Node collector: `WF(Step)` alone. Nothing restarts it, so the liveness
  properties speak of behaviours in which it lives in the end, and, after a
  fail-over, of a process started since.
- SNMP: some step of the system (collector, agent, network) is taken again and
  again, written `[]<><<BySystem>>_vars`; one of them is always possible, so this
  is weak fairness of all of them together. Faults and the agent's restarts have
  none.
- `Accounts`: `WF(Answer(r))` for each request, since every statement and every
  comparison of passwords ends. `DbNodes`: `WF(Answer)`, and `WF(Timeout(n))`
  for each node: no node has to answer, the timer of a silent one fires.

## 4. Proofs

| module | theorem | statement |
|---|---|---|
| `GoCollectorProofs` | `TypeCorrect` | `Spec => []TypeOK` |
| | `OutagesNeverOverlap` | `Spec => []OutagesDisjoint` |
| | `MapNeverOutdated` | `Spec => []MapHoldsLastOutage` |
| | `StatementsInContext` | `Spec => []StatementContext` |
| | `ActiveListsOpenRows` | `Spec => []ActiveListIsOpenRows` |
| | `HistoryStaysFrozen` | `Spec => HistoryFrozen` |
| | `ImplementsOutageLog` | `Spec => RefinesOutageLog` |
| | `AnnouncesOnce` | `Spec => []AnnouncedOnce` |
| | `TablesEndUpAgreeing` | `Spec => []TablesAgree` |
| `NodeCollectorProofs` | `TypeCorrect` | `Spec => []TypeOK` |
| | `OutagesStayDisjoint` | `Spec => []OutagesDisjoint` |
| | `MetricStaysTrue` | `Spec => []MetricMatchesEvents` |
| | `ImplementsOutageLog` | `Spec => RefinesOutageLog` |
| `ListenBridgeProofs` | `TypeCorrect` | `Spec => []TypeOK` |
| | `ExactlyOneActivity` | `Spec => []OneActivity` |
| | `BroadcastInOrder` | `Spec => []EmittedInOrder` |
| `ActiveListsProofs` | `TypeCorrect` | `Spec => []TypeOK` |
| | `OneResolver` | `Spec => []ResolvedByOne` |
| | `PushIsUpToDate` | `Spec => []PushExcludesResolved` |
| `BackendsProofs` | `TypeCorrect` | `Spec => []TypeOK`, of `MCBackends`, as the next three |
| | `SessionsCoverTokens` | `Spec => []SessionCoversTokens` |
| | `RoutesAgree` | `Spec => []RoutesAgreeWithPushes` |
| | `ImplementsAlertBoard` | `Spec => RefinesAlertBoard` |
| `BerProofs` | `CodecIsExact` | `CodecExact(Sample)`: BER changes no value on its way |
| `SnmpProofs` | `TypeCorrect` | `Spec => []TypeOK` |
| | `ReadsOneSample` | `Spec => []ReadingIsOneSample` |
| | `DownOnlyWithCause` | `Spec => []DownHasCause` |

Every invariant, action property and refinement that a run checks is among
them. They hold for any sets of services, channels, alerts, users, hosts and
requests, and any number of retries, faults, flips, fail-overs, rows and moments.
What is assumed:

- NULL differs from what it could be confused with: a number or a service
  (`NullAssumption`), an alert, a moment, a session.
- The bounds are natural numbers; nothing limits them. There is at least one
  channel, there are finitely many alerts, with numbers as ids.
- `MockAssumption`: the constants of the mock have their types, no service is
  listed twice, and the cap of METRICS has room for one round. `AlertCap` is any
  natural number.
- In the two `ImplementsOutageLog` the log may call its rows by any number.
- `SnmpAssumption`: the initial states of the agent are samples, growths are
  numbers, and a request id is encoded in at most four bytes, being a 32-bit
  integer. The OIDs are the ten that the collectors ask for, and the lengths and
  numbers of arcs that occur in them and in a datagram are part of the proof.

### EventStoreProofs

What each statement does to a table: which rows of each kind there are
afterwards and which columns have changed. A fail-over leaves gaps in the Node
collector's table, so the lemmas speak of `TableWith(Gap)`, tables whose rows
are proper rows or gaps. `Least` and `Greatest` (a set of numbers has a least
element, a bounded one a greatest) take the place of induction.

### GoCollectorProofs

`IInv` is `TypeOK`, `OutagesDisjoint`, `MapHoldsLastOutage`,
`StatementContext` and `TimesPast`. OutagesDisjoint alone is not inductive. An
INSERT of RecordDown keeps it only if no outage is open (`StatementContext`:
the lookup was a step ago, and nobody else writes) and if earlier outages ended
no later than now (`TimesPast`). An UPDATE of RecordRecovered keeps it only if
the row it moves the end of is the last one, which is `MapHoldsLastOutage`, and
that in turn holds because the lookup returns an open outage, and an open
outage is the last one by `OutagesDisjoint`. The step lemmas `MapLoaded`,
`DownInserted`, `RowClosed` and `RecoveredInserted` are these cases;
`NextIInv` goes through the actions. TypeOK needs the others: that `ActiveEvent`
returns a row at all rests on there being at most one open outage.

`StepOnTable` is the core of the rest: given `IInv`, a step of the collector
leaves the table as it is, or inserts a 'down' row of a service that has no open
one (`OpensOutage`), or runs the UPDATE on the service's last outage
(`ClosesLast`), or inserts a 'recovered' row of a service whose outages are
closed (`Announces`). `ImplementsOutageLog` maps them to a stutter, `Open`,
`Close` or a stutter (a retried UPDATE finds the outage closed), and `Announce`.
`ActiveListsOpenRows` adds the invariant `Marked`: a row is marked resolved
exactly when it is an announcement or has an end.

`AnnouncesOnce` adds `Unannounced`: as long as every acknowledgement arrives, no
announcement follows an outage that is open or whose id the map still holds. The
INSERT of a 'recovered' row therefore finds none after the outage it announces,
and, being acknowledged, takes the id out of the map. `TablesEndUpAgreeing`
adds `PollTrue`: where no statement fails, the map knows the open outages, the
steps within a service know what they have found out about it, and the services
the poll is done with have a last metric that agrees. All three parts are needed
at once, since a crash may fall between any two of them.

### NodeCollectorProofs

The Go collector's invariant does not survive a fail-over: rows vanish, closed
ones are open again, and the map holds ids of rows that are gone. `IInv`
has four parts. `TypeOK`. `Context`: the service and the id at hand are what the
next statement expects. `LogInv`, as long as no lookup has been `torn` from its
INSERT: the outages follow one another in the primary and in the replica
(`Disjoint`), no timestamp is in the future, a held id is that of the service's
last outage or of a lost row that no outage has followed (`HeldIsLast`), and the
replica is an earlier state of the same rows (`ReplicaEarlier`), which is what
makes a fail-over keep the other parts. `MapMatches`, until the first fail-over:
the map tells which outages are open, as far as acknowledgements have arrived.
`StepKinds` sorts the steps into a few kinds by their effect on table and map,
and the lemmas `LogKept` to `LogFailover` go through these. `MetricStaysTrue`
and `ImplementsOutageLog` follow from `MapMatches`.

### ListenBridgeProofs

`ActivityInv` holds because only the client handed out last can act
(`ClientsFit`) and because exactly one of timer, connect and busy client exists
(`OneThing`); a client whose LISTEN was refused is waiting for the timer, so that
its own error event finds the timer set. Without that conjunct a second activity
could start. `OrderInv` adds that the rows on a wire are in order and, as long
as the client listens, come after every row that was broadcast.

### ActiveListsProofs

A request that got past its UPDATE has found its alert active and left it
resolved, and nothing makes an alert active again (`WinnerResolved`): so no
second UPDATE of it succeeds, and the list read afterwards is without it.
`ListWithinLimit` is what the query's ORDER BY and LIMIT amount to: the oldest
alert that is listed has fewer than `Limit` newer ones, and the rest of the list
is among these.

### BackendsProofs

The row of a user gets `now + Lifetime` when the UPDATE runs, and a token was
signed before that: no token, handed out or about to be, lasts beyond
`now + Lifetime` (`TokensFit`, `Fits`). Logins that overlap can therefore only
raise the row above the tokens.

The module is about the specification that the run checks: a step of it is
a step of one part and none of the others (`EachPartSteps`), so the invariants
of the parts hold side by side. `RoutesAgree` rests on one round of the interval
ending METRICS with one metric per service (`GrownEndsWithRound`), which the cut
keeps (`TrimmedIsEnd`) because the cap has room for a round. For the alerts,
`NewestOf` says of any finite set with different times that those with fewer than
`cap` newer ones are `cap` many, and newer than the rest, as soon as one is left
out: the newest that is left out has only listed ones before it, and the oldest that
is listed fewer than `cap`. For `AlertBoard` the
alerts need ids of their own (`IdsFit`), which hold because ALERTS never shrinks:
a new alert gets the number of alerts plus one, and `AlertRaised` and
`AlertMarked` say what becomes of the sets of resolved and unresolved ids.

### BerProofs

An element `IsTlv(t, tag, value)` is read back wherever a buffer holds it
(`TlvRead`), and what is built of elements is read element by element: two to
four fields one after the other (`FourFields`), any sequence of them
(`ReadAllOf`), a whole packet (`PacketRead`). It remains to show that both
encoders make elements (`TlvIs`, `ItemIs`), which needs every length to be below
256, hence the sizes of binds and packets (`BindSize`, `PacketSize`); that OIDs of
arcs below 128 are read back (`ParseOIDOf`); and that a number without its leading
zeros, padded if its top bit is set, is read as the number modulo 2^32
(`EncUnsignedIs`). The parsers are recursive functions over positions. That each
of them exists and satisfies its equation is shown without an induction rule: a
least position as far as which there is no such function leads to a
contradiction (`Least`, `Recursion`).

### SnmpProofs

By `CodecIsExact`, a datagram on its way is a request with some id, or
the answer to one at some sample (`NetFits`). `SessionFits` strengthens this for
the socket of the running session: what is on its way there carries the
session's id and, if an answer, a sample of the window; and what is not on its
way any more has been counted as missed. The first half gives `ReadsOneSample`
(`CollectedIsReading`: what is computed from an exact answer, converted back, is what
the host said, for any set of known OIDs; `InMBExact` and `HundredthExact` are the
arithmetic of it), the second `DownOnlyWithCause`: a timeout without an answer
either finds the datagram still on its way, which counts as late, or gone, which
was counted when it was lost. `SendErrorStep` is the other cause, which `unsent`
records.

### What the proofs changed

Three definitions could not be proved about because they were wrong or
misleading, and were corrected: readings of a host whose time or octets have
passed 2^32 equal them only modulo 2^32, which the first form of
`ReadingIsOneSample` denied; the expectation of memory and disk for hosts that
know only some OIDs left combinations out; and overlapping guards of a CASE made
the values of unknown OIDs a matter of choice. The runs had not met the first two
because no sample and no host of theirs was of that kind; samples next to 2^32 and a
host without allocation units are now among them.

### Only model-checked

Liveness, which this prover does not treat under fairness: `OutageRecorded`,
`RecoveryRecorded` and `KeepsPolling` of both collectors, `ListeningRestored`,
`NotifiedIsEmitted`, `ListsConverge`, `CollectEnds`, `UpAgain`,
`RequestsAnswered`, `NodesAnswered`. And that the encoders are exact beyond what
a datagram of these collectors holds: arcs of more than seven bits and lengths up
to 2^16, which `CodecAssumption` of `MCSnmp` compares at the ends of each number of
bytes.

## 5. Plan

Done: all components of section 1 but those below, and the proofs of section 4.
What could follow: HAProxy's check counters (fall 3, rise 2) over Patroni's roles,
with sessions cut when a node is marked down. Today their effect on a statement is
modelled, not their cause.

Not modelled and why: the read routes but db-nodes are one SELECT answered as
JSON and change no state; the conversion of units in Go is the one that `Snmp`
models for Node; HAProxy's counters, see above; the consensus of etcd and Patroni
is third-party; users, logins and the access log of the mock, and its invented
health figures, stand in for the API and nothing depends on them; formatting,
logging and container builds carry no property.
