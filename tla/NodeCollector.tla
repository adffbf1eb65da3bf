--------------------------- MODULE NodeCollector ---------------------------
(***************************************************************************)
(* The Node collector (node_collector/src): the same statements as the Go  *)
(* collector's on the same table, with other error paths.  Whatever fails  *)
(* while an event is handled skips the service's metric and the poll goes  *)
(* on with the next service; a metric that cannot be stored is only        *)
(* logged; the pool has no 'error' handler, so that a session cut while it *)
(* is idle ends the process; and nothing starts the process again by       *)
(* itself.                                                                 *)
(*                                                                         *)
(* The database is the primary of an asynchronously replicated pair: a     *)
(* fail-over goes back to what the replica had received.                   *)
(***************************************************************************)
EXTENDS EventStore

CONSTANTS
  Retries,       \* RETRY_DELAYS_MS.length
  MaxFlips,      \* bound: changes of reachability
  MaxFails,      \* bound: statements that fail without being executed
  MaxLost,       \* bound: statements executed whose acknowledgement is lost
  MaxCrashes,    \* bound: deaths of the process
  MaxFailovers   \* bound: fail-overs of the database

ASSUME NodeBoundsAssumption ==
  /\ Retries \in Nat /\ MaxFlips \in Nat /\ MaxFails \in Nat
  /\ MaxLost \in Nat /\ MaxCrashes \in Nat /\ MaxFailovers \in Nat

VARIABLES
  reach,     \* reach[s]: the agent of s answers an SNMP GET in time
  clock,     \* number of changes of reachability so far: the time now()
  db,        \* the primary's tables
  replica,   \* what a fail-over would go back to; NULL until it is decided
  pc,        \* the statement about to run
  mem,       \* the variables of main and of processService
  health,    \* health.status
  faults     \* how many faults of each kind have happened; outlived: no
             \* process was started since the last fail-over; torn: a
             \* fail-over came between the two statements of recordDown

vars == <<reach, clock, db, replica, pc, mem, health, faults>>

events == db.events

\* The place of a row that the new primary never received: its id refers to
\* nothing and is not used again.
LostRow == [service |-> NULL, type |-> "down", started |-> 0,
            ended |-> 0, resolved |-> TRUE]

Database == [events  : Seq(Row \cup {LostRow}),
             metric  : [Services -> {"none", "online", "offline"}],
             lastRun : {"none", "success", "error"}]

Memory == [attempt      : 0 .. Retries,
           activeEvents : [Services -> Nat \cup {NULL}],
           todo         : SUBSET Services,
           svc          : Services \cup {NULL},
           isDown       : BOOLEAN,
           pollErr      : BOOLEAN]

TypeOK ==
  /\ reach \in [Services -> BOOLEAN]
  /\ clock \in 0 .. MaxFlips
  /\ db \in Database
  /\ replica \in Database \cup {NULL}
  /\ pc \in {"dead", "connect", "poll", "next", "sync", "probe", "checkOpen",
             "insertDown", "closeRow", "insertRecovered", "saveMetric", "saveRun"}
  /\ mem \in Memory
  /\ health \in {"starting", "ok", "error"}
  /\ faults \in [fails : 0 .. MaxFails, lost : 0 .. MaxLost,
                 crashes : 0 .. MaxCrashes, failovers : 0 .. MaxFailovers,
                 outlived : BOOLEAN, torn : BOOLEAN]

\* A process that has just started.
Fresh == [attempt |-> 0, activeEvents |-> [s \in Services |-> NULL], todo |-> {},
          svc |-> NULL, isDown |-> FALSE, pollErr |-> FALSE]

Init ==
  /\ reach \in [Services -> BOOLEAN]
  /\ clock = 0
  /\ db = [events |-> <<>>, metric |-> [s \in Services |-> "none"], lastRun |-> "none"]
  /\ replica = NULL
  /\ pc = "connect"
  /\ mem = Fresh
  /\ health = "starting"
  /\ faults = [fails |-> 0, lost |-> 0, crashes |-> 0, failovers |-> 0,
               outlived |-> FALSE, torn |-> FALSE]

-----------------------------------------------------------------------------
(* How a statement ends: done and acknowledged, failed, or done without    *)
(* acknowledgement.                                                        *)

Succeeds == faults' = faults
Fails == faults.fails < MaxFails /\ faults' = [faults EXCEPT !.fails = @ + 1]
AckLost == faults.lost < MaxLost /\ faults' = [faults EXCEPT !.lost = @ + 1]

WriteError(written) == (Fails /\ db' = db) \/ (AckLost /\ db' = written)

\* The UPDATE of recordRecovered: an id that was lost matches no row.
Closed(id) ==
  IF events[id] = LostRow THEN db
  ELSE [db EXCEPT !.events = CloseRow(@, id, clock)]

Exit ==
  /\ pc' = "dead"
  /\ mem' = Fresh
  /\ health' = "starting"

Environment == <<reach, clock, replica>>

-----------------------------------------------------------------------------
(* newPostgresStorage.  The pings may fail any number of times.            *)

\* Mutant of Connect: the attempt is compared with the wrong bound.
ConnectUnlimited ==
  /\ pc = "connect"
  /\ \/ pc' = "poll" /\ mem' = [mem EXCEPT !.attempt = 0] /\ health' = "ok"
     \/ /\ mem.attempt <= Retries
        /\ mem' = [mem EXCEPT !.attempt = @ + 1]
        /\ UNCHANGED <<pc, health>>
  /\ UNCHANGED <<Environment, db, faults>>

Connect ==
  /\ pc = "connect"
  /\ \/ pc' = "poll" /\ mem' = [mem EXCEPT !.attempt = 0] /\ health' = "ok"
     \/ /\ mem.attempt < Retries
        /\ mem' = [mem EXCEPT !.attempt = @ + 1]
        /\ UNCHANGED <<pc, health>>
  /\ UNCHANGED <<Environment, db, faults>>

\* The last attempt fails: main rejects, process.exit(1).
GiveUp ==
  /\ pc = "connect" /\ mem.attempt = Retries
  /\ Exit
  /\ UNCHANGED <<Environment, db, faults>>

-----------------------------------------------------------------------------
(* main's loop and processService.                                         *)

GetServices ==
  /\ pc = "poll"
  /\ \/ /\ Succeeds
        /\ mem' = [mem EXCEPT !.todo = Services]
        /\ pc' = IF Services = {} THEN "saveRun" ELSE "next"
        /\ UNCHANGED health
     \/ /\ Fails
        /\ health' = "error"
        /\ UNCHANGED <<pc, mem>>
  /\ UNCHANGED <<Environment, db>>

StartService(s) ==
  /\ pc = "next" /\ s \in mem.todo
  /\ mem' = [mem EXCEPT !.svc = s]
  /\ pc' = IF mem.activeEvents[s] = NULL THEN "sync" ELSE "probe"
  /\ UNCHANGED <<Environment, db, health, faults>>

\* processService is over for svc; err: main's catch has set pollError.
NextService(err) ==
  /\ mem' = [mem EXCEPT !.todo = @ \ {mem.svc}, !.svc = NULL, !.isDown = FALSE,
                        !.pollErr = @ \/ err]
  /\ pc' = IF mem.todo = {mem.svc} THEN "saveRun" ELSE "next"

\* Mutant of Thrown: the error of an event is reported, the metric is saved.
ThrownToMetric ==
  /\ pc' = "saveMetric"
  /\ mem' = [mem EXCEPT !.pollErr = TRUE]

\* An error outside the inner try: the rest of processService is skipped.
Thrown == NextService(TRUE)

\* Mutant of Sync: the service is probed even if its open event is unknown.
SyncLogged ==
  /\ pc = "sync"
  /\ \/ Succeeds /\ mem' = [mem EXCEPT !.activeEvents[mem.svc] = ActiveEvent(events, mem.svc)]
     \/ Fails /\ mem' = [mem EXCEPT !.activeEvents[mem.svc] = NoEvent]
  /\ pc' = "probe"
  /\ UNCHANGED <<Environment, db, health>>

Sync ==
  /\ pc = "sync"
  /\ \/ /\ Succeeds
        /\ mem' = [mem EXCEPT !.activeEvents[mem.svc] = ActiveEvent(events, mem.svc)]
        /\ pc' = "probe"
     \/ Fails /\ Thrown
  /\ UNCHANGED <<Environment, db, health>>

\* collect never rejects; its outcome selects handleDown or handleRecovered.
Probe ==
  /\ pc = "probe"
  /\ LET held == mem.activeEvents[mem.svc] # NoEvent IN
     pc' = CASE ~reach[mem.svc] /\ ~held -> "checkOpen"
             [] reach[mem.svc] /\ held   -> "closeRow"
             [] OTHER                    -> "saveMetric"
  /\ mem' = [mem EXCEPT !.isDown = ~reach[mem.svc]]
  /\ UNCHANGED <<Environment, db, health, faults>>

\* recordDown looks for an open row and returns its id if there is one.
CheckOpen ==
  /\ pc = "checkOpen"
  /\ LET existing == ActiveEvent(events, mem.svc) IN
     \/ /\ Succeeds
        /\ mem' = [mem EXCEPT !.activeEvents[mem.svc] = existing]
        /\ pc' = IF existing = NoEvent THEN "insertDown" ELSE "saveMetric"
     \/ Fails /\ Thrown
  /\ UNCHANGED <<Environment, db, health>>

RecordDown ==
  /\ pc = "insertDown"
  /\ LET written == [db EXCEPT !.events = InsertDown(@, mem.svc, clock)] IN
     \/ /\ Succeeds
        /\ db' = written
        /\ mem' = [mem EXCEPT !.activeEvents[mem.svc] = Len(written.events)]
        /\ pc' = "saveMetric"
     \/ WriteError(written) /\ Thrown
  /\ UNCHANGED <<Environment, health>>

CloseEvent ==
  /\ pc = "closeRow"
  /\ LET written == Closed(mem.activeEvents[mem.svc]) IN
     \/ Succeeds /\ db' = written /\ pc' = "insertRecovered" /\ UNCHANGED mem
     \/ WriteError(written) /\ Thrown
  /\ UNCHANGED <<Environment, health>>

\* Mutant of RecordRecovered: the closed id stays in the map.
RecordRecoveredKeepsMap ==
  /\ pc = "insertRecovered"
  /\ LET written == [db EXCEPT !.events = InsertRecovered(@, mem.svc, clock)] IN
     \/ Succeeds /\ db' = written /\ pc' = "saveMetric" /\ UNCHANGED mem
     \/ WriteError(written) /\ Thrown
  /\ UNCHANGED <<Environment, health>>

RecordRecovered ==
  /\ pc = "insertRecovered"
  /\ LET written == [db EXCEPT !.events = InsertRecovered(@, mem.svc, clock)] IN
     \/ /\ Succeeds
        /\ db' = written
        /\ mem' = [mem EXCEPT !.activeEvents[mem.svc] = NoEvent]
        /\ pc' = "saveMetric"
     \/ WriteError(written) /\ Thrown
  /\ UNCHANGED <<Environment, health>>

\* The inner try: an error is logged and the poll does not count as failed.
SaveMetric ==
  /\ pc = "saveMetric"
  /\ LET status == IF mem.isDown THEN "offline" ELSE "online"
         written == [db EXCEPT !.metric[mem.svc] = status] IN
     (Succeeds /\ db' = written) \/ WriteError(written)
  /\ NextService(FALSE)
  /\ UNCHANGED <<Environment, health>>

\* Mutant of SaveCollectorRun: health.status is left alone.
SaveCollectorRunKeepsStatus ==
  /\ pc = "saveRun"
  /\ LET written == [db EXCEPT !.lastRun = IF mem.pollErr THEN "error" ELSE "success"] IN
     (Succeeds /\ db' = written) \/ WriteError(written)
  /\ pc' = "poll"
  /\ mem' = [mem EXCEPT !.pollErr = FALSE]
  /\ UNCHANGED <<Environment, health>>

SaveCollectorRun ==
  /\ pc = "saveRun"
  /\ LET written == [db EXCEPT !.lastRun = IF mem.pollErr THEN "error" ELSE "success"] IN
     (Succeeds /\ db' = written) \/ WriteError(written)
  /\ health' = "ok"
  /\ pc' = "poll"
  /\ mem' = [mem EXCEPT !.pollErr = FALSE]
  /\ UNCHANGED Environment

-----------------------------------------------------------------------------
(* The environment.                                                        *)

\* A kill at any time, or the pool's unhandled 'error' when the one idle
\* session is cut.
Crash ==
  /\ pc # "dead"
  /\ faults.crashes < MaxCrashes
  /\ faults' = [faults EXCEPT !.crashes = @ + 1]
  /\ Exit
  /\ UNCHANGED <<Environment, db>>

\* Somebody starts the collector again; nothing says that somebody will.
Restart ==
  /\ pc = "dead"
  /\ pc' = "connect"
  /\ faults' = [faults EXCEPT !.outlived = FALSE]
  /\ UNCHANGED <<Environment, db, mem, health>>

Flip(s) ==
  /\ clock < MaxFlips
  /\ reach' = [reach EXCEPT ![s] = ~@]
  /\ clock' = clock + 1
  /\ UNCHANGED <<db, replica, pc, mem, health, faults>>

\* The last moment up to which the replica has received the primary's writes.
LastReplicated ==
  /\ replica = NULL /\ faults.failovers < MaxFailovers
  /\ replica' = db
  /\ UNCHANGED <<reach, clock, db, pc, mem, health, faults>>

\* The replica becomes the primary without the writes it has not received.
Failover ==
  /\ replica # NULL
  /\ db' = [replica EXCEPT !.events =
              [e \in 1 .. Len(events) |-> IF e <= Len(@) THEN @[e] ELSE LostRow]]
  /\ replica' = NULL
  /\ faults' = [faults EXCEPT !.failovers = @ + 1, !.outlived = TRUE,
                              !.torn = @ \/ pc = "insertDown"]
  /\ UNCHANGED <<reach, clock, pc, mem, health>>

-----------------------------------------------------------------------------
Step ==
  \/ Connect \/ GiveUp
  \/ GetServices \/ \E s \in Services : StartService(s)
  \/ Sync \/ Probe \/ CheckOpen \/ RecordDown \/ CloseEvent \/ RecordRecovered
  \/ SaveMetric \/ SaveCollectorRun

Next ==
  \/ Step \/ Crash \/ Restart
  \/ \E s \in Services : Flip(s)
  \/ LastReplicated \/ Failover

Spec == Init /\ [][Next]_vars

\* Every await of the loop ends; nobody has to restart a dead process.
FairSpec == Spec /\ WF_vars(Step)

-----------------------------------------------------------------------------
(* Properties.                                                             *)

\* The outages of a service follow one another, at most the last one open,
\* also after a fail-over has taken rows or updates back: recordDown's lookup
\* adopts an outage that has come back to life instead of opening another.
\* Only a fail-over between that lookup and the INSERT can break this.
OutagesDisjoint ==
  ~faults.torn =>
  \A s \in Services : \A e \in DownRows(events, s) :
    /\ events[e].ended # NULL => events[e].started <= events[e].ended
    /\ \A f \in DownRows(events, s) :
         e < f => events[e].ended # NULL /\ events[e].ended <= events[f].started

\* A metric is stored only after the service's event has been dealt with, so it
\* cannot contradict service_events: 'online' follows a closed outage unless an
\* acknowledgement was lost, 'offline' an open one unless a statement failed.
\* The Go collector, which stores the metric regardless, does not keep this.
MetricMatchesEvents ==
  pc = "saveMetric" /\ faults.lost = 0 /\ faults.failovers = 0 =>
    /\ ~mem.isDown => OpenRows(events, mem.svc) = {}
    /\ mem.isDown /\ faults.fails = 0 => OpenRows(events, mem.svc) # {}

StatementsWork == faults.fails = 0 /\ faults.lost = 0

\* The process is alive in the end, and was started after the last fail-over.
Recent == pc # "dead" /\ ~faults.outlived

\* As long as no statement fails, a service that stays down ends up with an
\* open outage; a restart repairs whatever a fail-over has taken away.
OutageRecorded ==
  \A s \in Services :
    []StatementsWork /\ <>[]Recent /\ <>[]~reach[s] => <>[](OpenRows(events, s) # {})

\* As long as no acknowledgement is lost, a service that stays up ends up with
\* its outages closed, those included that a fail-over had opened again.
RecoveryRecorded ==
  \A s \in Services :
    /\ [](faults.lost = 0 /\ ~faults.torn)
    /\ <>[]Recent
    /\ <>[]reach[s]
    => <>[](OpenRows(events, s) = {})

\* The loop survives every error that is caught in it: unless the process dies,
\* polls go on and /health reports ok in the end.
KeepsPolling == <>[](pc # "dead") => []<>(pc = "saveRun") /\ <>[](health = "ok")
=============================================================================
