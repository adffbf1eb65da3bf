----------------------------- MODULE GoCollector -----------------------------
(***************************************************************************)
(* The Go collector (go_collector/main.go): the process docker-compose     *)
(* deploys.  One action is one SQL statement, one SNMP exchange or one     *)
(* process event, with the local computation that follows it.  Between two *)
(* actions the monitored services may change and the process may die.      *)
(*                                                                         *)
(* A statement can end in three ways: it is executed and acknowledged, it  *)
(* fails without being executed, or it is executed and the connection is   *)
(* lost before the acknowledgement, so that the code sees an error.        *)
(* A local variable takes its initial value again where its scope ends.    *)
(***************************************************************************)
EXTENDS EventStore

CONSTANTS
  Retries,     \* len(retryDelays): pings after the first one
  MaxFlips,    \* bound: changes of reachability
  MaxFails,    \* bound: statements that fail without being executed
  MaxLost,     \* bound: statements executed whose acknowledgement is lost
  MaxCrashes   \* bound: deaths of the process

ASSUME BoundsAssumption ==
  /\ Retries \in Nat
  /\ MaxFlips \in Nat /\ MaxFails \in Nat /\ MaxLost \in Nat /\ MaxCrashes \in Nat

VARIABLES
  \* the monitored services
  reach,         \* reach[s]: the agent of s answers an SNMP GET in time
  clock,         \* number of changes of reachability so far: the time now()
  \* the database
  events,        \* table service_events
  metric,        \* metric[s]: service_status of the latest row of metrics
  lastRun,       \* success of the latest row of collector_runs
  \* the process
  pc,            \* the statement about to run
  attempt,       \* NewPostgresStorage's loop variable
  activeEvents,  \* main's map; NULL is an absent key
  todo,          \* services the poll has not finished
  svc,           \* processService's argument
  isDown,        \* processService's local
  eventErr,      \* processService's eventErr is not nil
  pollErr,       \* pollErrMsg is not empty
  health,        \* healthState.status
  faults         \* how many faults of each kind have happened

env == <<reach, clock>>
db  == <<events, metric, lastRun>>
mem == <<attempt, activeEvents, todo, svc, isDown, eventErr, pollErr, health>>
vars == <<env, db, pc, mem, faults>>

PCs == {"dead", "connect", "poll", "next", "sync", "probe", "checkOpen",
        "insertDown", "closeRow", "insertRecovered", "saveMetric", "saveRun"}

TypeOK ==
  /\ reach \in [Services -> BOOLEAN]
  /\ clock \in Nat
  /\ events \in Table
  /\ metric \in [Services -> {"none", "online", "offline"}]
  /\ lastRun \in {"none", "success", "error"}
  /\ pc \in PCs
  /\ attempt \in 0 .. Retries
  /\ activeEvents \in [Services -> Nat \cup {NULL}]
  /\ todo \in SUBSET Services
  /\ svc \in Services \cup {NULL}
  /\ isDown \in BOOLEAN
  /\ eventErr \in BOOLEAN
  /\ pollErr \in BOOLEAN
  /\ health \in {"starting", "ok", "error"}
  /\ faults \in [fails : Nat, lost : Nat, crashes : Nat]

Init ==
  /\ reach \in [Services -> BOOLEAN]
  /\ clock = 0
  /\ events = <<>>
  /\ metric = [s \in Services |-> "none"]
  /\ lastRun = "none"
  /\ pc = "connect"
  /\ attempt = 0
  /\ activeEvents = [s \in Services |-> NULL]
  /\ todo = {}
  /\ svc = NULL
  /\ isDown = FALSE
  /\ eventErr = FALSE
  /\ pollErr = FALSE
  /\ health = "starting"
  /\ faults = [fails |-> 0, lost |-> 0, crashes |-> 0]

-----------------------------------------------------------------------------
(* How a statement ends.                                                   *)

Succeeds == faults' = faults

Fails ==
  /\ faults.fails < MaxFails
  /\ faults' = [faults EXCEPT !.fails = @ + 1]

AckLost ==
  /\ faults.lost < MaxLost
  /\ faults' = [faults EXCEPT !.lost = @ + 1]

\* A read that returns an error.  Losing the answer and failing are the same.
ReadError == Fails

\* A write that returns an error, and what it leaves of the table.
WriteError(tbl, written) ==
  \/ Fails /\ tbl' = tbl
  \/ AckLost /\ tbl' = written

-----------------------------------------------------------------------------
(* The process ends and its memory with it.                                *)
Exit ==
  /\ pc' = "dead"
  /\ attempt' = 0
  /\ activeEvents' = [s \in Services |-> NULL]
  /\ todo' = {}
  /\ svc' = NULL
  /\ isDown' = FALSE
  /\ eventErr' = FALSE
  /\ pollErr' = FALSE
  /\ health' = "starting"

(* Start-up: NewPostgresStorage.                                           *)

PingOk ==
  /\ pc = "connect"
  /\ Succeeds
  /\ health' = "ok"
  /\ pc' = "poll"
  /\ attempt' = 0
  /\ UNCHANGED <<env, db, activeEvents, todo, svc, isDown, eventErr, pollErr>>

\* Mutant of PingRetry: retryDelays is indexed without the check for its end.
PingRetryTooOften ==
  /\ pc = "connect"
  /\ ReadError
  /\ attempt' = attempt + 1
  /\ UNCHANGED <<env, db, pc, activeEvents, todo, svc, isDown, eventErr, pollErr, health>>

PingRetry ==
  /\ pc = "connect"
  /\ attempt < Retries
  /\ ReadError
  /\ attempt' = attempt + 1
  /\ UNCHANGED <<env, db, pc, activeEvents, todo, svc, isDown, eventErr, pollErr, health>>

\* The last attempt failed: setStatus("error"), then log.Fatalf.
GiveUp ==
  /\ pc = "connect"
  /\ attempt = Retries
  /\ ReadError
  /\ Exit
  /\ UNCHANGED <<env, db>>

-----------------------------------------------------------------------------
(* One turn of main's loop.                                                *)

\* The services come in whatever order the SELECT returns them.
GetServices ==
  /\ pc = "poll"
  /\ Succeeds
  /\ todo' = Services
  /\ pc' = IF Services = {} THEN "saveRun" ELSE "next"
  /\ UNCHANGED <<env, db, attempt, activeEvents, svc, isDown, eventErr, pollErr, health>>

\* continue after a Sleep: the next turn asks for the services again.
GetServicesError ==
  /\ pc = "poll"
  /\ ReadError
  /\ health' = "error"
  /\ UNCHANGED <<env, db, pc, attempt, activeEvents, todo, svc, isDown, eventErr, pollErr>>

\* processService is called; syncActiveEvent returns at once if s was seen.
StartService(s) ==
  /\ pc = "next"
  /\ s \in todo
  /\ svc' = s
  /\ pc' = IF activeEvents[s] = NULL THEN "sync" ELSE "probe"
  /\ UNCHANGED <<env, db, attempt, activeEvents, todo, isDown, eventErr, pollErr, health, faults>>

\* Mutant of Sync: the map starts empty after a restart and is never loaded.
SyncForgets ==
  /\ pc = "sync"
  /\ Succeeds
  /\ activeEvents' = [activeEvents EXCEPT ![svc] = NoEvent]
  /\ pc' = "probe"
  /\ UNCHANGED <<env, db, attempt, todo, svc, isDown, eventErr, pollErr, health>>

Sync ==
  /\ pc = "sync"
  /\ Succeeds
  /\ activeEvents' = [activeEvents EXCEPT ![svc] = ActiveEvent(events, svc)]
  /\ pc' = "probe"
  /\ UNCHANGED <<env, db, attempt, todo, svc, isDown, eventErr, pollErr, health>>

\* Mutant of SyncError: the empty id returned with the error is stored.
SyncErrorSetsKey ==
  /\ pc = "sync"
  /\ ReadError
  /\ activeEvents' = [activeEvents EXCEPT ![svc] = NoEvent]
  /\ pc' = "probe"
  /\ UNCHANGED <<env, db, attempt, todo, svc, isDown, eventErr, pollErr, health>>

\* The key stays unset, the error is only logged, the service is still polled.
SyncError ==
  /\ pc = "sync"
  /\ ReadError
  /\ pc' = "probe"
  /\ UNCHANGED <<env, db, attempt, activeEvents, todo, svc, isDown, eventErr, pollErr, health>>

\* A Go map read of an absent key yields "".
KnownEvent(s) == IF activeEvents[s] = NULL THEN NoEvent ELSE activeEvents[s]

\* Collect, then the first test of handleDown or of handleRecovered.
Probe ==
  /\ pc = "probe"
  /\ isDown' = ~reach[svc]
  /\ pc' = CASE ~reach[svc] /\ KnownEvent(svc) = NoEvent -> "checkOpen"
             [] reach[svc] /\ KnownEvent(svc) # NoEvent -> "closeRow"
             [] OTHER -> "saveMetric"
  /\ UNCHANGED <<env, db, attempt, activeEvents, todo, svc, eventErr, pollErr, health, faults>>

EventFailed ==
  /\ eventErr' = TRUE
  /\ pc' = "saveMetric"
  /\ UNCHANGED activeEvents

\* RecordDown, first statement: look for an open row, adopt it if there is one.
CheckOpen ==
  /\ pc = "checkOpen"
  /\ \/ /\ Succeeds
        /\ IF ActiveEvent(events, svc) # NoEvent
           THEN /\ activeEvents' = [activeEvents EXCEPT ![svc] = ActiveEvent(events, svc)]
                /\ pc' = "saveMetric"
           ELSE /\ pc' = "insertDown"
                /\ UNCHANGED activeEvents
        /\ UNCHANGED eventErr
     \/ ReadError /\ EventFailed
  /\ UNCHANGED <<env, db, attempt, todo, svc, isDown, pollErr, health>>

\* RecordDown, second statement: INSERT ... RETURNING id.
RecordDown ==
  /\ pc = "insertDown"
  /\ LET written == InsertDown(events, svc, clock) IN
     \/ /\ Succeeds
        /\ events' = written
        /\ activeEvents' = [activeEvents EXCEPT ![svc] = Len(written)]
        /\ pc' = "saveMetric"
        /\ UNCHANGED eventErr
     \/ WriteError(events, written) /\ EventFailed
  /\ UNCHANGED <<env, metric, lastRun, attempt, todo, svc, isDown, pollErr, health>>

\* RecordRecovered, first statement: UPDATE ... WHERE id = openEventID.
CloseEvent ==
  /\ pc = "closeRow"
  /\ LET written == CloseRow(events, activeEvents[svc], clock) IN
     \/ /\ Succeeds
        /\ events' = written
        /\ pc' = "insertRecovered"
        /\ UNCHANGED <<activeEvents, eventErr>>
     \/ WriteError(events, written) /\ EventFailed
  /\ UNCHANGED <<env, metric, lastRun, attempt, todo, svc, isDown, pollErr, health>>

\* Mutant of RecordRecovered: the closed id stays in the map.
RecordRecoveredKeepsMap ==
  /\ pc = "insertRecovered"
  /\ LET written == InsertRecovered(events, svc, clock) IN
     \/ /\ Succeeds
        /\ events' = written
        /\ pc' = "saveMetric"
        /\ UNCHANGED <<activeEvents, eventErr>>
     \/ WriteError(events, written) /\ EventFailed
  /\ UNCHANGED <<env, metric, lastRun, attempt, todo, svc, isDown, pollErr, health>>

\* RecordRecovered, second statement.  Only its success clears the map.
RecordRecovered ==
  /\ pc = "insertRecovered"
  /\ LET written == InsertRecovered(events, svc, clock) IN
     \/ /\ Succeeds
        /\ events' = written
        /\ activeEvents' = [activeEvents EXCEPT ![svc] = NoEvent]
        /\ pc' = "saveMetric"
        /\ UNCHANGED eventErr
     \/ WriteError(events, written) /\ EventFailed
  /\ UNCHANGED <<env, metric, lastRun, attempt, todo, svc, isDown, pollErr, health>>

\* The metric is saved even when the event failed; either error fails the poll.
SaveMetric ==
  /\ pc = "saveMetric"
  /\ LET written == [metric EXCEPT ![svc] = IF isDown THEN "offline" ELSE "online"] IN
     \/ Succeeds /\ metric' = written /\ pollErr' = (pollErr \/ eventErr)
     \/ WriteError(metric, written) /\ pollErr' = TRUE
  /\ todo' = todo \ {svc}
  /\ pc' = IF todo' = {} THEN "saveRun" ELSE "next"
  /\ svc' = NULL /\ isDown' = FALSE /\ eventErr' = FALSE
  /\ UNCHANGED <<env, events, lastRun, attempt, activeEvents, health>>

\* Mutant of SaveCollectorRun: setPollDone leaves the status alone.
SaveCollectorRunKeepsStatus ==
  /\ pc = "saveRun"
  /\ LET written == IF pollErr THEN "error" ELSE "success" IN
     \/ Succeeds /\ lastRun' = written
     \/ WriteError(lastRun, written)
  /\ pollErr' = FALSE
  /\ pc' = "poll"
  /\ UNCHANGED <<env, events, metric, attempt, activeEvents, todo, svc, isDown,
                 eventErr, health>>

\* An error is only logged: setPollDone reports "ok" whatever the poll did.
SaveCollectorRun ==
  /\ pc = "saveRun"
  /\ LET written == IF pollErr THEN "error" ELSE "success" IN
     \/ Succeeds /\ lastRun' = written
     \/ WriteError(lastRun, written)
  /\ health' = "ok"
  /\ pollErr' = FALSE
  /\ pc' = "poll"
  /\ UNCHANGED <<env, events, metric, attempt, activeEvents, todo, svc, isDown, eventErr>>

-----------------------------------------------------------------------------
(* The environment.                                                        *)

\* The process is killed, or its health server stops it (log.Fatalf).
Crash ==
  /\ pc # "dead"
  /\ faults.crashes < MaxCrashes
  /\ faults' = [faults EXCEPT !.crashes = @ + 1]
  /\ Exit
  /\ UNCHANGED <<env, db>>

\* restart: unless-stopped
Restart ==
  /\ pc = "dead"
  /\ pc' = "connect"
  /\ UNCHANGED <<env, db, mem, faults>>

Flip(s) ==
  /\ clock < MaxFlips
  /\ reach' = [reach EXCEPT ![s] = ~@]
  /\ clock' = clock + 1
  /\ UNCHANGED <<db, pc, mem, faults>>

-----------------------------------------------------------------------------
Step ==
  \/ PingOk \/ PingRetry \/ GiveUp
  \/ GetServices \/ GetServicesError
  \/ \E s \in Services : StartService(s)
  \/ Sync \/ SyncError
  \/ Probe
  \/ CheckOpen \/ RecordDown
  \/ CloseEvent \/ RecordRecovered
  \/ SaveMetric \/ SaveCollectorRun

Next == Step \/ Crash \/ Restart \/ \E s \in Services : Flip(s)

Spec == Init /\ [][Next]_vars

\* The loop is sequential and every wait in it is bounded; docker restarts it.
FairSpec == Spec /\ WF_vars(Step) /\ WF_vars(Restart)

-----------------------------------------------------------------------------
(* Safety, whatever fails.                                                 *)

\* The outages of a service follow one another: each starts before it ends,
\* and all but the last are over before the next one starts.  RecordDown's
\* lookup has to keep this up against retries, lost answers and restarts, with
\* no unique index behind it; and RecordRecovered moves ended_at again each
\* time it is retried.
OutagesDisjoint ==
  \A s \in Services : \A e \in DownRows(events, s) :
    /\ events[e].ended # NULL => events[e].started <= events[e].ended
    /\ \A f \in DownRows(events, s) :
         e < f => events[e].ended # NULL /\ events[e].ended <= events[f].started

HeldEvent(s) == activeEvents[s] \notin {NULL, NoEvent}

\* The id the map holds for a service is that of the service's last outage: a
\* closed outage may still be held, but never one that another has followed.
MapHoldsLastOutage ==
  \A s \in Services : HeldEvent(s) =>
    /\ activeEvents[s] \in DownRows(events, s)
    /\ \A f \in DownRows(events, s) : f <= activeEvents[s]

\* What a statement takes for granted because of an earlier one: RecordDown
\* inserts only while no outage is open, although its lookup was a statement
\* ago; RecordRecovered announces only an outage that its UPDATE has closed.
StatementContext ==
  /\ pc \in {"sync", "probe", "checkOpen", "insertDown", "closeRow",
             "insertRecovered", "saveMetric"} => svc \in Services
  /\ pc \in {"checkOpen", "insertDown"} => ~HeldEvent(svc)
  /\ pc = "insertDown" => OpenRows(events, svc) = {}
  /\ pc \in {"closeRow", "insertRecovered"} => HeldEvent(svc)
  /\ pc = "insertRecovered" => events[activeEvents[svc]].ended # NULL

\* The API's active events (resolved = false AND ended_at IS NULL) are exactly
\* the outages the collector considers open ('down', ended_at IS NULL).
ActiveListIsOpenRows ==
  ActiveList(events) = UNION {OpenRows(events, s) : s \in Services}

\* Once an outage has been followed by another one, its row is history: no
\* retry and no restart of the collector changes it.
HistoryFrozen ==
  [][\A s \in Services : \A e, f \in DownRows(events, s) :
       e < f => events'[e] = events[e]]_vars

\* No timestamp lies in the future.
TimesPast ==
  \A e \in 1 .. Len(events) :
    /\ events[e].started <= clock
    /\ events[e].ended # NULL => events[e].ended <= clock

\* The inductive invariant that GoCollectorProofs proves.
IInv ==
  /\ TypeOK
  /\ OutagesDisjoint
  /\ MapHoldsLastOutage
  /\ StatementContext
  /\ TimesPast

-----------------------------------------------------------------------------
(* What depends on which faults happen.                                    *)

\* Unless an acknowledgement is lost, each 'recovered' row announces the end
\* of a closed outage of its own: retries and restarts announce none twice.
AnnouncedOnce ==
  faults.lost = 0 =>
    \A s \in Services : \A r \in RecoveredRows(events, s) :
      \E e \in DownRows(events, s) :
        /\ e < r
        /\ events[e].ended # NULL
        /\ \A q \in RecoveredRows(events, s) : ~(e < q /\ q < r)

StatementsWork == faults.fails = 0 /\ faults.lost = 0

\* With restarts but no failing statement, a finished poll leaves the tables in
\* agreement: the last metric of a service is offline iff its outage is open.
TablesAgree ==
  pc = "saveRun" /\ StatementsWork =>
    \A s \in Services : metric[s] = "offline" <=> OpenRows(events, s) # {}

\* With restarts but no failing statement, a service that stays down ends up
\* with an open outage.
OutageRecorded ==
  \A s \in Services :
    []StatementsWork /\ <>[]~reach[s] => <>[](OpenRows(events, s) # {})

\* Unless an acknowledgement is lost, a service that stays up ends up with its
\* outages closed, whatever statements failed and however often the process
\* was restarted.
RecoveryRecorded ==
  \A s \in Services :
    [](faults.lost = 0) /\ <>[]reach[s] => <>[](OpenRows(events, s) = {})

\* The poll loop survives every fault, and /health ends up saying so.
KeepsPolling == []<>(pc = "saveRun") /\ <>[](health = "ok")

-----------------------------------------------------------------------------
(* What the documentation says, and the code does not do.                  *)

\* README.md:71: a service that goes down opens a row in service_events.
DownOpensRow ==
  \A s \in Services : <>[]~reach[s] => <>[](OpenRows(events, s) # {})

\* README.md:72: a service that recovers has its row closed.
RecoveryClosesRow ==
  \A s \in Services : <>[]reach[s] => <>[](OpenRows(events, s) = {})

\* storage.go:34, README.md:72: RecordRecovered closes the open event and
\* inserts a 'recovered' event.
ClosedRowsAnnounced ==
  pc = "saveRun" =>
    \A s \in Services : \A e \in DownRows(events, s) \ OpenRows(events, s) :
      \E r \in RecoveredRows(events, s) : e < r

=============================================================================
