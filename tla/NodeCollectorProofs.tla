------------------------- MODULE NodeCollectorProofs -------------------------
(***************************************************************************)
(* The safety of NodeCollector for any services and any number of retries, *)
(* faults and fail-overs.  What is new against the Go collector is the     *)
(* replica: it is an earlier state of the same rows (ReplicaEarlier), so a *)
(* fail-over may open closed outages again and lose rows, but leaves the   *)
(* outages disjoint and the held ids where they were (HeldIsLast).         *)
(***************************************************************************)
EXTENDS NodeLog, EventStoreProofs

Held(s) == mem.activeEvents[s] \notin {NULL, NoEvent}

-----------------------------------------------------------------------------
(* The inductive invariant.                                                *)

\* The current service and its event are what the next statement expects, and
\* no more fail-overs are decided than may happen.
Context ==
  /\ replica # NULL => faults.failovers < MaxFailovers
  /\ pc \in {"sync", "probe", "checkOpen", "insertDown", "closeRow",
             "insertRecovered", "saveMetric"} => mem.svc \in Services
  /\ pc = "probe" => mem.activeEvents[mem.svc] # NULL
  /\ pc \in {"checkOpen", "insertDown"} =>
       mem.activeEvents[mem.svc] = NoEvent /\ mem.isDown = TRUE
  /\ pc \in {"closeRow", "insertRecovered"} =>
       Held(mem.svc) /\ mem.isDown = FALSE
  /\ pc = "saveMetric" =>
       /\ mem.isDown = TRUE => Held(mem.svc)
       /\ mem.isDown = FALSE => mem.activeEvents[mem.svc] = NoEvent

\* The outages of each service of a table follow one another.
Disjoint(tbl) ==
  \A s \in Services : \A e \in DownRows(tbl, s) :
    /\ tbl[e].ended # NULL => tbl[e].started <= tbl[e].ended
    /\ \A f \in DownRows(tbl, s) :
         e < f => tbl[e].ended # NULL /\ tbl[e].ended <= tbl[f].started

\* No timestamp of a table lies in the future.
Past(tbl) ==
  \A e \in 1 .. Len(tbl) :
    /\ tbl[e].started <= clock
    /\ tbl[e].ended # NULL => tbl[e].ended <= clock

\* The id held for a service is the last of its outages, or that of a row a
\* fail-over has lost, and then no outage has followed either.
HeldIsLast ==
  \A s \in Services : Held(s) =>
    /\ mem.activeEvents[s] \in 1 .. Len(events)
    /\ \/ mem.activeEvents[s] \in DownRows(events, s)
       \/ events[mem.activeEvents[s]] = LostRow /\ faults.failovers # 0
    /\ \A f \in DownRows(events, s) : f <= mem.activeEvents[s]

\* What a fail-over would go back to: an earlier state of the same rows.
ReplicaEarlier ==
  replica # NULL =>
    /\ Len(replica.events) <= Len(events)
    /\ \A e \in 1 .. Len(replica.events) :
         /\ replica.events[e].service = events[e].service
         /\ replica.events[e].type = events[e].type
    /\ Disjoint(replica.events)
    /\ Past(replica.events)

LogInv ==
  /\ Disjoint(events) /\ Past(events)
  /\ HeldIsLast
  /\ ReplicaEarlier
  /\ pc = "insertDown" => OpenRows(events, mem.svc) = {}

\* Before the first fail-over the map tells which outages are open, as far as
\* the acknowledgements have arrived and the statements have worked.
MapMatches ==
  faults.failovers = 0 =>
    /\ faults.torn = FALSE
    /\ pc = "insertRecovered" => OpenRows(events, mem.svc) = {}
    /\ faults.lost = 0 =>
         \A s \in Services :
           /\ mem.activeEvents[s] = NoEvent => OpenRows(events, s) = {}
           /\ Held(s) /\ faults.fails = 0 /\ (pc = "insertRecovered" => s # mem.svc)
                => OpenRows(events, s) # {}

IInv ==
  /\ TypeOK
  /\ Context
  /\ faults.torn = FALSE => LogInv
  /\ MapMatches

-----------------------------------------------------------------------------
(* Types.                                                                  *)

Gap == {LostRow}

NodeTable == TableWith(Gap)

LEMMA LostRowColumns ==
  /\ LostRow.service = NULL /\ LostRow.type = "down"
  /\ LostRow.started = 0 /\ LostRow.ended = 0
  /\ LostRow \notin Row
<1>1. /\ LostRow.service = NULL /\ LostRow.type = "down"
      /\ LostRow.started = 0 /\ LostRow.ended = 0
  BY DEF LostRow
<1>2. \A r \in Row : r.service \in Services
  BY DEF Row
<1> QED
  BY <1>1, <1>2, NullAssumption

\* What the columns of a row hold, gaps included.
LEMMA NodeRowColumns ==
  ASSUME NEW tbl \in NodeTable, NEW e \in 1 .. Len(tbl)
  PROVE  /\ tbl[e] \in Row \/ tbl[e] = LostRow
         /\ tbl[e].started \in Nat
         /\ tbl[e].ended \in Nat \cup {NULL}
         /\ tbl[e].service \in Services => tbl[e] \in Row
         /\ tbl[e] = LostRow <=> tbl[e].service = NULL
<1>1. tbl[e] \in Row \/ tbl[e] = LostRow
  BY DEF NodeTable, TableWith, Gap
<1>2. CASE tbl[e] \in Row
  BY <1>2, NullAssumption, LostRowColumns DEF Row
<1>3. CASE tbl[e] = LostRow
  BY <1>3, NullAssumption, LostRowColumns
<1> QED
  BY <1>1, <1>2, <1>3

\* What the statements do to such tables.
LEMMA NodeStatements ==
  ASSUME NEW tbl \in NodeTable, NEW now \in Nat
  PROVE  /\ \A s \in Services :
              /\ InsertDown(tbl, s, now) \in NodeTable
              /\ DownAdded(InsertDown(tbl, s, now), tbl, s, now)
              /\ InsertRecovered(tbl, s, now) \in NodeTable
              /\ RecoveredAdded(InsertRecovered(tbl, s, now), tbl, s, now)
         /\ \A e \in 1 .. Len(tbl) : tbl[e] \in Row =>
              /\ CloseRow(tbl, e, now) \in NodeTable
              /\ RowEnded(CloseRow(tbl, e, now), tbl, e, now)
  BY InsertDownAny, InsertRecoveredAny, CloseRowAny DEF NodeTable

\* The parts of the database.
LEMMA DatabaseParts ==
  ASSUME NEW d \in Database
  PROVE  /\ d.events \in NodeTable
         /\ \A tbl \in NodeTable : /\ [d EXCEPT !.events = tbl] \in Database
                                   /\ [d EXCEPT !.events = tbl].events = tbl
         /\ \A s \in Services, status \in {"online", "offline"} :
              /\ [d EXCEPT !.metric[s] = status] \in Database
              /\ [d EXCEPT !.metric[s] = status].events = d.events
         /\ \A r \in {"success", "error"} :
              /\ [d EXCEPT !.lastRun = r] \in Database
              /\ [d EXCEPT !.lastRun = r].events = d.events
  BY DEF Database, NodeTable, TableWith, Gap

\* The map with another id for the service at hand.
LEMMA MapSet ==
  ASSUME mem \in Memory, mem.svc \in Services, NEW id \in Nat,
         mem' = [mem EXCEPT !.activeEvents[mem.svc] = id]
  PROVE  /\ mem' \in Memory
         /\ mem'.svc = mem.svc /\ mem'.isDown = mem.isDown
         /\ mem'.activeEvents[mem.svc] = id
         /\ \A s \in Services \ {mem.svc} : mem'.activeEvents[s] = mem.activeEvents[s]
  BY DEF Memory

\* The end of processService.
LEMMA ServiceOver ==
  ASSUME mem \in Memory, NextService(TRUE) \/ NextService(FALSE)
  PROVE  /\ mem' \in Memory
         /\ mem'.activeEvents = mem.activeEvents
         /\ pc' \in {"saveRun", "next"}
<1>1. mem.pollErr \in BOOLEAN /\ (mem.pollErr \/ TRUE) \in BOOLEAN
      /\ (mem.pollErr \/ FALSE) \in BOOLEAN
  BY DEF Memory
<1>2. PICK err \in BOOLEAN :
        mem' = [mem EXCEPT !.todo = @ \ {mem.svc}, !.svc = NULL, !.isDown = FALSE,
                           !.pollErr = err]
  BY <1>1 DEF NextService
<1>3. mem' \in Memory /\ mem'.activeEvents = mem.activeEvents
  BY <1>2 DEF Memory
<1> QED
  BY <1>3 DEF NextService

\* The memory of a process that has ended.
LEMMA FreshMemory ==
  /\ Fresh \in Memory
  /\ \A s \in Services : Fresh.activeEvents[s] = NULL
<1>1. 0 \in 0 .. Retries
  BY NodeBoundsAssumption
<1> QED
  BY <1>1 DEF Fresh, Memory

\* However a statement ends, the counters stay within their bounds.
LEMMA FaultsType ==
  ASSUME TypeOK, Succeeds \/ Fails \/ AckLost
  PROVE  /\ faults' \in [fails : 0 .. MaxFails, lost : 0 .. MaxLost,
                         crashes : 0 .. MaxCrashes, failovers : 0 .. MaxFailovers,
                         outlived : BOOLEAN, torn : BOOLEAN]
         /\ faults'.torn = faults.torn
         /\ faults'.failovers = faults.failovers
         /\ faults'.fails = 0 => faults.fails = 0
         /\ faults'.lost = 0 => faults.lost = 0
         /\ AckLost => faults'.lost # 0
  BY NodeBoundsAssumption DEF TypeOK, Succeeds, Fails, AckLost

\* The UPDATE by id leaves a table of the same rows.
LEMMA ClosedType ==
  ASSUME TypeOK, NEW id \in Nat
  PROVE  Closed(id) \in Database
<1>0. db \in Database /\ clock \in Nat
  BY NodeBoundsAssumption DEF TypeOK
<1>1. db \in Database /\ events \in NodeTable /\ clock \in Nat
  BY <1>0, DatabaseParts DEF events
<1>2. CASE id \in 1 .. Len(events) /\ events[id] # LostRow
  <2>1. events[id] \in Row
    BY <1>1, <1>2, NodeRowColumns
  <2>2. CloseRow(events, id, clock) \in NodeTable
    BY <1>1, <1>2, <2>1, NodeStatements
  <2> QED
    BY <1>1, <1>2, <2>2, DatabaseParts DEF Closed, events
<1>3. CASE id \notin 1 .. Len(events)
  <2>1. CloseRow(events, id, clock) = events
    BY <1>3 DEF CloseRow
  <2> QED
    BY <1>1, <2>1, DatabaseParts DEF Closed, events
<1>4. CASE events[id] = LostRow
  BY <1>1, <1>4 DEF Closed
<1> QED
  BY <1>2, <1>3, <1>4

\* What the state is made of.
LEMMA Parts ==
  ASSUME TypeOK
  PROVE  /\ db \in Database /\ mem \in Memory /\ clock \in Nat
         /\ events \in NodeTable /\ Len(events) \in Nat
         /\ \A s \in Services : mem.activeEvents[s] \in Nat \cup {NULL}
<1>1. db \in Database /\ mem \in Memory /\ clock \in Nat
  BY NodeBoundsAssumption DEF TypeOK
<1>2. events \in NodeTable
  BY <1>1, DatabaseParts DEF events
<1>3. Len(events) \in Nat
  BY <1>2 DEF NodeTable, TableWith, Gap
<1> QED
  BY <1>1, <1>2, <1>3 DEF Memory

-----------------------------------------------------------------------------
(* What each statement of the loop does, whichever way it ends.            *)

\* The statement fails, or its acknowledgement is lost: processService ends
\* with nothing learnt.
Interrupted ==
  /\ Fails \/ AckLost
  /\ mem' \in Memory /\ mem'.activeEvents = mem.activeEvents
  /\ pc' \in {"saveRun", "next"}

\* The statement is acknowledged, and the id now held for svc is id.
Learns(id) ==
  /\ Succeeds
  /\ mem' \in Memory /\ mem'.svc = mem.svc /\ mem'.isDown = mem.isDown
  /\ mem'.activeEvents[mem.svc] = id
  /\ \A s \in Services \ {mem.svc} : mem'.activeEvents[s] = mem.activeEvents[s]

LEMMA Lookup ==
  ASSUME TypeOK, mem.svc \in Services
  PROVE  ActiveEvent(events, mem.svc) \in Nat
<1>1. events \in Seq(Row \cup Gap)
  BY Parts DEF NodeTable, TableWith, Gap
<1> QED
  BY <1>1, ActiveEventAny

LEMMA SyncEffect ==
  ASSUME TypeOK, Context, Sync
  PROVE  /\ db' = db /\ UNCHANGED <<reach, clock, replica, health>>
         /\ mem.svc \in Services
         /\ \/ Interrupted /\ Fails
            \/ Learns(ActiveEvent(events, mem.svc)) /\ pc' = "probe"
<1>1. mem.svc \in Services
  BY DEF Context, Sync
<1>2. mem \in Memory
  BY DEF TypeOK
<1>3. CASE Fails /\ Thrown
  BY <1>1, <1>2, <1>3, ServiceOver DEF Sync, Thrown, Interrupted, Environment
<1>4. CASE /\ Succeeds /\ pc' = "probe"
           /\ mem' = [mem EXCEPT !.activeEvents[mem.svc] = ActiveEvent(events, mem.svc)]
  <2>1. Learns(ActiveEvent(events, mem.svc))
    BY <1>1, <1>2, <1>4, Lookup, MapSet DEF Learns
  <2> QED
    BY <1>1, <1>4, <2>1 DEF Sync, Environment
<1> QED
  BY <1>3, <1>4 DEF Sync

LEMMA CheckOpenEffect ==
  ASSUME TypeOK, Context, CheckOpen
  PROVE  /\ db' = db /\ UNCHANGED <<reach, clock, replica, health>>
         /\ mem.svc \in Services /\ mem.isDown = TRUE
         /\ \/ Interrupted /\ Fails
            \/ /\ Learns(ActiveEvent(events, mem.svc))
               /\ pc' = IF ActiveEvent(events, mem.svc) = NoEvent
                        THEN "insertDown" ELSE "saveMetric"
<1>1. mem.svc \in Services /\ mem.isDown = TRUE
  BY DEF Context, CheckOpen
<1>2. mem \in Memory
  BY DEF TypeOK
<1>3. CASE Fails /\ Thrown
  BY <1>1, <1>2, <1>3, ServiceOver DEF CheckOpen, Thrown, Interrupted, Environment
<1>4. CASE /\ Succeeds
           /\ mem' = [mem EXCEPT !.activeEvents[mem.svc] = ActiveEvent(events, mem.svc)]
           /\ pc' = IF ActiveEvent(events, mem.svc) = NoEvent
                    THEN "insertDown" ELSE "saveMetric"
  <2>1. Learns(ActiveEvent(events, mem.svc))
    BY <1>1, <1>2, <1>4, Lookup, MapSet DEF Learns
  <2> QED
    BY <1>1, <1>4, <2>1 DEF CheckOpen, Environment
<1> QED
  BY <1>3, <1>4 DEF CheckOpen

LEMMA RecordDownEffect ==
  ASSUME TypeOK, Context, RecordDown
  PROVE  /\ db' \in Database /\ UNCHANGED <<reach, clock, replica, health>>
         /\ mem.svc \in Services /\ mem.isDown = TRUE
         /\ \/ Interrupted /\ events' = events
            \/ Interrupted /\ AckLost /\ events' = InsertDown(events, mem.svc, clock)
            \/ /\ Learns(Len(events) + 1) /\ pc' = "saveMetric"
               /\ events' = InsertDown(events, mem.svc, clock)
<1> DEFINE written == [db EXCEPT !.events = InsertDown(@, mem.svc, clock)]
<1>1. mem.svc \in Services /\ mem.isDown = TRUE
  BY DEF Context, RecordDown
<1>2. mem \in Memory /\ db \in Database /\ clock \in Nat /\ events \in NodeTable
  BY Parts
<1>3. /\ InsertDown(events, mem.svc, clock) \in NodeTable
      /\ Len(InsertDown(events, mem.svc, clock)) = Len(events) + 1
      /\ Len(events) + 1 \in Nat
  BY <1>1, <1>2, NodeStatements DEF DownAdded
<1>4. written \in Database /\ written.events = InsertDown(events, mem.svc, clock)
  BY <1>2, <1>3, DatabaseParts DEF events
<1>5. UNCHANGED <<reach, clock, replica, health>>
  BY DEF RecordDown, Environment
<1>6. CASE WriteError(written) /\ Thrown
  <2>1. Interrupted
    BY <1>2, <1>6, ServiceOver DEF Thrown, Interrupted, WriteError
  <2> QED
    BY <1>1, <1>2, <1>4, <1>5, <1>6, <2>1 DEF WriteError, events
<1>7. CASE /\ Succeeds /\ db' = written /\ pc' = "saveMetric"
           /\ mem' = [mem EXCEPT !.activeEvents[mem.svc] = Len(written.events)]
  <2>1. Learns(Len(events) + 1)
    BY <1>1, <1>2, <1>3, <1>4, <1>7, MapSet DEF Learns
  <2> QED
    BY <1>1, <1>4, <1>5, <1>7, <2>1 DEF events
<1> QED
  BY <1>6, <1>7 DEF RecordDown

\* CloseEvent leaves the map alone: the id of a closed outage is still held.
LEMMA CloseEventEffect ==
  ASSUME TypeOK, Context, CloseEvent
  PROVE  /\ db' \in Database /\ UNCHANGED <<reach, clock, replica, health>>
         /\ mem.svc \in Services /\ mem.activeEvents[mem.svc] \in Nat
         /\ Held(mem.svc) /\ mem.isDown = FALSE
         /\ \/ Interrupted /\ db' = db
            \/ Interrupted /\ AckLost /\ db' = Closed(mem.activeEvents[mem.svc])
            \/ /\ Succeeds /\ mem' = mem /\ pc' = "insertRecovered"
               /\ db' = Closed(mem.activeEvents[mem.svc])
<1> DEFINE written == Closed(mem.activeEvents[mem.svc])
<1>1. mem.svc \in Services /\ Held(mem.svc) /\ mem.isDown = FALSE
  BY DEF Context, CloseEvent
<1>2. mem.activeEvents[mem.svc] \in Nat
  BY <1>1, Parts DEF Held
<1>3. written \in Database
  BY <1>2, ClosedType
<1>4. mem \in Memory /\ db \in Database
  BY Parts
<1>5. UNCHANGED <<reach, clock, replica, health>>
  BY DEF CloseEvent, Environment
<1>6. CASE WriteError(written) /\ Thrown
  <2>1. Interrupted
    BY <1>4, <1>6, ServiceOver DEF Thrown, Interrupted, WriteError
  <2> QED
    BY <1>1, <1>2, <1>3, <1>4, <1>5, <1>6, <2>1 DEF WriteError
<1>7. CASE Succeeds /\ db' = written /\ pc' = "insertRecovered" /\ UNCHANGED mem
  BY <1>1, <1>2, <1>3, <1>5, <1>7
<1> QED
  BY <1>6, <1>7 DEF CloseEvent

LEMMA RecordRecoveredEffect ==
  ASSUME TypeOK, Context, RecordRecovered
  PROVE  /\ db' \in Database /\ UNCHANGED <<reach, clock, replica, health>>
         /\ mem.svc \in Services /\ Held(mem.svc) /\ mem.isDown = FALSE
         /\ \/ Interrupted /\ events' = events
            \/ Interrupted /\ AckLost /\ events' = InsertRecovered(events, mem.svc, clock)
            \/ /\ Learns(NoEvent) /\ pc' = "saveMetric"
               /\ events' = InsertRecovered(events, mem.svc, clock)
<1> DEFINE written == [db EXCEPT !.events = InsertRecovered(@, mem.svc, clock)]
<1>1. mem.svc \in Services /\ Held(mem.svc) /\ mem.isDown = FALSE
  BY DEF Context, RecordRecovered
<1>2. mem \in Memory /\ db \in Database /\ clock \in Nat /\ events \in NodeTable
  BY Parts
<1>3. InsertRecovered(events, mem.svc, clock) \in NodeTable /\ NoEvent \in Nat
  BY <1>1, <1>2, NodeStatements DEF NoEvent
<1>4. written \in Database /\ written.events = InsertRecovered(events, mem.svc, clock)
  BY <1>2, <1>3, DatabaseParts DEF events
<1>5. UNCHANGED <<reach, clock, replica, health>>
  BY DEF RecordRecovered, Environment
<1>6. CASE WriteError(written) /\ Thrown
  <2>1. Interrupted
    BY <1>2, <1>6, ServiceOver DEF Thrown, Interrupted, WriteError
  <2> QED
    BY <1>1, <1>2, <1>4, <1>5, <1>6, <2>1 DEF WriteError, events
<1>7. CASE /\ Succeeds /\ db' = written /\ pc' = "saveMetric"
           /\ mem' = [mem EXCEPT !.activeEvents[mem.svc] = NoEvent]
  <2>1. Learns(NoEvent)
    BY <1>1, <1>2, <1>3, <1>7, MapSet DEF Learns
  <2> QED
    BY <1>1, <1>4, <1>5, <1>7, <2>1 DEF events
<1> QED
  BY <1>6, <1>7 DEF RecordRecovered

\* What remains of the loop leaves service_events and the map alone.
LEMMA SaveMetricEffect ==
  ASSUME TypeOK, Context, SaveMetric
  PROVE  /\ db' \in Database /\ UNCHANGED <<reach, clock, replica, health>>
         /\ events' = events
         /\ Succeeds \/ Fails \/ AckLost
         /\ mem' \in Memory /\ mem'.activeEvents = mem.activeEvents
         /\ pc' \in {"saveRun", "next"}
<1> DEFINE status == IF mem.isDown THEN "offline" ELSE "online"
           written == [db EXCEPT !.metric[mem.svc] = status]
<1>1. mem.svc \in Services /\ status \in {"online", "offline"}
  BY DEF Context, SaveMetric
<1>2. mem \in Memory /\ db \in Database
  BY Parts
<1> HIDE DEF status
<1>3. written \in Database /\ written.events = events
  BY <1>1, <1>2, DatabaseParts DEF events
<1>4. /\ UNCHANGED <<reach, clock, replica, health>> /\ NextService(FALSE)
      /\ (Succeeds /\ db' = written) \/ WriteError(written)
  BY DEF SaveMetric, Environment, status
<1> HIDE DEF written
<1>5. db' \in {db, written} /\ (Succeeds \/ Fails \/ AckLost)
  BY <1>4 DEF WriteError
<1> QED
  BY <1>2, <1>3, <1>4, <1>5, ServiceOver DEF events

LEMMA SaveCollectorRunEffect ==
  ASSUME TypeOK, Context, SaveCollectorRun
  PROVE  /\ db' \in Database /\ UNCHANGED <<reach, clock, replica>>
         /\ events' = events
         /\ Succeeds \/ Fails \/ AckLost
         /\ mem' \in Memory /\ mem'.activeEvents = mem.activeEvents
         /\ pc' = "poll" /\ health' = "ok"
<1> DEFINE result == IF mem.pollErr THEN "error" ELSE "success"
           written == [db EXCEPT !.lastRun = result]
<1>1. mem \in Memory /\ db \in Database
  BY Parts
<1>2. result \in {"success", "error"}
  OBVIOUS
<1> HIDE DEF result
<1>3. written \in Database /\ written.events = events
  BY <1>1, <1>2, DatabaseParts DEF events
<1>4. /\ UNCHANGED <<reach, clock, replica>>
      /\ pc' = "poll" /\ health' = "ok" /\ mem' = [mem EXCEPT !.pollErr = FALSE]
      /\ (Succeeds /\ db' = written) \/ WriteError(written)
  BY DEF SaveCollectorRun, Environment, result
<1>5. mem' \in Memory /\ mem'.activeEvents = mem.activeEvents
  BY <1>1, <1>4 DEF Memory
<1> HIDE DEF written
<1>6. db' \in {db, written} /\ (Succeeds \/ Fails \/ AckLost)
  BY <1>4 DEF WriteError
<1> QED
  BY <1>1, <1>3, <1>4, <1>5, <1>6 DEF events

-----------------------------------------------------------------------------
(* Type correctness.                                                       *)

LEMMA TypeInit == Init => TypeOK /\ Context
<1> SUFFICES ASSUME Init PROVE TypeOK /\ Context
  OBVIOUS
<1>1. db \in Database
  BY DEF Init, Database, Row
<1>2. mem \in Memory
  BY FreshMemory DEF Init
<1> QED
  BY <1>1, <1>2, NodeBoundsAssumption DEF Init, TypeOK, Context

LEMMA FailoverType ==
  ASSUME TypeOK, Failover
  PROVE  /\ db' \in Database /\ Len(events') = Len(events)
         /\ replica # NULL /\ replica.events \in NodeTable
         /\ \A e \in 1 .. Len(events) :
              events'[e] = IF e <= Len(replica.events) THEN replica.events[e] ELSE LostRow
<1> DEFINE tbl == [e \in 1 .. Len(events) |->
                     IF e <= Len(replica.events) THEN replica.events[e] ELSE LostRow]
<1>1. replica \in Database /\ replica # NULL
  BY DEF TypeOK, Failover
<1>2. replica.events \in NodeTable
  BY <1>1, DatabaseParts
<1>3. Len(events) \in Nat
  BY Parts
<1>4. tbl \in NodeTable /\ Len(tbl) = Len(events)
  BY <1>2, <1>3 DEF NodeTable, TableWith, Gap
<1>5. db' = [replica EXCEPT !.events = tbl]
  BY DEF Failover
<1> HIDE DEF tbl
<1>6. db' \in Database /\ events' = tbl
  BY <1>1, <1>4, <1>5, DatabaseParts DEF events
<1> QED
  BY <1>1, <1>2, <1>4, <1>6 DEF tbl

LEMMA TypeStep ==
  ASSUME TypeOK, Context, [Next]_vars
  PROVE  TypeOK' /\ Context'
<1> USE DEF Environment
<1>1. CASE UNCHANGED vars
  BY <1>1 DEF TypeOK, Context, Held, vars
<1>2. CASE Connect
  <2>1. mem' \in Memory
    BY <1>2, NodeBoundsAssumption DEF Connect, TypeOK, Memory
  <2> QED
    BY <1>2, <2>1 DEF Connect, TypeOK, Context
<1>3. CASE GiveUp
  BY <1>3, FreshMemory DEF GiveUp, Exit, TypeOK, Context
<1>4. CASE GetServices
  <2>1. mem' \in Memory
    BY <1>4 DEF GetServices, TypeOK, Memory
  <2>2. Succeeds \/ Fails
    BY <1>4 DEF GetServices
  <2> QED
    BY <1>4, <2>1, <2>2, FaultsType DEF GetServices, TypeOK, Context
<1>5. ASSUME NEW s \in Services, StartService(s) PROVE TypeOK' /\ Context'
  <2>1. /\ mem' \in Memory /\ mem'.svc = s
        /\ mem'.activeEvents[s] = mem.activeEvents[s]
    BY <1>5 DEF StartService, TypeOK, Memory
  <2> QED
    BY <1>5, <2>1 DEF StartService, TypeOK, Context
<1>6. CASE Sync
  <2>1. ActiveEvent(events, mem.svc) \in Nat
    BY <1>6, SyncEffect, Lookup
  <2>2. TypeOK'
    BY <1>6, SyncEffect, FaultsType DEF TypeOK, Interrupted, Learns
  <2>3. Context'
    BY <1>6, <2>1, SyncEffect, FaultsType, NullAssumption DEF Context, Interrupted, Learns
  <2> QED
    BY <2>2, <2>3
<1>7. CASE Probe
  <2>1. /\ mem' = [mem EXCEPT !.isDown = ~reach[mem.svc]]
        /\ mem.svc \in Services /\ mem.activeEvents[mem.svc] # NULL
    BY <1>7 DEF Probe, Context
  <2>2. /\ mem' \in Memory /\ mem'.svc = mem.svc
        /\ mem'.activeEvents = mem.activeEvents /\ mem'.isDown = ~reach[mem.svc]
    BY <2>1 DEF TypeOK, Memory
  <2>3. TypeOK'
    BY <1>7, <2>2 DEF Probe, TypeOK
  <2>4. CASE reach[mem.svc] = TRUE
    <3>1. mem'.isDown = FALSE
      BY <2>2, <2>4
    <3>2. IF mem.activeEvents[mem.svc] = NoEvent THEN pc' = "saveMetric" ELSE pc' = "closeRow"
      BY <1>7, <2>4 DEF Probe
    <3>3. UNCHANGED <<replica, faults>>
      BY <1>7 DEF Probe
    <3> QED
      BY <2>1, <2>2, <2>3, <3>1, <3>2, <3>3 DEF Context, Held
  <2>5. CASE reach[mem.svc] = FALSE
    <3>1. mem'.isDown = TRUE
      BY <2>2, <2>5
    <3>2. IF mem.activeEvents[mem.svc] = NoEvent THEN pc' = "checkOpen" ELSE pc' = "saveMetric"
      BY <1>7, <2>5 DEF Probe
    <3>3. UNCHANGED <<replica, faults>>
      BY <1>7 DEF Probe
    <3> QED
      BY <2>1, <2>2, <2>3, <3>1, <3>2, <3>3 DEF Context, Held
  <2> QED
    BY <2>1, <2>3, <2>4, <2>5 DEF TypeOK
<1>8. CASE CheckOpen
  <2>1. TypeOK'
    BY <1>8, CheckOpenEffect, FaultsType DEF TypeOK, Interrupted, Learns
  <2>2. ActiveEvent(events, mem.svc) \in Nat
    BY <1>8, CheckOpenEffect, Lookup
  <2>3. Context'
    BY <1>8, <2>2, CheckOpenEffect, FaultsType, NullAssumption
    DEF Context, Interrupted, Learns, Held
  <2> QED
    BY <2>1, <2>3
<1>9. CASE RecordDown
  <2>1. TypeOK'
    BY <1>9, RecordDownEffect, FaultsType DEF TypeOK, Interrupted, Learns
  <2>2. Len(events) + 1 \notin {NULL, NoEvent}
    BY Parts, NullAssumption DEF NoEvent
  <2>3. Context'
    BY <1>9, <2>2, RecordDownEffect, FaultsType DEF Context, Interrupted, Learns, Held
  <2> QED
    BY <2>1, <2>3
<1>10. CASE CloseEvent
  <2>1. TypeOK'
    BY <1>10, CloseEventEffect, FaultsType DEF TypeOK, Interrupted
  <2>2. Context'
    BY <1>10, CloseEventEffect, FaultsType DEF Context, Interrupted, Held
  <2> QED
    BY <2>1, <2>2
<1>11. CASE RecordRecovered
  BY <1>11, RecordRecoveredEffect, FaultsType DEF TypeOK, Context, Interrupted, Learns
<1>12. CASE SaveMetric
  BY <1>12, SaveMetricEffect, FaultsType DEF TypeOK, Context
<1>13. CASE SaveCollectorRun
  BY <1>13, SaveCollectorRunEffect, FaultsType DEF TypeOK, Context
<1>14. CASE Crash
  BY <1>14, FreshMemory, NodeBoundsAssumption DEF Crash, Exit, TypeOK, Context
<1>15. CASE Restart
  BY <1>15 DEF Restart, TypeOK, Context
<1>16. ASSUME NEW s \in Services, Flip(s) PROVE TypeOK' /\ Context'
  BY <1>16, NodeBoundsAssumption DEF Flip, TypeOK, Context, Held
<1>17. CASE LastReplicated
  BY <1>17 DEF LastReplicated, TypeOK, Context, Held
<1>18. CASE Failover
  <2>1. db' \in Database
    BY <1>18, FailoverType
  <2>2. faults' \in [fails : 0 .. MaxFails, lost : 0 .. MaxLost,
                     crashes : 0 .. MaxCrashes, failovers : 0 .. MaxFailovers,
                     outlived : BOOLEAN, torn : BOOLEAN]
    <3>1. PICK t \in BOOLEAN : faults' =
            [faults EXCEPT !.failovers = @ + 1, !.outlived = TRUE, !.torn = t]
      BY <1>18 DEF Failover, TypeOK
    <3>2. faults.failovers < MaxFailovers
      BY <1>18 DEF Failover, Context
    <3>3. faults.failovers \in Nat /\ faults.failovers + 1 \in 0 .. MaxFailovers
      BY <3>2, NodeBoundsAssumption DEF TypeOK
    <3> QED
      BY <3>1, <3>3 DEF TypeOK
  <2>3. TypeOK'
    BY <1>18, <2>1, <2>2 DEF Failover, TypeOK
  <2>4. Context'
    BY <1>18 DEF Failover, Context, Held
  <2> QED
    BY <2>3, <2>4
<1> QED
  BY <1>1, <1>2, <1>3, <1>4, <1>5, <1>6, <1>7, <1>8, <1>9, <1>10, <1>11, <1>12,
     <1>13, <1>14, <1>15, <1>16, <1>17, <1>18 DEF Next, Step

\* The collector's variables and tables keep their types.
THEOREM TypeCorrect == Spec => []TypeOK
<1>1. Init => TypeOK /\ Context
  BY TypeInit
<1>2. TypeOK /\ Context /\ [Next]_vars => (TypeOK /\ Context)'
  BY TypeStep
<1> QED
  BY <1>1, <1>2, PTL DEF Spec

-----------------------------------------------------------------------------
(* Disjoint and Past, statement by statement.                              *)

LEMMA InsertDownDisjoint ==
  ASSUME NEW tbl \in NodeTable, NEW s \in Services, clock \in Nat,
         Disjoint(tbl), Past(tbl), OpenRows(tbl, s) = {}
  PROVE  Disjoint(InsertDown(tbl, s, clock)) /\ Past(InsertDown(tbl, s, clock))
<1> DEFINE new == InsertDown(tbl, s, clock)
<1> HIDE DEF new
<1>1. /\ Len(tbl) \in Nat /\ Len(new) = Len(tbl) + 1
      /\ \A e \in 1 .. Len(tbl) : new[e] = tbl[e]
      /\ new[Len(tbl) + 1].started = clock /\ new[Len(tbl) + 1].ended = NULL
      /\ \A u \in Services : DownRows(new, u) = DownRows(tbl, u) \cup New(tbl, u, s)
  <2>1. DownAdded(new, tbl, s, clock)
    BY NodeStatements DEF new
  <2> QED
    BY <2>1 DEF DownAdded
<1>2. Past(new)
  BY <1>1 DEF Past
<1>3. \A u \in Services : \A e \in DownRows(tbl, u) : e \in 1 .. Len(tbl)
  BY DEF DownRows
<1>4. ASSUME NEW u \in Services, NEW e \in DownRows(new, u)
      PROVE  /\ new[e].ended # NULL => new[e].started <= new[e].ended
             /\ \A f \in DownRows(new, u) :
                  e < f => new[e].ended # NULL /\ new[e].ended <= new[f].started
  <2>1. CASE e \in DownRows(tbl, u)
    <3>1. new[e] = tbl[e] /\ e \in 1 .. Len(tbl)
      BY <1>1, <1>3, <2>1
    <3>2. tbl[e].ended # NULL => tbl[e].started <= tbl[e].ended
      BY <2>1 DEF Disjoint
    <3>3. ASSUME NEW f \in DownRows(new, u), e < f
          PROVE  new[e].ended # NULL /\ new[e].ended <= new[f].started
      <4>1. CASE f \in DownRows(tbl, u)
        BY <1>1, <1>3, <2>1, <3>1, <3>3, <4>1 DEF Disjoint
      <4>2. CASE f \notin DownRows(tbl, u)
        <5>1. f = Len(tbl) + 1 /\ u = s
          BY <1>1, <4>2 DEF New
        <5>2. tbl[e].ended # NULL
          BY <2>1, <5>1 DEF OpenRows
        <5> QED
          BY <1>1, <3>1, <5>1, <5>2 DEF Past
      <4> QED
        BY <4>1, <4>2
    <3> QED
      BY <3>1, <3>2, <3>3
  <2>2. CASE e \notin DownRows(tbl, u)
    <3>1. e = Len(tbl) + 1
      BY <1>1, <2>2 DEF New
    <3>2. \A f \in DownRows(new, u) : ~(e < f)
      BY <1>1, <1>3, <3>1 DEF New
    <3> QED
      BY <1>1, <3>1, <3>2
  <2> QED
    BY <2>1, <2>2
<1> QED
  BY <1>2, <1>4 DEF Disjoint, new

LEMMA InsertRecoveredDisjoint ==
  ASSUME NEW tbl \in NodeTable, NEW s \in Services, clock \in Nat,
         Disjoint(tbl), Past(tbl)
  PROVE  Disjoint(InsertRecovered(tbl, s, clock)) /\ Past(InsertRecovered(tbl, s, clock))
<1> DEFINE new == InsertRecovered(tbl, s, clock)
<1> HIDE DEF new
<1>1. /\ Len(tbl) \in Nat /\ Len(new) = Len(tbl) + 1
      /\ \A e \in 1 .. Len(tbl) : new[e] = tbl[e]
      /\ new[Len(tbl) + 1].started = clock /\ new[Len(tbl) + 1].ended = NULL
      /\ \A u \in Services : DownRows(new, u) = DownRows(tbl, u)
  <2>1. RecoveredAdded(new, tbl, s, clock)
    BY NodeStatements DEF new
  <2> QED
    BY <2>1 DEF RecoveredAdded
<1>2. Past(new)
  BY <1>1 DEF Past
<1>3. \A u \in Services : \A e \in DownRows(tbl, u) : new[e] = tbl[e]
  BY <1>1 DEF DownRows
<1> QED
  BY <1>1, <1>2, <1>3 DEF Disjoint, new

\* Closing the last outage of a service, whether it was open or not.
LEMMA CloseRowDisjoint ==
  ASSUME NEW tbl \in NodeTable, NEW s \in Services, NEW e \in DownRows(tbl, s),
         \A f \in DownRows(tbl, s) : f <= e,
         clock \in Nat, Disjoint(tbl), Past(tbl)
  PROVE  Disjoint(CloseRow(tbl, e, clock)) /\ Past(CloseRow(tbl, e, clock))
<1> DEFINE new == CloseRow(tbl, e, clock)
<1> HIDE DEF new
<1>1. e \in 1 .. Len(tbl) /\ Len(tbl) \in Nat /\ tbl[e].service = s
  BY DEF DownRows, NodeTable, TableWith, Gap
<1>2. tbl[e] \in Row /\ tbl[e].started \in Nat
  BY <1>1, NodeRowColumns
<1>3. /\ Len(new) = Len(tbl)
      /\ \A f \in 1 .. Len(tbl) : f # e => new[f] = tbl[f]
      /\ new[e].started = tbl[e].started /\ new[e].ended = clock
      /\ \A u \in Services : DownRows(new, u) = DownRows(tbl, u)
  <2>1. RowEnded(new, tbl, e, clock)
    BY <1>1, <1>2, NodeStatements DEF new
  <2> QED
    BY <2>1 DEF RowEnded
<1>4. tbl[e].started <= clock
  BY <1>1 DEF Past
<1>5. Past(new)
  BY <1>3, <1>4 DEF Past
<1>6. \A u \in Services : \A f \in DownRows(tbl, u) :
        f \in 1 .. Len(tbl) /\ tbl[f].service = u
  BY DEF DownRows
<1>7. ASSUME NEW u \in Services, NEW x \in DownRows(tbl, u)
      PROVE  /\ new[x].ended # NULL => new[x].started <= new[x].ended
             /\ \A f \in DownRows(tbl, u) :
                  x < f => new[x].ended # NULL /\ new[x].ended <= new[f].started
  <2>1. CASE x = e
    <3>1. u = s
      BY <1>1, <1>6, <2>1
    <3>2. \A f \in DownRows(tbl, u) : ~(x < f)
      BY <1>1, <1>6, <2>1, <3>1
    <3> QED
      BY <1>3, <1>4, <2>1, <3>2
  <2>2. CASE x # e
    <3>1. new[x] = tbl[x]
      BY <1>3, <1>6, <2>2
    <3>2. \A f \in DownRows(tbl, u) : new[f].started = tbl[f].started
      BY <1>3, <1>6
    <3> QED
      BY <3>1, <3>2 DEF Disjoint
  <2> QED
    BY <2>1, <2>2
<1> QED
  BY <1>3, <1>5, <1>7 DEF Disjoint, new

-----------------------------------------------------------------------------
(* The kinds of steps.                                                     *)

\* The counters that the invariants speak of do not fall.
FaultsKept ==
  /\ faults'.failovers = faults.failovers /\ faults'.torn = faults.torn
  /\ faults'.fails = 0 => faults.fails = 0
  /\ faults'.lost = 0 => faults.lost = 0

\* The step leaves service_events alone and learns no id.
Keeps ==
  /\ UNCHANGED replica /\ events' = events
  /\ clock' \in Nat /\ clock <= clock' /\ FaultsKept
  /\ \A s \in Services : mem'.activeEvents[s] # NULL =>
       /\ mem'.activeEvents[s] = mem.activeEvents[s]
       /\ pc = "insertRecovered" /\ s = mem.svc =>
            \/ pc' = "insertRecovered" /\ mem'.svc = mem.svc
            \/ faults'.fails # 0 \/ faults'.lost # 0
  /\ \A p \in {"insertDown", "insertRecovered"} :
       pc' = p => pc = p /\ mem'.svc = mem.svc

\* The lookup of the open event is answered.
LooksUp ==
  /\ UNCHANGED <<replica, clock>> /\ events' = events /\ FaultsKept
  /\ mem.svc \in Services /\ Learns(ActiveEvent(events, mem.svc))
  /\ pc # "insertRecovered" /\ pc' # "insertRecovered"
  /\ pc' = "insertDown" => ActiveEvent(events, mem.svc) = NoEvent

\* The three statements that write service_events; what they teach the process
\* depends on whether the acknowledgement arrives.
OpensOutage ==
  /\ UNCHANGED <<replica, clock>> /\ FaultsKept
  /\ pc = "insertDown" /\ pc' \notin {"insertDown", "insertRecovered"}
  /\ mem.svc \in Services
  /\ events' = InsertDown(events, mem.svc, clock)
  /\ (Interrupted /\ faults'.lost # 0) \/ Learns(Len(events) + 1)

ClosesHeld ==
  /\ UNCHANGED <<replica, clock>> /\ FaultsKept
  /\ pc = "closeRow" /\ pc' # "insertDown"
  /\ mem.svc \in Services /\ Held(mem.svc)
  /\ db' = Closed(mem.activeEvents[mem.svc])
  /\ mem'.activeEvents = mem.activeEvents
  /\ \/ faults'.lost # 0 /\ pc' # "insertRecovered"
     \/ pc' = "insertRecovered" /\ mem'.svc = mem.svc

Announces ==
  /\ UNCHANGED <<replica, clock>> /\ FaultsKept
  /\ pc = "insertRecovered" /\ pc' \notin {"insertDown", "insertRecovered"}
  /\ mem.svc \in Services /\ Held(mem.svc)
  /\ events' = InsertRecovered(events, mem.svc, clock)
  /\ (Interrupted /\ faults'.lost # 0) \/ Learns(NoEvent)

LEMMA StepKinds ==
  ASSUME TypeOK, Context, [Next]_vars
  PROVE  Keeps \/ LooksUp \/ OpensOutage \/ ClosesHeld \/ Announces
           \/ LastReplicated \/ Failover
<1> USE DEF Environment
<1>0. clock \in Nat /\ clock + 1 \in Nat /\ clock <= clock /\ clock <= clock + 1
  BY Parts
<1>1. Succeeds \/ Fails \/ AckLost => FaultsKept
  BY FaultsType DEF FaultsKept
<1>2. /\ Fails => faults'.fails # 0
      /\ AckLost => faults'.lost # 0
  BY NodeBoundsAssumption DEF TypeOK, Fails, AckLost
<1>3. ASSUME Interrupted, events' = events, UNCHANGED <<replica, clock>> PROVE Keeps
  <2>1. faults'.fails # 0 \/ faults'.lost # 0
    BY <1>2, <1>3 DEF Interrupted
  <2>2. FaultsKept
    BY <1>1, <1>3 DEF Interrupted
  <2> QED
    BY <1>0, <1>3, <2>1, <2>2 DEF Interrupted, Keeps
<1>4. CASE UNCHANGED vars
  BY <1>0, <1>4 DEF vars, Keeps, events, FaultsKept
<1>5. CASE Connect
  <2>1. mem'.activeEvents = mem.activeEvents
    BY <1>5, Parts DEF Connect, Memory
  <2> QED
    BY <1>0, <1>5, <2>1 DEF Connect, Keeps, events, FaultsKept
<1>6. CASE GiveUp
  BY <1>0, <1>6, FreshMemory DEF GiveUp, Exit, Keeps, events, FaultsKept
<1>7. CASE GetServices
  <2>1. mem'.activeEvents = mem.activeEvents
    BY <1>7, Parts DEF GetServices, Memory
  <2>2. FaultsKept
    BY <1>1, <1>7 DEF GetServices
  <2> QED
    BY <1>0, <1>7, <2>1, <2>2 DEF GetServices, Keeps, events
<1>8. ASSUME NEW s \in Services, StartService(s) PROVE Keeps
  <2>1. mem'.activeEvents = mem.activeEvents
    BY <1>8, Parts DEF StartService, Memory
  <2> QED
    BY <1>0, <1>8, <2>1 DEF StartService, Keeps, events, FaultsKept
<1>9. CASE Sync
  <2>1. pc = "sync" /\ events' = events
    BY <1>9, SyncEffect DEF Sync, events
  <2> QED
    BY <1>1, <1>3, <1>9, <2>1, SyncEffect DEF LooksUp, Learns
<1>10. CASE Probe
  <2>1. mem'.activeEvents = mem.activeEvents
    BY <1>10, Parts DEF Probe, Memory
  <2>2. /\ UNCHANGED <<replica, clock, db, faults>> /\ pc = "probe"
        /\ pc' \in {"checkOpen", "closeRow", "saveMetric"}
    BY <1>10 DEF Probe
  <2> QED
    BY <1>0, <2>1, <2>2 DEF Keeps, events, FaultsKept
<1>11. CASE CheckOpen
  <2>1. pc = "checkOpen" /\ events' = events
    BY <1>11, CheckOpenEffect DEF CheckOpen, events
  <2> QED
    BY <1>1, <1>3, <1>11, <2>1, CheckOpenEffect DEF LooksUp, Learns
<1>12. CASE RecordDown
  <2>1. pc = "insertDown"
    BY <1>12 DEF RecordDown
  <2>2. CASE Interrupted /\ events' = events
    BY <1>3, <1>12, <2>2, RecordDownEffect
  <2>3. CASE Interrupted /\ AckLost /\ events' = InsertDown(events, mem.svc, clock)
    BY <1>1, <1>2, <1>12, <2>1, <2>3, RecordDownEffect DEF OpensOutage, Interrupted
  <2>4. CASE /\ Learns(Len(events) + 1) /\ pc' = "saveMetric"
             /\ events' = InsertDown(events, mem.svc, clock)
    BY <1>1, <1>12, <2>1, <2>4, RecordDownEffect DEF OpensOutage, Learns
  <2> QED
    BY <1>12, <2>2, <2>3, <2>4, RecordDownEffect
<1>13. CASE CloseEvent
  <2>1. pc = "closeRow"
    BY <1>13 DEF CloseEvent
  <2>2. CASE Interrupted /\ db' = db
    BY <1>3, <1>13, <2>2, CloseEventEffect DEF events
  <2>3. CASE Interrupted /\ AckLost /\ db' = Closed(mem.activeEvents[mem.svc])
    BY <1>1, <1>2, <1>13, <2>1, <2>3, CloseEventEffect DEF ClosesHeld, Interrupted
  <2>4. CASE /\ Succeeds /\ mem' = mem /\ pc' = "insertRecovered"
             /\ db' = Closed(mem.activeEvents[mem.svc])
    BY <1>1, <1>13, <2>1, <2>4, CloseEventEffect DEF ClosesHeld
  <2> QED
    BY <1>13, <2>2, <2>3, <2>4, CloseEventEffect
<1>14. CASE RecordRecovered
  <2>1. pc = "insertRecovered"
    BY <1>14 DEF RecordRecovered
  <2>2. CASE Interrupted /\ events' = events
    BY <1>3, <1>14, <2>2, RecordRecoveredEffect
  <2>3. CASE Interrupted /\ AckLost /\ events' = InsertRecovered(events, mem.svc, clock)
    BY <1>1, <1>2, <1>14, <2>1, <2>3, RecordRecoveredEffect DEF Announces, Interrupted
  <2>4. CASE /\ Learns(NoEvent) /\ pc' = "saveMetric"
             /\ events' = InsertRecovered(events, mem.svc, clock)
    BY <1>1, <1>14, <2>1, <2>4, RecordRecoveredEffect DEF Announces, Learns
  <2> QED
    BY <1>14, <2>2, <2>3, <2>4, RecordRecoveredEffect
<1>15. CASE SaveMetric
  <2>1. pc = "saveMetric"
    BY <1>15 DEF SaveMetric
  <2> QED
    BY <1>0, <1>1, <1>15, <2>1, SaveMetricEffect DEF Keeps
<1>16. CASE SaveCollectorRun
  <2>1. pc = "saveRun"
    BY <1>16 DEF SaveCollectorRun
  <2> QED
    BY <1>0, <1>1, <1>16, <2>1, SaveCollectorRunEffect DEF Keeps
<1>17. CASE Crash
  <2>1. FaultsKept
    BY <1>17 DEF Crash, TypeOK, FaultsKept
  <2> QED
    BY <1>0, <1>17, <2>1, FreshMemory DEF Crash, Exit, Keeps, events
<1>18. CASE Restart
  <2>1. FaultsKept
    BY <1>18 DEF Restart, TypeOK, FaultsKept
  <2> QED
    BY <1>0, <1>18, <2>1 DEF Restart, Keeps, events
<1>19. ASSUME NEW s \in Services, Flip(s) PROVE Keeps
  BY <1>0, <1>19 DEF Flip, Keeps, events, FaultsKept
<1> QED
  BY <1>4, <1>5, <1>6, <1>7, <1>8, <1>9, <1>10, <1>11, <1>12, <1>13, <1>14, <1>15,
     <1>16, <1>17, <1>18, <1>19 DEF Next, Step

-----------------------------------------------------------------------------
(* LogInv, statement by statement.                                         *)

\* A step that leaves service_events alone and learns no id.
LEMMA LogKept ==
  ASSUME TypeOK, LogInv, UNCHANGED replica, events' = events,
         clock' \in Nat, clock <= clock',
         faults'.failovers = faults.failovers,
         \A s \in Services :
           Held(s)' => Held(s) /\ mem'.activeEvents[s] = mem.activeEvents[s],
         pc' = "insertDown" => pc = "insertDown" /\ mem'.svc = mem.svc
  PROVE  LogInv'
<1>1. ASSUME NEW tbl \in NodeTable, Past(tbl)
      PROVE  \A e \in 1 .. Len(tbl) :
               /\ tbl[e].started <= clock'
               /\ tbl[e].ended # NULL => tbl[e].ended <= clock'
  BY <1>1, Parts, NodeRowColumns DEF Past
<1>2. Past(events)'
  BY <1>1, Parts DEF LogInv, Past
<1>3. Disjoint(events)'
  BY DEF LogInv, Disjoint
<1>4. HeldIsLast'
  BY DEF LogInv, HeldIsLast
<1>5. replica # NULL => replica.events \in NodeTable
  BY DatabaseParts DEF TypeOK
<1>6. ReplicaEarlier'
  BY <1>1, <1>5 DEF LogInv, ReplicaEarlier, Disjoint, Past
<1>7. (pc = "insertDown" => OpenRows(events, mem.svc) = {})'
  BY DEF LogInv
<1> QED
  BY <1>2, <1>3, <1>4, <1>6, <1>7 DEF LogInv

\* A statement that adds rows, or sets the end of one, leaves the replica an
\* earlier state of the table.
LEMMA ReplicaKept ==
  ASSUME ReplicaEarlier, UNCHANGED <<replica, clock>>,
         replica # NULL => replica.events \in NodeTable,
         Len(events) \in Nat, Len(events') \in Nat, Len(events) <= Len(events'),
         \A e \in 1 .. Len(events) : /\ events'[e].service = events[e].service
                                     /\ events'[e].type = events[e].type
  PROVE  ReplicaEarlier'
<1> SUFFICES ASSUME replica # NULL
             PROVE  /\ Len(replica.events) <= Len(events')
                    /\ \A e \in 1 .. Len(replica.events) :
                         /\ replica.events[e].service = events'[e].service
                         /\ replica.events[e].type = events'[e].type
                    /\ Disjoint(replica.events)'
                    /\ Past(replica.events)'
  BY DEF ReplicaEarlier
<1>1. Len(replica.events) \in Nat
  BY DEF NodeTable, TableWith, Gap
<1>2. Len(replica.events) <= Len(events)
  BY DEF ReplicaEarlier
<1>3. Len(replica.events) <= Len(events')
  BY <1>1, <1>2
<1>4. ASSUME NEW e \in 1 .. Len(replica.events)
      PROVE  /\ replica.events[e].service = events'[e].service
             /\ replica.events[e].type = events'[e].type
  <2>1. e \in 1 .. Len(events)
    BY <1>1, <1>2
  <2> QED
    BY <2>1 DEF ReplicaEarlier
<1>5. Disjoint(replica.events)'
  BY DEF ReplicaEarlier, Disjoint
<1>6. Past(replica.events)'
  BY DEF ReplicaEarlier, Past
<1> QED
  BY <1>3, <1>4, <1>5, <1>6

\* The lookup finds the last outage or tells that none is open.
LEMMA LogLookup ==
  ASSUME TypeOK, LogInv, mem.svc \in Services,
         UNCHANGED <<replica, clock>>, events' = events,
         faults'.failovers = faults.failovers,
         Learns(ActiveEvent(events, mem.svc)),
         pc' = "insertDown" => ActiveEvent(events, mem.svc) = NoEvent
  PROVE  LogInv'
<1> DEFINE id == ActiveEvent(events, mem.svc)
<1> HIDE DEF id
<1>1. events \in Seq(Row \cup Gap) /\ Len(events) \in Nat
  BY Parts DEF NodeTable, TableWith, Gap
<1>2. /\ id \in Nat /\ (id = NoEvent <=> OpenRows(events, mem.svc) = {})
      /\ id # NoEvent => id \in OpenRows(events, mem.svc)
  BY <1>1, ActiveEventAny DEF id
<1>3. id # NoEvent => id \in DownRows(events, mem.svc) /\ events[id].ended = NULL
  BY <1>2 DEF OpenRows
<1>4. ASSUME id # NoEvent, NEW f \in DownRows(events, mem.svc) PROVE f <= id
  <2>1. ~(id < f)
    BY <1>3, <1>4 DEF LogInv, Disjoint
  <2> QED
    BY <1>1, <1>2, <2>1 DEF DownRows
<1>5. HeldIsLast'
  <2> SUFFICES ASSUME NEW s \in Services, Held(s)'
               PROVE  /\ mem'.activeEvents[s] \in 1 .. Len(events)
                      /\ \/ mem'.activeEvents[s] \in DownRows(events, s)
                         \/ /\ events[mem'.activeEvents[s]] = LostRow
                            /\ faults.failovers # 0
                      /\ \A f \in DownRows(events, s) : f <= mem'.activeEvents[s]
    BY DEF HeldIsLast
  <2>1. CASE s = mem.svc
    <3>1. mem'.activeEvents[s] = id
      BY <2>1 DEF Learns, id
    <3>2. id # NoEvent
      BY <3>1 DEF Held
    <3> QED
      BY <1>3, <1>4, <2>1, <3>1, <3>2 DEF DownRows
  <2>2. CASE s # mem.svc
    <3>1. mem'.activeEvents[s] = mem.activeEvents[s]
      BY <2>2 DEF Learns
    <3> QED
      BY <3>1 DEF LogInv, HeldIsLast, Held
  <2> QED
    BY <2>1, <2>2
<1>6. Past(events)' /\ Disjoint(events)' /\ ReplicaEarlier'
  BY DEF LogInv, ReplicaEarlier, Disjoint, Past
<1>7. (pc = "insertDown" => OpenRows(events, mem.svc) = {})'
  BY <1>2 DEF Learns, id
<1> QED
  BY <1>5, <1>6, <1>7 DEF LogInv

LEMMA LogInsertDown ==
  ASSUME TypeOK, Context, LogInv, pc = "insertDown", mem.svc \in Services,
         UNCHANGED <<replica, clock>>, pc' # "insertDown",
         events' = InsertDown(events, mem.svc, clock),
         faults'.failovers = faults.failovers,
         Interrupted \/ Learns(Len(events) + 1)
  PROVE  LogInv'
<1>1. /\ Len(events) \in Nat /\ Len(events') = Len(events) + 1
      /\ \A e \in 1 .. Len(events) : events'[e] = events[e]
      /\ \A u \in Services :
           DownRows(events', u) = DownRows(events, u) \cup New(events, u, mem.svc)
  <2>1. DownAdded(events', events, mem.svc, clock)
    BY Parts, NodeStatements
  <2> QED
    BY <2>1 DEF DownAdded
<1>2. Disjoint(events') /\ Past(events')
  BY Parts, InsertDownDisjoint DEF LogInv
<1>3. Disjoint(events)' /\ Past(events)'
  BY <1>2 DEF Disjoint, Past
<1>4. HeldIsLast'
  <2> SUFFICES ASSUME NEW s \in Services, Held(s)'
               PROVE  /\ mem'.activeEvents[s] \in 1 .. Len(events')
                      /\ \/ mem'.activeEvents[s] \in DownRows(events', s)
                         \/ /\ events'[mem'.activeEvents[s]] = LostRow
                            /\ faults.failovers # 0
                      /\ \A f \in DownRows(events', s) : f <= mem'.activeEvents[s]
    BY DEF HeldIsLast
  <2>1. CASE s = mem.svc
    <3>1. mem.activeEvents[s] = NoEvent
      BY <2>1 DEF Context
    <3>2. mem'.activeEvents[s] = Len(events) + 1
      BY <2>1, <3>1 DEF Interrupted, Learns, Held
    <3> QED
      BY <1>1, <2>1, <3>2 DEF New, DownRows
  <2>2. CASE s # mem.svc
    <3>1. mem'.activeEvents[s] = mem.activeEvents[s] /\ Held(s)
      BY <2>2 DEF Interrupted, Learns, Held
    <3>2. DownRows(events', s) = DownRows(events, s)
      BY <1>1, <2>2 DEF New
    <3> QED
      BY <1>1, <3>1, <3>2 DEF LogInv, HeldIsLast
  <2> QED
    BY <2>1, <2>2
<1>5. ReplicaEarlier'
  <2>1. replica # NULL => replica.events \in NodeTable
    BY DatabaseParts DEF TypeOK
  <2>2. Len(events') \in Nat /\ Len(events) <= Len(events')
    BY <1>1
  <2> QED
    BY <1>1, <2>1, <2>2, ReplicaKept DEF LogInv
<1> QED
  BY <1>3, <1>4, <1>5 DEF LogInv

LEMMA LogInsertRecovered ==
  ASSUME TypeOK, LogInv, mem.svc \in Services,
         UNCHANGED <<replica, clock>>, pc' # "insertDown",
         events' = InsertRecovered(events, mem.svc, clock),
         faults'.failovers = faults.failovers,
         Interrupted \/ Learns(NoEvent)
  PROVE  LogInv'
<1>1. /\ Len(events) \in Nat /\ Len(events') = Len(events) + 1
      /\ \A e \in 1 .. Len(events) : events'[e] = events[e]
      /\ \A u \in Services : DownRows(events', u) = DownRows(events, u)
  <2>1. RecoveredAdded(events', events, mem.svc, clock)
    BY Parts, NodeStatements
  <2> QED
    BY <2>1 DEF RecoveredAdded
<1>2. Disjoint(events') /\ Past(events')
  BY Parts, InsertRecoveredDisjoint DEF LogInv
<1>3. Disjoint(events)' /\ Past(events)'
  BY <1>2 DEF Disjoint, Past
<1>4. \A s \in Services :
        Held(s)' => Held(s) /\ mem'.activeEvents[s] = mem.activeEvents[s]
  BY DEF Interrupted, Learns, Held
<1>5. HeldIsLast'
  BY <1>1, <1>4 DEF LogInv, HeldIsLast
<1>6. ReplicaEarlier'
  <2>1. replica # NULL => replica.events \in NodeTable
    BY DatabaseParts DEF TypeOK
  <2>2. Len(events') \in Nat /\ Len(events) <= Len(events')
    BY <1>1
  <2> QED
    BY <1>1, <2>1, <2>2, ReplicaKept DEF LogInv
<1> QED
  BY <1>3, <1>5, <1>6 DEF LogInv

\* The UPDATE closes the last outage of the service once more, or finds no row.
LEMMA LogClosed ==
  ASSUME TypeOK, LogInv, mem.svc \in Services, Held(mem.svc),
         UNCHANGED <<replica, clock>>, pc' # "insertDown",
         db' = Closed(mem.activeEvents[mem.svc]),
         mem'.activeEvents = mem.activeEvents,
         faults'.failovers = faults.failovers
  PROVE  LogInv'
<1> DEFINE id == mem.activeEvents[mem.svc]
<1>1. id \in 1 .. Len(events) /\ \A f \in DownRows(events, mem.svc) : f <= id
  BY DEF LogInv, HeldIsLast
<1>2. CASE events[id] = LostRow
  <2>1. events' = events
    BY <1>2 DEF Closed, events
  <2> QED
    BY <2>1, LogKept, Parts DEF Held
<1>3. CASE events[id] # LostRow
  <2>1. id \in DownRows(events, mem.svc)
    BY <1>3 DEF LogInv, HeldIsLast
  <2>2. events \in NodeTable /\ db \in Database /\ clock \in Nat
    BY Parts
  <2>3. events[id] \in Row
    BY <1>1, <1>3, <2>2, NodeRowColumns
  <2>4. CloseRow(events, id, clock) \in NodeTable
    BY <1>1, <2>2, <2>3, NodeStatements
  <2>5. events' = CloseRow(events, id, clock)
    BY <1>3, <2>2, <2>4, DatabaseParts DEF Closed, events
  <2>6. Disjoint(events') /\ Past(events')
    BY <1>1, <2>1, <2>2, <2>5, CloseRowDisjoint DEF LogInv
  <2>7. Disjoint(events)' /\ Past(events)'
    BY <2>6 DEF Disjoint, Past
  <2>8. /\ Len(events') = Len(events)
        /\ \A f \in 1 .. Len(events) : f # id => events'[f] = events[f]
        /\ events'[id].service = events[id].service
        /\ events'[id].type = events[id].type
        /\ \A u \in Services : DownRows(events', u) = DownRows(events, u)
    <3>1. RowEnded(events', events, id, clock)
      BY <1>1, <2>2, <2>3, <2>5, NodeStatements
    <3> QED
      BY <3>1 DEF RowEnded
  <2>9. HeldIsLast'
    BY <1>3, <2>8 DEF LogInv, HeldIsLast, Held
  <2>10. ReplicaEarlier'
    <3>1. \A e \in 1 .. Len(events) :
            events'[e].service = events[e].service /\ events'[e].type = events[e].type
      BY <2>8
    <3>2. replica # NULL => replica.events \in NodeTable
      BY DatabaseParts DEF TypeOK
    <3>3. Len(events) \in Nat /\ Len(events') \in Nat /\ Len(events) <= Len(events')
      BY <2>2, <2>8 DEF NodeTable, TableWith, Gap
    <3> QED
      BY <3>1, <3>2, <3>3, ReplicaKept DEF LogInv
  <2> QED
    BY <2>7, <2>9, <2>10 DEF LogInv
<1> QED
  BY <1>2, <1>3

LEMMA LogFailover ==
  ASSUME TypeOK, LogInv, Failover, faults'.torn = FALSE
  PROVE  LogInv'
<1>1. /\ Len(events') = Len(events) /\ Len(events) \in Nat
      /\ replica # NULL /\ replica.events \in NodeTable
      /\ \A e \in 1 .. Len(events) :
           events'[e] = IF e <= Len(replica.events) THEN replica.events[e] ELSE LostRow
  BY FailoverType, Parts
<1> DEFINE rep == replica.events
<1>2. /\ Len(rep) \in Nat /\ Len(rep) <= Len(events)
      /\ \A e \in 1 .. Len(rep) : /\ rep[e].service = events[e].service
                                  /\ rep[e].type = events[e].type
      /\ Disjoint(rep) /\ Past(rep)
  BY <1>1 DEF LogInv, ReplicaEarlier, NodeTable, TableWith, Gap
<1>3. /\ pc # "insertDown" /\ faults'.failovers # 0
      /\ replica' = NULL /\ clock' = clock /\ mem' = mem /\ pc' = pc
  <2>1. replica' = NULL /\ clock' = clock /\ mem' = mem /\ pc' = pc
    BY DEF Failover
  <2>2. faults' = [faults EXCEPT !.failovers = faults.failovers + 1, !.outlived = TRUE,
                                 !.torn = faults.torn \/ pc = "insertDown"]
    BY DEF Failover
  <2>3. faults'.failovers = faults.failovers + 1 /\ faults.failovers \in Nat
    BY <2>2, NodeBoundsAssumption DEF TypeOK
  <2>4. faults'.torn = (faults.torn \/ pc = "insertDown")
    BY <2>2 DEF TypeOK
  <2>5. pc # "insertDown"
    BY <2>4
  <2> QED
    BY <2>1, <2>3, <2>5
<1> HIDE DEF rep
<1>4. ASSUME NEW s \in Services
      PROVE  /\ DownRows(events', s) = DownRows(rep, s)
             /\ DownRows(rep, s) \subseteq DownRows(events, s)
             /\ \A e \in DownRows(rep, s) : e \in 1 .. Len(rep) /\ events'[e] = rep[e]
  <2>1. \A e \in 1 .. Len(rep) : e \in 1 .. Len(events) /\ events'[e] = rep[e]
    BY <1>1, <1>2 DEF rep
  <2>2. \A e \in 1 .. Len(events) : e \notin 1 .. Len(rep) => events'[e].service # s
    BY <1>1, <1>2, LostRowColumns, NullAssumption DEF rep
  <2>3. DownRows(events', s) = DownRows(rep, s)
    BY <1>1, <2>1, <2>2 DEF DownRows
  <2>4. DownRows(rep, s) \subseteq DownRows(events, s)
    BY <1>2, <2>1 DEF DownRows
  <2> QED
    BY <2>1, <2>3, <2>4 DEF DownRows
<1>5. Disjoint(events)'
  BY <1>2, <1>4 DEF Disjoint
<1>6. Past(events)'
  <2> SUFFICES ASSUME NEW e \in 1 .. Len(events)
               PROVE  /\ events'[e].started <= clock
                      /\ events'[e].ended # NULL => events'[e].ended <= clock
    BY <1>1, <1>3 DEF Past
  <2>1. CASE e <= Len(rep)
    BY <1>1, <1>2, <2>1 DEF Past, rep
  <2>2. CASE ~(e <= Len(rep))
    BY <1>1, <2>2, LostRowColumns, Parts DEF rep
  <2> QED
    BY <2>1, <2>2
<1>7. HeldIsLast'
  <2> SUFFICES ASSUME NEW s \in Services, Held(s)
               PROVE  /\ mem.activeEvents[s] \in 1 .. Len(events')
                      /\ \/ mem.activeEvents[s] \in DownRows(events', s)
                         \/ events'[mem.activeEvents[s]] = LostRow
                      /\ \A f \in DownRows(events', s) : f <= mem.activeEvents[s]
    BY <1>3 DEF HeldIsLast, Held
  <2> DEFINE id == mem.activeEvents[s]
  <2>1. /\ id \in 1 .. Len(events)
        /\ id \in DownRows(events, s) \/ events[id] = LostRow
        /\ \A f \in DownRows(events, s) : f <= id
    BY DEF LogInv, HeldIsLast
  <2> HIDE DEF id
  <2>2. CASE ~(id <= Len(rep))
    <3>1. events'[id] = LostRow
      BY <1>1, <2>1, <2>2 DEF rep
    <3> QED
      BY <1>1, <1>4, <2>1, <3>1 DEF id
  <2>3. CASE id <= Len(rep)
    <3>1. events'[id] = rep[id] /\ id \in 1 .. Len(rep)
      BY <1>1, <2>1, <2>3 DEF rep
    <3>2. CASE id \in DownRows(events, s)
      <4>1. id \in DownRows(rep, s)
        BY <1>2, <3>1, <3>2 DEF DownRows
      <4> QED
        BY <1>1, <1>4, <2>1, <4>1 DEF id
    <3>3. CASE events[id] = LostRow
      <4>1. rep[id].service = NULL
        BY <1>2, <3>1, <3>3, LostRowColumns
      <4>2. rep[id] = LostRow
        BY <1>1, <3>1, <4>1, NodeRowColumns DEF rep
      <4> QED
        BY <1>1, <1>4, <2>1, <3>1, <4>2 DEF id
    <3> QED
      BY <2>1, <3>2, <3>3
  <2> QED
    BY <2>2, <2>3
<1> QED
  BY <1>3, <1>5, <1>6, <1>7 DEF LogInv, ReplicaEarlier

LEMMA LogStep ==
  ASSUME TypeOK, Context, [Next]_vars, faults.torn = FALSE => LogInv,
         faults'.torn = FALSE
  PROVE  LogInv'
<1>1. CASE Keeps
  <2>1. \A s \in Services :
          Held(s)' => Held(s) /\ mem'.activeEvents[s] = mem.activeEvents[s]
    BY <1>1 DEF Keeps, Held
  <2> QED
    BY <1>1, <2>1, LogKept DEF Keeps, FaultsKept
<1>2. CASE LooksUp
  BY <1>2, LogLookup DEF LooksUp, FaultsKept
<1>3. CASE OpensOutage
  BY <1>3, LogInsertDown DEF OpensOutage, FaultsKept
<1>4. CASE ClosesHeld
  BY <1>4, LogClosed DEF ClosesHeld, FaultsKept
<1>5. CASE Announces
  BY <1>5, LogInsertRecovered DEF Announces, FaultsKept
<1>6. CASE LastReplicated
  <2>1. LogInv /\ replica' = db /\ UNCHANGED <<reach, clock, db, pc, mem, health, faults>>
    BY <1>6 DEF LastReplicated
  <2>2. ReplicaEarlier'
    BY <2>1, Parts DEF ReplicaEarlier, LogInv, Disjoint, Past, events
  <2> QED
    BY <2>1, <2>2 DEF LogInv, Disjoint, Past, HeldIsLast, Held, events
<1>7. CASE Failover
  <2>1. faults' = [faults EXCEPT !.failovers = faults.failovers + 1, !.outlived = TRUE,
                                 !.torn = faults.torn \/ pc = "insertDown"]
    BY <1>7 DEF Failover
  <2>2. faults'.torn = (faults.torn \/ pc = "insertDown")
    BY <2>1 DEF TypeOK
  <2>3. faults.torn = FALSE
    BY <2>2 DEF TypeOK
  <2> QED
    BY <1>7, <2>3, LogFailover
<1> QED
  BY <1>1, <1>2, <1>3, <1>4, <1>5, <1>6, <1>7, StepKinds

-----------------------------------------------------------------------------
(* MapMatches, step by step.                                               *)

\* Before the first fail-over the held id is that of the last outage, so that
\* the UPDATE leaves the service without an open one.
LEMMA ClosesLast ==
  ASSUME TypeOK, LogInv, ClosesHeld, faults.failovers = 0
  PROVE  /\ mem.activeEvents[mem.svc] \in DownRows(events, mem.svc)
         /\ RowEnded(events', events, mem.activeEvents[mem.svc], clock)
         /\ OpenRows(events, mem.svc) \subseteq {mem.activeEvents[mem.svc]}
<1> DEFINE id == mem.activeEvents[mem.svc]
<1>1. /\ id \in 1 .. Len(events) /\ id \in DownRows(events, mem.svc)
      /\ \A f \in DownRows(events, mem.svc) : f <= id
      /\ mem.svc \in Services /\ db' = Closed(id)
  BY DEF ClosesHeld, LogInv, HeldIsLast
<1> HIDE DEF id
<1>2. events \in NodeTable /\ db \in Database /\ clock \in Nat /\ Len(events) \in Nat
  BY Parts
<1>3. events[id] \in Row
  BY <1>1, <1>2, NodeRowColumns DEF DownRows
<1>4. /\ CloseRow(events, id, clock) \in NodeTable
      /\ RowEnded(CloseRow(events, id, clock), events, id, clock)
  BY <1>1, <1>2, <1>3, NodeStatements
<1>5. events[id] # LostRow
  BY <1>3, LostRowColumns
<1>6. events' = CloseRow(events, id, clock)
  BY <1>1, <1>2, <1>4, <1>5, DatabaseParts DEF Closed, events
<1>7. ASSUME NEW e \in OpenRows(events, mem.svc) PROVE e = id
  <2>1. e \in DownRows(events, mem.svc) /\ events[e].ended = NULL
    BY DEF OpenRows
  <2>2. ~(e < id)
    BY <1>1, <2>1 DEF LogInv, Disjoint
  <2> QED
    BY <1>1, <1>2, <2>1, <2>2 DEF DownRows
<1> QED
  BY <1>1, <1>4, <1>6, <1>7 DEF id

LEMMA MapStep ==
  ASSUME TypeOK, Context, [Next]_vars, faults.torn = FALSE => LogInv, MapMatches
  PROVE  MapMatches'
<1> SUFFICES ASSUME faults'.failovers = 0
             PROVE  /\ faults'.torn = FALSE
                    /\ pc' = "insertRecovered" => OpenRows(events', mem'.svc) = {}
                    /\ faults'.lost = 0 =>
                         \A s \in Services :
                           /\ mem'.activeEvents[s] = NoEvent => OpenRows(events', s) = {}
                           /\ /\ Held(s)' /\ faults'.fails = 0
                              /\ pc' = "insertRecovered" => s # mem'.svc
                              => OpenRows(events', s) # {}
  BY DEF MapMatches
<1>1. CASE Keeps
  <2>1. NoEvent # NULL
    BY NullAssumption DEF NoEvent
  <2> QED
    BY <1>1, <2>1 DEF Keeps, FaultsKept, MapMatches, Held
<1>2. CASE LooksUp
  <2>1. events \in Seq(Row \cup Gap)
    BY Parts DEF NodeTable, TableWith
  <2>2. ActiveEvent(events, mem.svc) = NoEvent <=> OpenRows(events, mem.svc) = {}
    BY <1>2, <2>1, ActiveEventAny DEF LooksUp
  <2> QED
    BY <1>2, <2>2 DEF LooksUp, Learns, FaultsKept, MapMatches, Held
<1>3. CASE OpensOutage
  <2>1. DownAdded(events', events, mem.svc, clock)
    BY <1>3, Parts, NodeStatements DEF OpensOutage
  <2>2. /\ OpenRows(events', mem.svc) # {}
        /\ \A s \in Services \ {mem.svc} : OpenRows(events', s) = OpenRows(events, s)
    BY <1>3, <2>1 DEF DownAdded, New, OpensOutage
  <2>3. Len(events) + 1 # NoEvent
    BY Parts DEF NoEvent
  <2> QED
    BY <1>3, <2>2, <2>3 DEF OpensOutage, Learns, FaultsKept, MapMatches, Held
<1>4. CASE ClosesHeld
  <2> DEFINE id == mem.activeEvents[mem.svc]
  <2>1. faults.failovers = 0 /\ faults.torn = FALSE /\ LogInv /\ mem.svc \in Services
    BY <1>4 DEF ClosesHeld, FaultsKept, MapMatches
  <2>2. /\ id \in DownRows(events, mem.svc) /\ RowEnded(events', events, id, clock)
        /\ OpenRows(events, mem.svc) \subseteq {id}
    BY <1>4, <2>1, ClosesLast
  <2> HIDE DEF id
  <2>3. OpenRows(events', mem.svc) = {}
    BY <2>1, <2>2 DEF RowEnded
  <2>4. \A s \in Services \ {mem.svc} : id \notin OpenRows(events, s)
    BY <2>2 DEF OpenRows, DownRows
  <2>5. \A s \in Services \ {mem.svc} : OpenRows(events', s) = OpenRows(events, s)
    BY <2>2, <2>4 DEF RowEnded
  <2> QED
    BY <1>4, <2>1, <2>3, <2>5 DEF ClosesHeld, FaultsKept, MapMatches, Held
<1>5. CASE Announces
  <2>1. RecoveredAdded(events', events, mem.svc, clock)
    BY <1>5, Parts, NodeStatements DEF Announces
  <2>2. \A s \in Services : OpenRows(events', s) = OpenRows(events, s)
    BY <2>1 DEF RecoveredAdded
  <2> QED
    BY <1>5, <2>2 DEF Announces, Learns, FaultsKept, MapMatches, Held
<1>6. CASE LastReplicated
  BY <1>6 DEF LastReplicated, MapMatches, Held, events
<1>7. CASE Failover
  <2>1. faults' = [faults EXCEPT !.failovers = faults.failovers + 1, !.outlived = TRUE,
                                 !.torn = faults.torn \/ pc = "insertDown"]
    BY <1>7 DEF Failover
  <2>2. faults'.failovers = faults.failovers + 1 /\ faults.failovers \in Nat
    BY <2>1, NodeBoundsAssumption DEF TypeOK
  <2> QED
    BY <2>2
<1> QED
  BY <1>1, <1>2, <1>3, <1>4, <1>5, <1>6, <1>7, StepKinds

-----------------------------------------------------------------------------
(* The invariants.                                                         *)

LEMMA Inductive ==
  /\ Init => IInv
  /\ IInv /\ [Next]_vars => IInv'
<1>1. ASSUME Init PROVE IInv
  <2>1. events = <<>>
    BY <1>1 DEF Init, events
  <2>2. LogInv
    BY <1>1, <2>1 DEF Init, Fresh, LogInv, Disjoint, Past, HeldIsLast, Held,
      ReplicaEarlier, DownRows
  <2>3. MapMatches
    BY <1>1, <2>1, NullAssumption DEF Init, Fresh, MapMatches, Held, NoEvent
  <2> QED
    BY <1>1, <2>2, <2>3, TypeInit DEF IInv
<1>2. ASSUME IInv, [Next]_vars PROVE IInv'
  <2>1. TypeOK' /\ Context'
    BY <1>2, TypeStep DEF IInv
  <2>2. (faults.torn = FALSE => LogInv)'
    BY <1>2, LogStep DEF IInv
  <2>3. MapMatches'
    BY <1>2, MapStep DEF IInv
  <2> QED
    BY <2>1, <2>2, <2>3 DEF IInv
<1> QED
  BY <1>1, <1>2

THEOREM Invariance == Spec => []IInv
  BY Inductive, PTL DEF Spec

\* The outages of a service follow one another, at most the last one open,
\* whatever fails and however often the database falls back on its replica,
\* unless a fail-over comes between the two statements of recordDown.
THEOREM OutagesStayDisjoint == Spec => []OutagesDisjoint
<1>1. IInv => OutagesDisjoint
  <2>1. ASSUME IInv PROVE ~faults.torn => faults.torn = FALSE
    BY <2>1 DEF IInv, TypeOK
  <2> QED
    BY <2>1 DEF IInv, LogInv, Disjoint, OutagesDisjoint
<1> QED
  BY <1>1, Invariance, PTL

\* As long as acknowledgements arrive and the database stays, no 'online' metric is
\* stored beside an open outage, whichever statements fail; no 'offline' one without
\* an open outage if, besides, no statement has failed.
THEOREM MetricStaysTrue == Spec => []MetricMatchesEvents
<1>1. IInv => MetricMatchesEvents
  <2> SUFFICES ASSUME IInv, pc = "saveMetric", faults.lost = 0, faults.failovers = 0
               PROVE  /\ ~mem.isDown => OpenRows(events, mem.svc) = {}
                      /\ mem.isDown /\ faults.fails = 0 => OpenRows(events, mem.svc) # {}
    BY DEF MetricMatchesEvents
  <2>1. mem.svc \in Services /\ mem.isDown \in BOOLEAN
    BY DEF IInv, TypeOK, Memory, Context
  <2>2. CASE mem.isDown = TRUE
    BY <2>1, <2>2 DEF IInv, Context, MapMatches
  <2>3. CASE mem.isDown = FALSE
    BY <2>1, <2>3 DEF IInv, Context, MapMatches
  <2> QED
    BY <2>1, <2>2, <2>3
<1> QED
  BY <1>1, Invariance, PTL

-----------------------------------------------------------------------------
(* The refinement.                                                         *)

LEMMA LogStutters ==
  ASSUME events' = events
  PROVE  UNCHANGED Log!vars
  BY DEF Log!vars, DownRows, OpenRows, RecoveredRows

LEMMA LogOpens ==
  ASSUME IInv, OpensOutage, faults.torn = FALSE, Len(events) + 1 \in Ids
  PROVE  Log!Open(mem.svc, Len(events) + 1)
<1>1. /\ events \in NodeTable /\ clock \in Nat /\ Len(events) \in Nat
      /\ mem.svc \in Services /\ OpenRows(events, mem.svc) = {}
      /\ events' = InsertDown(events, mem.svc, clock)
  BY Parts DEF IInv, LogInv, OpensOutage
<1>2. DownAdded(events', events, mem.svc, clock)
  BY <1>1, NodeStatements
<1>3. /\ Outages(events') = [Outages(events) EXCEPT ![mem.svc] = @ \cup {Len(events) + 1}]
      /\ Opens(events') = [Opens(events) EXCEPT ![mem.svc] = {Len(events) + 1}]
      /\ Announced(events') = Announced(events)
  BY <1>1, <1>2, DownAddedLog
<1>4. Len(events) + 1 \notin Log!Used
  BY <1>1, IdIsNew DEF Log!Used, Outages, Announced
<1> QED
  BY <1>1, <1>3, <1>4 DEF Log!Open, Outages, Opens, Announced

\* The announced outage has been closed: MapMatches at insertRecovered.
LEMMA LogAnnounces ==
  ASSUME IInv, Announces, faults.failovers = 0, Len(events) + 1 \in Ids
  PROVE  Log!Announce(mem.svc, Len(events) + 1)
<1>1. /\ events \in NodeTable /\ clock \in Nat /\ Len(events) \in Nat
      /\ mem.svc \in Services /\ events' = InsertRecovered(events, mem.svc, clock)
      /\ OpenRows(events, mem.svc) = {}
  BY Parts DEF IInv, MapMatches, Announces
<1>2. mem.activeEvents[mem.svc] \in DownRows(events, mem.svc)
  BY DEF IInv, MapMatches, LogInv, HeldIsLast, Announces
<1>3. RecoveredAdded(events', events, mem.svc, clock)
  BY <1>1, NodeStatements
<1>4. /\ Outages(events') = Outages(events) /\ Opens(events') = Opens(events)
      /\ Announced(events') =
           [Announced(events) EXCEPT ![mem.svc] = @ \cup {Len(events) + 1}]
  BY <1>1, <1>3, RecoveredAddedLog
<1>5. Len(events) + 1 \notin Log!Used
  BY <1>1, IdIsNew DEF Log!Used, Outages, Announced
<1> QED
  BY <1>1, <1>2, <1>4, <1>5 DEF Log!Announce, Outages, Opens, Announced

\* The UPDATE closes the open outage, or repeats itself on a closed one.
LEMMA LogCloses ==
  ASSUME IInv, ClosesHeld, faults.failovers = 0
  PROVE  Log!Close(mem.svc) \/ UNCHANGED Log!vars
<1>1. LogInv /\ mem.svc \in Services
  BY DEF IInv, MapMatches, ClosesHeld
<1>2. /\ mem.activeEvents[mem.svc] \in DownRows(events, mem.svc)
      /\ RowEnded(events', events, mem.activeEvents[mem.svc], clock)
      /\ OpenRows(events, mem.svc) \subseteq {mem.activeEvents[mem.svc]}
  BY <1>1, ClosesLast DEF IInv
<1>3. /\ Outages(events') = Outages(events) /\ Announced(events') = Announced(events)
      /\ \/ /\ OpenRows(events, mem.svc) # {}
            /\ Opens(events') = [Opens(events) EXCEPT ![mem.svc] = {}]
         \/ Opens(events') = Opens(events)
  BY <1>1, <1>2, RowEndedLog
<1> QED
  BY <1>1, <1>3 DEF Log!Close, Log!vars, Outages, Opens, Announced

\* Until a fail-over takes writes back every step of the collector is a step of
\* the log or changes nothing there, if the log may call its rows by any number.
THEOREM ImplementsOutageLog ==
  ASSUME Nat \subseteq Ids
  PROVE  Spec => RefinesOutageLog
<1>1. Init => Log!Init
  <2> SUFFICES ASSUME Init, NEW s \in Services
               PROVE  /\ DownRows(events, s) = {} /\ OpenRows(events, s) = {}
                      /\ RecoveredRows(events, s) = {}
    BY DEF Log!Init
  <2>1. events = <<>>
    BY DEF Init, events
  <2> QED
    BY <2>1 DEF DownRows, OpenRows, RecoveredRows
<1>2. IInv /\ [Next]_vars => (faults'.failovers = 0 => [Log!Next]_(Log!vars))
  <2> SUFFICES ASSUME IInv, [Next]_vars, faults'.failovers = 0
               PROVE  Log!Next \/ UNCHANGED Log!vars
    OBVIOUS
  <2>1. Len(events) + 1 \in Ids /\ TypeOK /\ Context
    BY Parts DEF IInv
  <2>2. CASE Keeps \/ LooksUp
    BY <2>2, LogStutters DEF Keeps, LooksUp
  <2>3. CASE OpensOutage
    <3>1. faults.torn = FALSE
      BY <2>3 DEF OpensOutage, FaultsKept, IInv, MapMatches
    <3> QED
      BY <2>1, <2>3, <3>1, LogOpens DEF Log!Next, OpensOutage
  <2>4. CASE ClosesHeld
    BY <2>4, LogCloses DEF Log!Next, ClosesHeld, FaultsKept
  <2>5. CASE Announces
    BY <2>1, <2>5, LogAnnounces DEF Log!Next, Announces, FaultsKept
  <2>6. CASE LastReplicated
    BY <2>6, LogStutters DEF LastReplicated, events
  <2>7. CASE Failover
    <3>1. faults' = [faults EXCEPT !.failovers = faults.failovers + 1, !.outlived = TRUE,
                                   !.torn = faults.torn \/ pc = "insertDown"]
      BY <2>7 DEF Failover
    <3>2. faults'.failovers = faults.failovers + 1 /\ faults.failovers \in Nat
      BY <2>1, <3>1, NodeBoundsAssumption DEF TypeOK
    <3> QED
      BY <3>2
  <2> QED
    BY <2>1, <2>2, <2>3, <2>4, <2>5, <2>6, <2>7, StepKinds
<1>3. IInv /\ [Next]_vars => [faults'.failovers = 0 => [Log!Next]_(Log!vars)]_vars
  BY <1>2
<1> QED
  BY <1>1, <1>3, Invariance, PTL DEF Spec, RefinesOutageLog
=============================================================================
