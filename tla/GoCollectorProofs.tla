------------------------- MODULE GoCollectorProofs -------------------------
(***************************************************************************)
(* The safety of GoCollector for any services, any number of retries and   *)
(* any number of faults.                                                   *)
(*                                                                         *)
(* The invariant: IInv is inductive.  OutagesDisjoint alone is not,        *)
(* because an UPDATE through a stale id could move the end of an outage    *)
(* that another has followed (MapHoldsLastOutage excludes it), and an      *)
(* INSERT could come while an outage is open (StatementContext).           *)
(*                                                                         *)
(* The log: the collector implements OutageLog, never rewrites history,    *)
(* and the API lists exactly the open outages.  All three follow from the  *)
(* four things a step can do to the table (StepOnTable), which in turn     *)
(* rest on IInv.                                                           *)
(*                                                                         *)
(* What depends on the faults: each announcement has an outage of its own  *)
(* as long as no acknowledgement is lost, and a poll leaves the tables in  *)
(* agreement as long as no statement fails.                                *)
(***************************************************************************)
EXTENDS GoLog, EventStoreProofs

\* The part of IInv that speaks of the table, the map and the clock.
LogInv == OutagesDisjoint /\ MapHoldsLastOutage /\ TimesPast

-----------------------------------------------------------------------------
(* Facts about one state.                                                  *)

\* An open outage is the service's last one, hence the only open one.
LEMMA OpenIsLast ==
  ASSUME TypeOK, OutagesDisjoint, NEW s \in Services
  PROVE  /\ \A e \in OpenRows(events, s) : \A f \in DownRows(events, s) : f <= e
         /\ \A e, f \in OpenRows(events, s) : e = f
<1>1. DownRows(events, s) \subseteq Nat
  BY DEF TypeOK, Table, DownRows
<1>2. OpenRows(events, s) \subseteq DownRows(events, s)
  BY DEF OpenRows
<1>3. \A e \in OpenRows(events, s) : \A f \in DownRows(events, s) : f <= e
  BY <1>1 DEF OutagesDisjoint, OpenRows
<1> QED
  BY <1>1, <1>2, <1>3

-----------------------------------------------------------------------------
(* What each kind of change of the table or of the map preserves.          *)

\* Statements that touch neither, and the passing of time.
LEMMA LogUntouched ==
  ASSUME TypeOK, LogInv, UNCHANGED <<events, activeEvents>>,
         clock' \in Nat, clock <= clock'
  PROVE  LogInv'
<1>1. OutagesDisjoint'
  BY DEF LogInv, OutagesDisjoint, DownRows
<1>2. MapHoldsLastOutage'
  BY DEF LogInv, MapHoldsLastOutage, HeldEvent, DownRows
<1>3. TimesPast'
  <2>1. \A e \in 1 .. Len(events) :
          events[e].started \in Nat /\ events[e].ended \in Nat \cup {NULL}
    BY RowColumns DEF TypeOK
  <2> QED
    BY <2>1 DEF LogInv, TimesPast, TypeOK
<1> QED
  BY <1>1, <1>2, <1>3 DEF LogInv

\* The process dies: the map is empty again.
LEMMA MapLost ==
  ASSUME TypeOK, LogInv, UNCHANGED <<events, clock>>,
         activeEvents' = [s \in Services |-> NULL]
  PROVE  LogInv'
<1>1. OutagesDisjoint' /\ TimesPast'
  BY DEF LogInv, OutagesDisjoint, TimesPast, DownRows
<1>2. MapHoldsLastOutage'
  BY DEF MapHoldsLastOutage, HeldEvent
<1> QED
  BY <1>1, <1>2 DEF LogInv

\* syncActiveEvent, and RecordDown when it finds an open outage.
LEMMA MapLoaded ==
  ASSUME TypeOK, LogInv, UNCHANGED <<events, clock>>, svc \in Services,
         activeEvents' = [activeEvents EXCEPT ![svc] = ActiveEvent(events, svc)]
  PROVE  /\ LogInv'
         /\ activeEvents' \in [Services -> Nat \cup {NULL}]
<1>1. OutagesDisjoint' /\ TimesPast'
  BY DEF LogInv, OutagesDisjoint, TimesPast, DownRows
<1>2. /\ \A e, f \in OpenRows(events, svc) : e = f
      /\ \A e \in OpenRows(events, svc) : \A f \in DownRows(events, svc) : f <= e
  BY OpenIsLast DEF LogInv
<1>3. /\ ActiveEvent(events, svc) \in Nat
      /\ ActiveEvent(events, svc) # NoEvent =>
           ActiveEvent(events, svc) \in OpenRows(events, svc)
  BY <1>2, ActiveEventRow DEF TypeOK
<1>4. MapHoldsLastOutage'
  <2> SUFFICES ASSUME NEW s \in Services, HeldEvent(s)'
               PROVE  /\ activeEvents'[s] \in DownRows(events, s)
                      /\ \A f \in DownRows(events, s) : f <= activeEvents'[s]
    BY DEF MapHoldsLastOutage
  <2>1. CASE s = svc
    BY <2>1, <1>2, <1>3 DEF HeldEvent, TypeOK, OpenRows
  <2>2. CASE s # svc
    BY <2>2 DEF HeldEvent, TypeOK, LogInv, MapHoldsLastOutage
  <2> QED
    BY <2>1, <2>2
<1> QED
  BY <1>1, <1>3, <1>4 DEF LogInv, TypeOK

\* RecordDown's INSERT, whether or not its acknowledgement arrives.
LEMMA DownInserted ==
  ASSUME TypeOK, LogInv, svc \in Services, ~HeldEvent(svc),
         OpenRows(events, svc) = {},
         events' = InsertDown(events, svc, clock), clock' = clock,
         \/ activeEvents' = [activeEvents EXCEPT ![svc] = Len(events')]
         \/ activeEvents' = activeEvents
  PROVE  /\ LogInv'
         /\ events' \in Table
         /\ activeEvents' \in [Services -> Nat \cup {NULL}]
<1> DEFINE n == Len(events) + 1
<1>1. Len(events) \in Nat /\ clock \in Nat /\ events \in Table
  BY DEF TypeOK, Table
<1>2. /\ events' \in Table /\ Len(events') = n
      /\ \A e \in 1 .. Len(events) : events'[e] = events[e]
      /\ events'[n].started = clock /\ events'[n].ended = NULL
      /\ DownRows(events', svc) = DownRows(events, svc) \cup {n}
      /\ \A u \in Services \ {svc} : DownRows(events', u) = DownRows(events, u)
  <2> DEFINE new == InsertDown(events, svc, clock)
  <2>1. /\ new \in Table /\ Len(new) = n
        /\ \A e \in 1 .. Len(events) : new[e] = events[e]
        /\ new[n].started = clock /\ new[n].ended = NULL
        /\ DownRows(new, svc) = DownRows(events, svc) \cup {n}
        /\ \A u \in Services \ {svc} : DownRows(new, u) = DownRows(events, u)
    <3>1. new \in Table /\ DownAdded(new, events, svc, clock)
      BY <1>1, InsertDownRows
    <3> QED
      BY <3>1 DEF DownAdded, New
  <2> HIDE DEF new
  <2> QED
    BY <2>1 DEF new
<1>3. \A s \in Services : DownRows(events, s) \subseteq 1 .. Len(events)
  BY DEF DownRows
<1>4. \A e \in 1 .. Len(events) :
        /\ events[e].started <= clock
        /\ events[e].ended # NULL => events[e].ended <= clock
  BY DEF LogInv, TimesPast
<1>5. OutagesDisjoint'
  <2> SUFFICES ASSUME NEW s \in Services, NEW e \in DownRows(events', s)
               PROVE  /\ events'[e].ended # NULL =>
                           events'[e].started <= events'[e].ended
                      /\ \A f \in DownRows(events', s) : e < f =>
                           /\ events'[e].ended # NULL
                           /\ events'[e].ended <= events'[f].started
    BY DEF OutagesDisjoint
  <2>1. CASE s = svc /\ e = n
    BY <2>1, <1>1, <1>2, <1>3
  <2>2. CASE s = svc /\ e # n
    <3>1. e \in DownRows(events, s) /\ events'[e] = events[e]
      BY <2>2, <1>2, <1>3
    <3>2. events[e].ended # NULL /\ events[e].ended <= clock
      BY <2>2, <3>1, <1>3, <1>4 DEF OpenRows
    <3> QED
      BY <2>2, <3>1, <3>2, <1>2, <1>3 DEF LogInv, OutagesDisjoint
  <2>3. CASE s # svc
    BY <2>3, <1>2, <1>3 DEF LogInv, OutagesDisjoint
  <2> QED
    BY <2>1, <2>2, <2>3
<1>6. MapHoldsLastOutage'
  <2> SUFFICES ASSUME NEW s \in Services, HeldEvent(s)'
               PROVE  /\ activeEvents'[s] \in DownRows(events', s)
                      /\ \A f \in DownRows(events', s) : f <= activeEvents'[s]
    BY DEF MapHoldsLastOutage
  <2>1. CASE s = svc
    <3>1. activeEvents'[s] = n
      BY <2>1, <1>2 DEF HeldEvent, TypeOK
    <3> QED
      BY <2>1, <3>1, <1>1, <1>2, <1>3
  <2>2. CASE s # svc
    <3>1. activeEvents'[s] = activeEvents[s] /\ HeldEvent(s)
      BY <2>2 DEF HeldEvent, TypeOK
    <3> QED
      BY <2>2, <3>1, <1>2 DEF LogInv, MapHoldsLastOutage
  <2> QED
    BY <2>1, <2>2
<1>7. TimesPast'
  BY <1>1, <1>2, <1>4 DEF TimesPast
<1>8. activeEvents' \in [Services -> Nat \cup {NULL}]
  BY <1>1, <1>2 DEF TypeOK
<1> QED
  BY <1>2, <1>5, <1>6, <1>7, <1>8 DEF LogInv

\* RecordRecovered's UPDATE, first time or retried.
LEMMA RowClosed ==
  ASSUME TypeOK, LogInv, svc \in Services, HeldEvent(svc),
         events' = CloseRow(events, activeEvents[svc], clock),
         UNCHANGED <<clock, activeEvents>>
  PROVE  /\ LogInv'
         /\ events' \in Table
         /\ events'[activeEvents[svc]].ended # NULL
<1> DEFINE c == activeEvents[svc]
<1>1. /\ clock \in Nat /\ events \in Table
      /\ c \in DownRows(events, svc)
      /\ \A f \in DownRows(events, svc) : f <= c
  BY DEF TypeOK, LogInv, MapHoldsLastOutage
<1>2. \A s \in Services : DownRows(events, s) \subseteq 1 .. Len(events)
  BY DEF DownRows
<1>3. /\ events' \in Table /\ Len(events') = Len(events)
      /\ \A f \in 1 .. Len(events) : f # c => events'[f] = events[f]
      /\ events'[c].started = events[c].started
      /\ events'[c].ended = clock
      /\ \A u \in Services : DownRows(events', u) = DownRows(events, u)
  <2>1. events' \in Table /\ RowEnded(events', events, c, clock)
    BY <1>1, <1>2, CloseRowRows
  <2> QED
    BY <2>1 DEF RowEnded
<1>4. \A e \in 1 .. Len(events) :
        /\ events[e].started <= clock
        /\ events[e].ended # NULL => events[e].ended <= clock
  BY DEF LogInv, TimesPast
<1>5. clock # NULL
  BY <1>1, NullAssumption
<1>6. \A s \in Services : c \in DownRows(events, s) => s = svc
  BY <1>1 DEF DownRows
<1>7. OutagesDisjoint'
  <2> SUFFICES ASSUME NEW s \in Services, NEW e \in DownRows(events, s)
               PROVE  /\ events'[e].ended # NULL =>
                           events'[e].started <= events'[e].ended
                      /\ \A f \in DownRows(events, s) : e < f =>
                           /\ events'[e].ended # NULL
                           /\ events'[e].ended <= events'[f].started
    BY <1>3 DEF OutagesDisjoint
  <2>1. \A f \in DownRows(events, s) : events'[f].started = events[f].started
    BY <1>2, <1>3
  <2>2. CASE e = c
    <3>1. \A f \in DownRows(events, s) : f <= e /\ f \in Nat /\ e \in Nat
      BY <2>2, <1>1, <1>2, <1>6 DEF Table
    <3> QED
      BY <2>2, <3>1, <1>2, <1>3, <1>4
  <2>3. CASE e # c
    <3>1. events'[e] = events[e]
      BY <2>3, <1>2, <1>3
    <3> QED
      BY <2>1, <3>1 DEF LogInv, OutagesDisjoint
  <2> QED
    BY <2>2, <2>3
<1>8. MapHoldsLastOutage'
  BY <1>3 DEF LogInv, MapHoldsLastOutage, HeldEvent
<1>9. TimesPast'
  BY <1>1, <1>3, <1>4 DEF TimesPast
<1> QED
  BY <1>3, <1>5, <1>7, <1>8, <1>9 DEF LogInv

\* RecordRecovered's INSERT, whether or not its acknowledgement arrives.
LEMMA RecoveredInserted ==
  ASSUME TypeOK, LogInv, svc \in Services,
         events' = InsertRecovered(events, svc, clock), clock' = clock,
         \/ activeEvents' = [activeEvents EXCEPT ![svc] = NoEvent]
         \/ activeEvents' = activeEvents
  PROVE  /\ LogInv'
         /\ events' \in Table
         /\ activeEvents' \in [Services -> Nat \cup {NULL}]
<1> DEFINE n == Len(events) + 1
<1>1. Len(events) \in Nat /\ clock \in Nat /\ events \in Table
  BY DEF TypeOK, Table
<1>2. /\ events' \in Table /\ Len(events') = n
      /\ \A e \in 1 .. Len(events) : events'[e] = events[e]
      /\ events'[n].started = clock /\ events'[n].ended = NULL
      /\ \A u \in Services : DownRows(events', u) = DownRows(events, u)
  <2>1. events' \in Table /\ RecoveredAdded(events', events, svc, clock)
    BY <1>1, InsertRecoveredRows
  <2> QED
    BY <2>1 DEF RecoveredAdded
<1>3. \A s \in Services : DownRows(events, s) \subseteq 1 .. Len(events)
  BY DEF DownRows
<1>4. OutagesDisjoint'
  BY <1>2, <1>3 DEF LogInv, OutagesDisjoint
<1>5. MapHoldsLastOutage'
  <2>1. \A s \in Services :
          HeldEvent(s)' => HeldEvent(s) /\ activeEvents'[s] = activeEvents[s]
    BY DEF HeldEvent, TypeOK
  <2> QED
    BY <2>1, <1>2 DEF LogInv, MapHoldsLastOutage
<1>6. TimesPast'
  BY <1>1, <1>2 DEF LogInv, TimesPast
<1>7. activeEvents' \in [Services -> Nat \cup {NULL}]
  BY DEF TypeOK, NoEvent
<1> QED
  BY <1>2, <1>4, <1>5, <1>6, <1>7 DEF LogInv

-----------------------------------------------------------------------------
(* IInv is inductive.                                                      *)

LEMMA InitIInv == Init => IInv
<1> SUFFICES ASSUME Init PROVE IInv
  OBVIOUS
<1>1. Len(events) = 0 /\ events \in Table
  BY DEF Init, Table
<1>2. TypeOK
  <2>1. 0 \in 0 .. Retries
    BY BoundsAssumption
  <2>2. /\ activeEvents \in [Services -> Nat \cup {NULL}]
        /\ metric \in [Services -> {"none", "online", "offline"}]
    BY DEF Init
  <2>3. faults \in [fails : Nat, lost : Nat, crashes : Nat]
    BY DEF Init
  <2> QED
    BY <1>1, <2>1, <2>2, <2>3 DEF Init, TypeOK, PCs
<1>3. OutagesDisjoint /\ TimesPast
  BY <1>1 DEF OutagesDisjoint, TimesPast, DownRows
<1>4. MapHoldsLastOutage /\ StatementContext
  BY DEF Init, MapHoldsLastOutage, HeldEvent, StatementContext
<1> QED
  BY <1>2, <1>3, <1>4 DEF IInv

\* The process exits: the types of its empty memory.
LEMMA ExitType ==
  ASSUME TypeOK, Exit, UNCHANGED <<env, db>>,
         faults' \in [fails : Nat, lost : Nat, crashes : Nat]
  PROVE  TypeOK'
<1>1. 0 \in 0 .. Retries
  BY BoundsAssumption
<1>2. [s \in Services |-> NULL] \in [Services -> Nat \cup {NULL}]
  OBVIOUS
<1>3. attempt' \in 0 .. Retries /\ activeEvents' \in [Services -> Nat \cup {NULL}]
  BY <1>1, <1>2 DEF Exit
<1>4. /\ todo' \in SUBSET Services /\ svc' \in Services \cup {NULL}
      /\ isDown' \in BOOLEAN /\ eventErr' \in BOOLEAN /\ pollErr' \in BOOLEAN
      /\ health' \in {"starting", "ok", "error"} /\ pc' \in PCs
  BY DEF Exit, PCs
<1> QED
  BY <1>3, <1>4 DEF TypeOK, env, db

\* However a statement ends, the fault counters stay counters.
LEMMA FaultsType ==
  ASSUME TypeOK, Succeeds \/ Fails \/ AckLost
  PROVE  faults' \in [fails : Nat, lost : Nat, crashes : Nat]
  BY DEF TypeOK, Succeeds, Fails, AckLost

LEMMA NextIInv == IInv /\ [Next]_vars => IInv'
<1> SUFFICES ASSUME IInv, [Next]_vars PROVE IInv'
  OBVIOUS
<1>1. TypeOK /\ LogInv /\ StatementContext
  BY DEF IInv, LogInv
<1>2. clock \in Nat /\ clock <= clock
  BY <1>1 DEF TypeOK
<1>3. ASSUME PingOk PROVE IInv'
  <2>1. LogInv'
    BY <1>1, <1>2, <1>3, LogUntouched DEF PingOk, env, db, mem
  <2>2. TypeOK'
    BY <1>1, <1>3, FaultsType, BoundsAssumption
       DEF TypeOK, PingOk, env, db, mem, PCs, Succeeds, ReadError
  <2>3. StatementContext'
    BY <1>1, <1>3 DEF StatementContext, PingOk, mem, db
  <2> QED
    BY <2>1, <2>2, <2>3 DEF IInv, LogInv
<1>4. ASSUME PingRetry PROVE IInv'
  <2>1. LogInv'
    BY <1>1, <1>2, <1>4, LogUntouched DEF PingRetry, env, db, mem
  <2>2. TypeOK'
    BY <1>1, <1>4, FaultsType, BoundsAssumption
       DEF TypeOK, PingRetry, env, db, mem, PCs, Succeeds, ReadError
  <2>3. StatementContext'
    BY <1>1, <1>4 DEF StatementContext, PingRetry, mem, db
  <2> QED
    BY <2>1, <2>2, <2>3 DEF IInv, LogInv
<1>5. ASSUME GiveUp PROVE IInv'
  <2>1. LogInv'
    BY <1>1, <1>5, MapLost DEF GiveUp, Exit, env, db
  <2>2. TypeOK'
    BY <1>1, <1>5, FaultsType, ExitType DEF GiveUp, ReadError
  <2>3. StatementContext'
    BY <1>5 DEF StatementContext, GiveUp, Exit
  <2> QED
    BY <2>1, <2>2, <2>3 DEF IInv, LogInv
<1>6. ASSUME GetServices PROVE IInv'
  <2>1. LogInv'
    BY <1>1, <1>2, <1>6, LogUntouched DEF GetServices, env, db, mem
  <2>2. TypeOK'
    BY <1>1, <1>6, FaultsType, BoundsAssumption
       DEF TypeOK, GetServices, env, db, mem, PCs, Succeeds, ReadError
  <2>3. StatementContext'
    BY <1>1, <1>6 DEF StatementContext, GetServices, mem, db
  <2> QED
    BY <2>1, <2>2, <2>3 DEF IInv, LogInv
<1>7. ASSUME GetServicesError PROVE IInv'
  <2>1. LogInv'
    BY <1>1, <1>2, <1>7, LogUntouched DEF GetServicesError, env, db, mem
  <2>2. TypeOK'
    BY <1>1, <1>7, FaultsType, BoundsAssumption
       DEF TypeOK, GetServicesError, env, db, mem, PCs, Succeeds, ReadError
  <2>3. StatementContext'
    BY <1>1, <1>7 DEF StatementContext, GetServicesError, mem, db
  <2> QED
    BY <2>1, <2>2, <2>3 DEF IInv, LogInv
<1>8. ASSUME NEW s \in Services, StartService(s) PROVE IInv'
  <2>1. LogInv'
    BY <1>1, <1>2, <1>8, LogUntouched DEF StartService, env, db
  <2>2. TypeOK'
    BY <1>1, <1>8 DEF TypeOK, StartService, env, db, PCs
  <2>3. StatementContext'
    BY <1>8 DEF StatementContext, StartService
  <2> QED
    BY <2>1, <2>2, <2>3 DEF IInv, LogInv
<1>9. ASSUME Sync PROVE IInv'
  <2>1. svc \in Services
    BY <1>1, <1>9 DEF StatementContext, Sync
  <2>2. LogInv' /\ activeEvents' \in [Services -> Nat \cup {NULL}]
    BY <1>1, <1>9, <2>1, MapLoaded DEF Sync, env, db
  <2>3. TypeOK'
    BY <1>1, <1>9, <2>2 DEF TypeOK, Sync, env, db, PCs, Succeeds
  <2>4. StatementContext'
    BY <2>1, <1>9 DEF StatementContext, Sync
  <2> QED
    BY <2>2, <2>3, <2>4 DEF IInv, LogInv
<1>10. ASSUME SyncError PROVE IInv'
  <2>1. LogInv'
    BY <1>1, <1>2, <1>10, LogUntouched DEF SyncError, env, db, mem
  <2>2. TypeOK'
    BY <1>1, <1>10, FaultsType, BoundsAssumption
       DEF TypeOK, SyncError, env, db, mem, PCs, Succeeds, ReadError
  <2>3. StatementContext'
    BY <1>1, <1>10 DEF StatementContext, SyncError, mem, db
  <2> QED
    BY <2>1, <2>2, <2>3 DEF IInv, LogInv
<1>11. ASSUME Probe PROVE IInv'
  <2>1. LogInv'
    BY <1>1, <1>2, <1>11, LogUntouched DEF Probe, env, db
  <2>2. TypeOK'
    BY <1>1, <1>11 DEF TypeOK, Probe, env, db, PCs
  <2>3. StatementContext'
    <3>1. svc \in Services /\ svc' = svc /\ activeEvents' = activeEvents
      BY <1>1, <1>11 DEF StatementContext, Probe
    <3>2. HeldEvent(svc) <=> KnownEvent(svc) # NoEvent
      BY DEF HeldEvent, KnownEvent
    <3>3. pc' \in {"checkOpen", "closeRow", "saveMetric"}
      BY <1>11 DEF Probe
    <3>4. pc' = "checkOpen" => ~HeldEvent(svc)
      BY <3>2, <1>11 DEF Probe
    <3>5. pc' = "closeRow" => HeldEvent(svc)
      BY <3>2, <1>11 DEF Probe
    <3> QED
      BY <3>1, <3>3, <3>4, <3>5 DEF StatementContext, HeldEvent
  <2> QED
    BY <2>1, <2>2, <2>3 DEF IInv, LogInv
<1>12. ASSUME CheckOpen PROVE IInv'
  <2>1. svc \in Services /\ ~HeldEvent(svc) /\ svc' = svc /\ events' = events
    BY <1>1, <1>12 DEF StatementContext, CheckOpen, db
  <2>2. \/ activeEvents' = activeEvents
        \/ activeEvents' = [activeEvents EXCEPT ![svc] = ActiveEvent(events, svc)]
    BY <1>12 DEF CheckOpen, EventFailed
  <2>3. LogInv' /\ activeEvents' \in [Services -> Nat \cup {NULL}]
    <3>1. CASE activeEvents' = activeEvents
      BY <1>1, <1>2, <1>12, <3>1, LogUntouched DEF CheckOpen, env, db, TypeOK
    <3>2. CASE activeEvents' = [activeEvents EXCEPT ![svc] = ActiveEvent(events, svc)]
      BY <1>1, <1>12, <2>1, <3>2, MapLoaded DEF CheckOpen, env, db
    <3> QED
      BY <2>2, <3>1, <3>2
  <2>4. TypeOK'
    BY <1>1, <1>12, <2>3, FaultsType
       DEF TypeOK, CheckOpen, EventFailed, env, db, PCs, ReadError
  <2>5. StatementContext'
    <3>1. pc' \in {"saveMetric", "insertDown"}
      BY <1>12 DEF CheckOpen, EventFailed
    <3>2. ASSUME pc' = "insertDown"
          PROVE  activeEvents' = activeEvents /\ ActiveEvent(events, svc) = NoEvent
      BY <3>2, <1>12 DEF CheckOpen, EventFailed
    <3>3. ActiveEvent(events, svc) = NoEvent => OpenRows(events, svc) = {}
      <4>1. \A e, f \in OpenRows(events, svc) : e = f
        BY <1>1, <2>1, OpenIsLast DEF LogInv
      <4> QED
        BY <1>1, <2>1, <4>1, ActiveEventRow DEF TypeOK
    <3>4. pc' = "insertDown" => ~HeldEvent(svc)' /\ OpenRows(events, svc)' = {}
      BY <2>1, <3>2, <3>3 DEF HeldEvent, OpenRows, DownRows
    <3> QED
      BY <2>1, <3>1, <3>4 DEF StatementContext, HeldEvent
  <2> QED
    BY <2>3, <2>4, <2>5 DEF IInv, LogInv
<1>13. ASSUME RecordDown PROVE IInv'
  <2>1. /\ svc \in Services /\ ~HeldEvent(svc) /\ OpenRows(events, svc) = {}
        /\ svc' = svc /\ clock' = clock
    BY <1>1, <1>13 DEF StatementContext, RecordDown, env
  <2>2. \/ /\ events' = InsertDown(events, svc, clock)
           /\ \/ activeEvents' = [activeEvents EXCEPT ![svc] = Len(events')]
              \/ activeEvents' = activeEvents
        \/ events' = events /\ activeEvents' = activeEvents
    BY <1>13 DEF RecordDown, EventFailed, WriteError
  <2>3. LogInv' /\ events' \in Table /\ activeEvents' \in [Services -> Nat \cup {NULL}]
    <3>1. CASE events' = InsertDown(events, svc, clock)
      <4>1. \/ activeEvents' = [activeEvents EXCEPT ![svc] = Len(events')]
            \/ activeEvents' = activeEvents
        BY <2>2
      <4> QED
        BY <1>1, <2>1, <3>1, <4>1, DownInserted
    <3>2. CASE events' = events /\ activeEvents' = activeEvents
      BY <1>1, <1>2, <2>1, <3>2, LogUntouched DEF TypeOK
    <3> QED
      BY <2>2, <3>1, <3>2
  <2>4. TypeOK'
    BY <1>1, <1>13, <2>3, FaultsType
       DEF TypeOK, RecordDown, EventFailed, WriteError, env, PCs
  <2>5. StatementContext'
    BY <1>13, <2>1 DEF StatementContext, RecordDown, EventFailed
  <2> QED
    BY <2>3, <2>4, <2>5 DEF IInv, LogInv
<1>14. ASSUME CloseEvent PROVE IInv'
  <2>1. /\ svc \in Services /\ HeldEvent(svc)
        /\ svc' = svc /\ clock' = clock /\ activeEvents' = activeEvents
    BY <1>1, <1>14 DEF StatementContext, CloseEvent, EventFailed, env
  <2>2. \/ events' = CloseRow(events, activeEvents[svc], clock)
        \/ events' = events /\ pc' = "saveMetric"
    BY <1>14 DEF CloseEvent, EventFailed, WriteError
  <2>3. /\ LogInv' /\ events' \in Table
        /\ \/ events'[activeEvents[svc]].ended # NULL
           \/ pc' = "saveMetric"
    <3>1. CASE events' = CloseRow(events, activeEvents[svc], clock)
      BY <1>1, <2>1, <3>1, RowClosed
    <3>2. CASE events' = events /\ pc' = "saveMetric"
      BY <1>1, <1>2, <2>1, <3>2, LogUntouched DEF TypeOK
    <3> QED
      BY <2>2, <3>1, <3>2
  <2>4. TypeOK'
    BY <1>1, <1>14, <2>3, FaultsType
       DEF TypeOK, CloseEvent, EventFailed, WriteError, env, PCs
  <2>5. StatementContext'
    <3>1. pc' \in {"insertRecovered", "saveMetric"}
      BY <1>14 DEF CloseEvent, EventFailed
    <3> QED
      BY <2>1, <2>3, <3>1 DEF StatementContext, HeldEvent
  <2> QED
    BY <2>3, <2>4, <2>5 DEF IInv, LogInv
<1>15. ASSUME RecordRecovered PROVE IInv'
  <2>1. svc \in Services /\ svc' = svc /\ clock' = clock
    BY <1>1, <1>15 DEF StatementContext, RecordRecovered, env
  <2>2. \/ /\ events' = InsertRecovered(events, svc, clock)
           /\ \/ activeEvents' = [activeEvents EXCEPT ![svc] = NoEvent]
              \/ activeEvents' = activeEvents
        \/ events' = events /\ activeEvents' = activeEvents
    BY <1>15 DEF RecordRecovered, EventFailed, WriteError
  <2>3. LogInv' /\ events' \in Table /\ activeEvents' \in [Services -> Nat \cup {NULL}]
    <3>1. CASE events' = InsertRecovered(events, svc, clock)
      <4>1. \/ activeEvents' = [activeEvents EXCEPT ![svc] = NoEvent]
            \/ activeEvents' = activeEvents
        BY <2>2
      <4> QED
        BY <1>1, <2>1, <3>1, <4>1, RecoveredInserted
    <3>2. CASE events' = events /\ activeEvents' = activeEvents
      BY <1>1, <1>2, <2>1, <3>2, LogUntouched DEF TypeOK
    <3> QED
      BY <2>2, <3>1, <3>2
  <2>4. TypeOK'
    BY <1>1, <1>15, <2>3, FaultsType
       DEF TypeOK, RecordRecovered, EventFailed, WriteError, env, PCs
  <2>5. StatementContext'
    BY <1>15, <2>1 DEF StatementContext, RecordRecovered, EventFailed
  <2> QED
    BY <2>3, <2>4, <2>5 DEF IInv, LogInv
<1>16. ASSUME SaveMetric PROVE IInv'
  <2>1. LogInv'
    BY <1>1, <1>2, <1>16, LogUntouched DEF SaveMetric, env
  <2>2. metric' \in [Services -> {"none", "online", "offline"}]
    <3>1. [metric EXCEPT ![svc] = IF isDown THEN "offline" ELSE "online"]
            \in [Services -> {"none", "online", "offline"}]
      BY <1>1 DEF TypeOK
    <3> QED
      BY <1>1, <3>1, <1>16 DEF SaveMetric, WriteError, TypeOK
  <2>3. pollErr' \in BOOLEAN
    BY <1>1, <1>16 DEF SaveMetric, TypeOK
  <2>4. TypeOK'
    BY <1>1, <1>16, <2>2, <2>3, FaultsType DEF TypeOK, SaveMetric, WriteError, env, PCs
  <2>5. StatementContext'
    BY <1>16 DEF StatementContext, SaveMetric
  <2> QED
    BY <2>1, <2>4, <2>5 DEF IInv, LogInv
<1>17. ASSUME SaveCollectorRun PROVE IInv'
  <2>1. LogInv'
    BY <1>1, <1>2, <1>17, LogUntouched DEF SaveCollectorRun, env
  <2>2. TypeOK'
    BY <1>1, <1>17, FaultsType DEF TypeOK, SaveCollectorRun, WriteError, env, PCs
  <2>3. StatementContext'
    BY <1>17 DEF StatementContext, SaveCollectorRun
  <2> QED
    BY <2>1, <2>2, <2>3 DEF IInv, LogInv
<1>18. ASSUME Crash PROVE IInv'
  <2>1. LogInv'
    BY <1>1, <1>18, MapLost DEF Crash, Exit, env, db
  <2>2. TypeOK'
    <3>1. faults' \in [fails : Nat, lost : Nat, crashes : Nat]
      BY <1>1, <1>18 DEF Crash, TypeOK
    <3> QED
      BY <1>1, <1>18, <3>1, ExitType DEF Crash
  <2>3. StatementContext'
    BY <1>18 DEF StatementContext, Crash, Exit
  <2> QED
    BY <2>1, <2>2, <2>3 DEF IInv, LogInv
<1>19. ASSUME Restart PROVE IInv'
  <2>1. LogInv'
    BY <1>1, <1>2, <1>19, LogUntouched DEF Restart, env, db, mem
  <2>2. TypeOK'
    BY <1>1, <1>19 DEF TypeOK, Restart, env, db, mem, PCs
  <2>3. StatementContext'
    BY <1>19 DEF StatementContext, Restart
  <2> QED
    BY <2>1, <2>2, <2>3 DEF IInv, LogInv
<1>20. ASSUME NEW s \in Services, Flip(s) PROVE IInv'
  <2>1. clock' = clock + 1 /\ UNCHANGED <<db, pc, mem, faults>>
    BY <1>20 DEF Flip
  <2>2. LogInv'
    BY <1>1, <1>2, <2>1, LogUntouched DEF db, mem
  <2>3. TypeOK'
    BY <1>1, <1>2, <1>20, <2>1 DEF TypeOK, Flip, db, mem
  <2>4. StatementContext'
    BY <1>1, <2>1 DEF StatementContext, HeldEvent, OpenRows, DownRows, db, mem
  <2> QED
    BY <2>2, <2>3, <2>4 DEF IInv, LogInv
<1>21. CASE UNCHANGED vars
  <2>1. UNCHANGED <<env, db, pc, mem, faults>>
    BY <1>21 DEF vars
  <2>2. LogInv'
    BY <1>1, <1>2, <2>1, LogUntouched DEF env, db, mem
  <2>3. TypeOK'
    BY <1>1, <2>1 DEF TypeOK, env, db, mem
  <2>4. StatementContext'
    BY <1>1, <2>1 DEF StatementContext, HeldEvent, OpenRows, DownRows, db, mem
  <2> QED
    BY <2>2, <2>3, <2>4 DEF IInv, LogInv
<1> QED
  BY <1>3, <1>4, <1>5, <1>6, <1>7, <1>8, <1>9, <1>10, <1>11, <1>12, <1>13, <1>14, <1>15, <1>16, <1>17, <1>18, <1>19, <1>20, <1>21 DEF Next, Step

-----------------------------------------------------------------------------
(* The theorems.                                                           *)

\* IInv holds in every state the collector and its database can reach.
THEOREM Invariance == Spec => []IInv
  BY InitIInv, NextIInv, PTL DEF Spec

\* Every variable keeps its type.
THEOREM TypeCorrect == Spec => []TypeOK
<1>1. IInv => TypeOK
  BY DEF IInv
<1> QED
  BY <1>1, Invariance, PTL

\* The outages of a service never overlap, whatever statements fail, whatever
\* acknowledgements are lost and whenever the process dies.
THEOREM OutagesNeverOverlap == Spec => []OutagesDisjoint
<1>1. IInv => OutagesDisjoint
  BY DEF IInv
<1> QED
  BY <1>1, Invariance, PTL

\* The map never holds an outage that another has followed.
THEOREM MapNeverOutdated == Spec => []MapHoldsLastOutage
<1>1. IInv => MapHoldsLastOutage
  BY DEF IInv
<1> QED
  BY <1>1, Invariance, PTL

\* The INSERTs of RecordDown and RecordRecovered run only in the situation
\* that the statements before them have established.
THEOREM StatementsInContext == Spec => []StatementContext
<1>1. IInv => StatementContext
  BY DEF IInv
<1> QED
  BY <1>1, Invariance, PTL

-----------------------------------------------------------------------------
(* The four things.                                                        *)

OpensOutage ==
  /\ svc \in Services
  /\ OpenRows(events, svc) = {}
  /\ events' = InsertDown(events, svc, clock)

ClosesLast ==
  /\ svc \in Services
  /\ activeEvents[svc] \in DownRows(events, svc)
  /\ \A f \in DownRows(events, svc) : f <= activeEvents[svc]
  /\ events' = CloseRow(events, activeEvents[svc], clock)

Announces ==
  /\ svc \in Services
  /\ DownRows(events, svc) # {}
  /\ OpenRows(events, svc) = {}
  /\ events' = InsertRecovered(events, svc, clock)

\* RecordRecovered announces the end of the service's last outage, which the
\* UPDATE before it has closed; hence none is open.
LEMMA ClosedBeforeAnnounced ==
  ASSUME IInv, pc = "insertRecovered"
  PROVE  /\ svc \in Services /\ HeldEvent(svc)
         /\ activeEvents[svc] \in DownRows(events, svc)
         /\ events[activeEvents[svc]].ended # NULL
         /\ OpenRows(events, svc) = {} /\ DownRows(events, svc) # {}
<1>1. TypeOK /\ OutagesDisjoint /\ MapHoldsLastOutage /\ StatementContext
  BY DEF IInv
<1>2. svc \in Services /\ HeldEvent(svc) /\ events[activeEvents[svc]].ended # NULL
  BY <1>1 DEF StatementContext
<1>3. /\ activeEvents[svc] \in DownRows(events, svc)
      /\ \A f \in DownRows(events, svc) : f <= activeEvents[svc]
  BY <1>1, <1>2 DEF MapHoldsLastOutage
<1>4. ASSUME NEW e \in OpenRows(events, svc) PROVE FALSE
  <2>1. \A f \in DownRows(events, svc) : f <= e
    BY <1>1, <1>2, OpenIsLast
  <2>2. e \in DownRows(events, svc) /\ events[e].ended = NULL
    BY DEF OpenRows
  <2>3. DownRows(events, svc) \subseteq Nat
    BY <1>1 DEF TypeOK, Table, DownRows
  <2>4. e = activeEvents[svc]
    BY <1>3, <2>1, <2>2, <2>3
  <2> QED
    BY <1>2, <2>2, <2>4
<1> QED
  BY <1>2, <1>3, <1>4

\* Whatever the collector does, the table stays as it is or one statement was
\* executed on it, in the context that makes it a step of the log.
LEMMA StepOnTable ==
  ASSUME IInv, [Next]_vars
  PROVE  UNCHANGED events \/ OpensOutage \/ ClosesLast \/ Announces
<1>1. TypeOK /\ OutagesDisjoint /\ MapHoldsLastOutage /\ StatementContext
  BY DEF IInv
<1>2. CASE RecordDown
  BY <1>1, <1>2 DEF RecordDown, WriteError, StatementContext, OpensOutage
<1>3. CASE CloseEvent
  <2>1. svc \in Services /\ HeldEvent(svc)
    BY <1>1, <1>3 DEF CloseEvent, StatementContext
  <2> QED
    BY <1>1, <1>3, <2>1 DEF CloseEvent, WriteError, MapHoldsLastOutage, ClosesLast
<1>4. CASE RecordRecovered
  BY <1>4, ClosedBeforeAnnounced DEF RecordRecovered, WriteError, Announces
<1>5. CASE UNCHANGED vars
  BY <1>5 DEF vars, db
<1>6. CASE Step /\ ~RecordDown /\ ~CloseEvent /\ ~RecordRecovered
  BY <1>6 DEF Step, PingOk, PingRetry, GiveUp, GetServices, GetServicesError,
    StartService, Sync, SyncError, Probe, CheckOpen, SaveMetric, SaveCollectorRun, db
<1>7. CASE Crash \/ Restart \/ \E s \in Services : Flip(s)
  BY <1>7 DEF Crash, Restart, Flip, db
<1> QED
  BY <1>2, <1>3, <1>4, <1>5, <1>6, <1>7 DEF Next, Step

-----------------------------------------------------------------------------
(* The mark 'resolved'.                                                    *)

\* A row is marked resolved iff it is an announcement or has ended.
Marked ==
  \A e \in 1 .. Len(events) :
    IF events[e].type = "recovered" \/ events[e].ended # NULL
      THEN events[e].resolved = TRUE ELSE events[e].resolved = FALSE

LEMMA MarkedKept ==
  ASSUME IInv, Marked, [Next]_vars
  PROVE  Marked'
<1>1. events \in Table /\ clock \in Nat /\ Len(events) \in Nat
  BY DEF IInv, TypeOK, Table
<1>2. clock # NULL
  BY <1>1, NullAssumption
<1>3. CASE UNCHANGED events
  BY <1>3 DEF Marked
<1>4. ASSUME NEW r \in Row, events' = Append(events, r),
             IF r.type = "recovered" \/ r.ended # NULL
               THEN r.resolved = TRUE ELSE r.resolved = FALSE
      PROVE  Marked'
  <2>1. /\ Len(events') = Len(events) + 1
        /\ \A e \in 1 .. Len(events) : events'[e] = events[e]
        /\ events'[Len(events) + 1] = r
    BY <1>1, <1>4, AppendAny DEF Table
  <2> QED
    BY <1>1, <1>4, <2>1 DEF Marked
<1>5. CASE OpensOutage
  <2> DEFINE r == [service |-> svc, type |-> "down", started |-> clock,
                   ended |-> NULL, resolved |-> FALSE]
  <2>1. r \in Row /\ events' = Append(events, r)
    BY <1>1, <1>5 DEF OpensOutage, InsertDown, Row
  <2>2. IF r.type = "recovered" \/ r.ended # NULL
          THEN r.resolved = TRUE ELSE r.resolved = FALSE
    OBVIOUS
  <2> HIDE DEF r
  <2> QED
    BY <1>4, <2>1, <2>2
<1>6. CASE Announces
  <2> DEFINE r == [service |-> svc, type |-> "recovered", started |-> clock,
                   ended |-> NULL, resolved |-> TRUE]
  <2>1. r \in Row /\ events' = Append(events, r)
    BY <1>1, <1>6 DEF Announces, InsertRecovered, Row
  <2>2. IF r.type = "recovered" \/ r.ended # NULL
          THEN r.resolved = TRUE ELSE r.resolved = FALSE
    OBVIOUS
  <2> HIDE DEF r
  <2> QED
    BY <1>4, <2>1, <2>2
<1>7. CASE ClosesLast
  <2> DEFINE c == activeEvents[svc]
  <2>1. c \in 1 .. Len(events)
    BY <1>7 DEF ClosesLast, DownRows
  <2>2. RowEnded(events', events, c, clock)
    BY <1>1, <1>7, <2>1, CloseRowRows DEF ClosesLast
  <2> QED
    BY <1>2, <2>1, <2>2 DEF Marked, RowEnded
<1> QED
  BY <1>3, <1>5, <1>6, <1>7, StepOnTable

\* The API's active events are exactly the outages the collector considers
\* open: no announcement is among them, and no row is marked without an end.
THEOREM ActiveListsOpenRows == Spec => []ActiveListIsOpenRows
<1>1. Init => Marked
  BY DEF Init, Marked
<1>2. IInv /\ Marked /\ [Next]_vars => Marked'
  BY MarkedKept
<1>3. IInv /\ Marked => ActiveListIsOpenRows
  <2> SUFFICES ASSUME IInv, Marked PROVE ActiveListIsOpenRows
    OBVIOUS
  <2>1. ASSUME NEW e \in 1 .. Len(events)
        PROVE  events[e].service \in Services /\ events[e].type \in {"down", "recovered"}
    <3>1. events[e] \in Row
      BY <2>1, RowColumns DEF IInv, TypeOK
    <3> QED
      BY <3>1 DEF Row
  <2>2. ASSUME NEW e \in 1 .. Len(events)
        PROVE  e \in ActiveList(events) <=>
                 e \in OpenRows(events, events[e].service)
    BY <2>1, <2>2 DEF Marked, ActiveList, OpenRows, DownRows
  <2>3. \A s \in Services : \A e \in OpenRows(events, s) :
          e \in 1 .. Len(events) /\ s = events[e].service
    BY DEF OpenRows, DownRows
  <2>4. ActiveList(events) \subseteq 1 .. Len(events)
    BY DEF ActiveList
  <2> QED
    BY <2>1, <2>2, <2>3, <2>4 DEF ActiveListIsOpenRows
<1> QED
  BY <1>1, <1>2, <1>3, Invariance, PTL DEF Spec

-----------------------------------------------------------------------------
(* History.                                                                *)

\* An outage that another one has followed is never written again.
THEOREM HistoryStaysFrozen == Spec => HistoryFrozen
<1> DEFINE Frozen == \A s \in Services : \A e, f \in DownRows(events, s) :
                       e < f => events'[e] = events[e]
<1>1. IInv /\ [Next]_vars => Frozen
  <2> SUFFICES ASSUME IInv, [Next]_vars, NEW s \in Services,
                      NEW e \in DownRows(events, s), NEW f \in DownRows(events, s),
                      e < f
               PROVE  events'[e] = events[e]
    OBVIOUS
  <2>1. events \in Table /\ clock \in Nat /\ e \in 1 .. Len(events) /\ f \in 1 .. Len(events)
    BY DEF IInv, TypeOK, DownRows
  <2>2. CASE OpensOutage
    <3>1. DownAdded(events', events, svc, clock)
      BY <2>1, <2>2, InsertDownRows DEF OpensOutage
    <3> QED
      BY <2>1, <3>1 DEF DownAdded
  <2>3. CASE Announces
    <3>1. RecoveredAdded(events', events, svc, clock)
      BY <2>1, <2>3, InsertRecoveredRows DEF Announces
    <3> QED
      BY <2>1, <3>1 DEF RecoveredAdded
  <2>4. CASE ClosesLast
    <3>1. activeEvents[svc] \in 1 .. Len(events)
      BY <2>4 DEF ClosesLast, DownRows
    <3>2. e # activeEvents[svc]
      BY <2>1, <2>4, <3>1 DEF ClosesLast, DownRows
    <3>3. RowEnded(events', events, activeEvents[svc], clock)
      BY <2>1, <2>4, <3>1, CloseRowRows DEF ClosesLast
    <3> QED
      BY <2>1, <3>2, <3>3 DEF RowEnded
  <2> QED
    BY <2>2, <2>3, <2>4, StepOnTable
<1>2. IInv /\ [Next]_vars => [Frozen]_vars
  BY <1>1
<1> QED
  BY <1>2, Invariance, PTL DEF Spec, HistoryFrozen

-----------------------------------------------------------------------------
(* The refinement.                                                         *)

LEMMA LogStutters ==
  ASSUME UNCHANGED events
  PROVE  UNCHANGED Log!vars
  BY DEF Log!vars, DownRows, OpenRows, RecoveredRows

LEMMA LogOpens ==
  ASSUME IInv, OpensOutage, Len(events) + 1 \in Ids
  PROVE  Log!Open(svc, Len(events) + 1)
<1>1. /\ events \in Table /\ clock \in Nat /\ Len(events) \in Nat /\ svc \in Services
      /\ OpenRows(events, svc) = {} /\ events' = InsertDown(events, svc, clock)
  BY DEF IInv, TypeOK, Table, OpensOutage
<1>2. DownAdded(events', events, svc, clock)
  BY <1>1, InsertDownRows
<1>3. /\ Outages(events') = [Outages(events) EXCEPT ![svc] = @ \cup {Len(events) + 1}]
      /\ Opens(events') = [Opens(events) EXCEPT ![svc] = {Len(events) + 1}]
      /\ Announced(events') = Announced(events)
  BY <1>1, <1>2, DownAddedLog
<1>4. Len(events) + 1 \notin Log!Used
  BY <1>1, IdIsNew DEF Log!Used, Outages, Announced
<1> QED
  BY <1>1, <1>3, <1>4 DEF Log!Open, Outages, Opens, Announced

LEMMA LogAnnounces ==
  ASSUME IInv, Announces, Len(events) + 1 \in Ids
  PROVE  Log!Announce(svc, Len(events) + 1)
<1>1. /\ events \in Table /\ clock \in Nat /\ Len(events) \in Nat /\ svc \in Services
      /\ OpenRows(events, svc) = {} /\ DownRows(events, svc) # {}
      /\ events' = InsertRecovered(events, svc, clock)
  BY DEF IInv, TypeOK, Table, Announces
<1>2. RecoveredAdded(events', events, svc, clock)
  BY <1>1, InsertRecoveredRows
<1>3. /\ Outages(events') = Outages(events) /\ Opens(events') = Opens(events)
      /\ Announced(events') = [Announced(events) EXCEPT ![svc] = @ \cup {Len(events) + 1}]
  BY <1>1, <1>2, RecoveredAddedLog
<1>4. Len(events) + 1 \notin Log!Used
  BY <1>1, IdIsNew DEF Log!Used, Outages, Announced
<1> QED
  BY <1>1, <1>3, <1>4 DEF Log!Announce, Outages, Opens, Announced

\* The UPDATE closes the open outage, or repeats itself on a closed one.
LEMMA LogCloses ==
  ASSUME IInv, ClosesLast
  PROVE  Log!Close(svc) \/ UNCHANGED Log!vars
<1> DEFINE c == activeEvents[svc]
<1>1. /\ TypeOK /\ OutagesDisjoint /\ events \in Table /\ clock \in Nat
      /\ svc \in Services /\ c \in DownRows(events, svc)
      /\ \A f \in DownRows(events, svc) : f <= c
      /\ events' = CloseRow(events, c, clock)
  BY DEF IInv, TypeOK, ClosesLast
<1> HIDE DEF c
<1>2. c \in 1 .. Len(events)
  BY <1>1 DEF DownRows
<1>3. RowEnded(events', events, c, clock)
  BY <1>1, <1>2, CloseRowRows
<1>4. OpenRows(events, svc) \subseteq {c}
  <2> SUFFICES ASSUME NEW e \in OpenRows(events, svc) PROVE e = c
    OBVIOUS
  <2>1. e \in DownRows(events, svc) /\ c <= e
    BY <1>1, OpenIsLast DEF OpenRows
  <2>2. DownRows(events, svc) \subseteq Nat
    BY <1>1 DEF Table, DownRows
  <2> QED
    BY <1>1, <2>1, <2>2
<1>5. /\ Outages(events') = Outages(events) /\ Announced(events') = Announced(events)
      /\ \/ OpenRows(events, svc) # {} /\ Opens(events') = [Opens(events) EXCEPT ![svc] = {}]
         \/ Opens(events') = Opens(events)
  BY <1>1, <1>3, <1>4, RowEndedLog
<1> QED
  BY <1>1, <1>5 DEF Log!Close, Log!vars, Outages, Opens, Announced

\* Every step of the collector is a step of the log or changes nothing there,
\* whatever fails, if the log may call its rows by any number.
THEOREM ImplementsOutageLog ==
  ASSUME Nat \subseteq Ids
  PROVE  Spec => RefinesOutageLog
<1>1. Init => Log!Init
  <2> SUFFICES ASSUME Init, NEW s \in Services
               PROVE  /\ DownRows(events, s) = {} /\ OpenRows(events, s) = {}
                      /\ RecoveredRows(events, s) = {}
    BY DEF Log!Init
  <2> QED
    BY DEF Init, DownRows, OpenRows, RecoveredRows
<1>2. IInv /\ [Next]_vars => [Log!Next]_(Log!vars)
  <2> SUFFICES ASSUME IInv, [Next]_vars PROVE Log!Next \/ UNCHANGED Log!vars
    OBVIOUS
  <2>1. Len(events) + 1 \in Ids
    BY DEF IInv, TypeOK, Table
  <2>2. CASE OpensOutage
    BY <2>1, <2>2, LogOpens DEF Log!Next, OpensOutage
  <2>3. CASE Announces
    BY <2>1, <2>3, LogAnnounces DEF Log!Next, Announces
  <2>4. CASE ClosesLast
    BY <2>4, LogCloses DEF Log!Next, ClosesLast
  <2> QED
    BY <2>2, <2>3, <2>4, StepOnTable, LogStutters
<1> QED
  BY <1>1, <1>2, Invariance, PTL DEF Spec, RefinesOutageLog, Log!Spec

-----------------------------------------------------------------------------
(* Announcements.                                                          *)

\* As long as every acknowledgement arrives, no announcement follows an outage
\* that is open, or one whose id the map still holds: it has not been announced.
Unannounced ==
  faults.lost = 0 =>
    \A s \in Services : \A q \in RecoveredRows(events, s) :
      /\ \A e \in OpenRows(events, s) : q < e
      /\ HeldEvent(s) => q < activeEvents[s]

\* What each of the four things does to the map.
MapKeeps ==
  \A s \in Services : HeldEvent(s)' =>
    \/ HeldEvent(s) /\ activeEvents'[s] = activeEvents[s]
    \/ activeEvents'[s] \in OpenRows(events, s)

MapAfterInsert ==
  \A s \in Services : HeldEvent(s)' =>
    \/ HeldEvent(s) /\ activeEvents'[s] = activeEvents[s] /\ s # svc
    \/ activeEvents'[s] = Len(events) + 1 /\ s = svc

MapAfterAnnounce ==
  /\ activeEvents[svc] \in DownRows(events, svc) /\ HeldEvent(svc)
  /\ events[activeEvents[svc]].ended # NULL
  /\ \A s \in Services : HeldEvent(s)' =>
       HeldEvent(s) /\ activeEvents'[s] = activeEvents[s] /\ s # svc

LEMMA StepOnMap ==
  ASSUME IInv, [Next]_vars, faults'.lost = 0
  PROVE  /\ faults.lost = 0
         /\ \/ UNCHANGED events /\ MapKeeps
            \/ OpensOutage /\ MapAfterInsert
            \/ ClosesLast /\ UNCHANGED activeEvents
            \/ Announces /\ MapAfterAnnounce
<1>1. TypeOK /\ MapHoldsLastOutage /\ StatementContext
  BY DEF IInv
<1>2. Succeeds \/ Fails \/ AckLost \/ faults'.lost = faults.lost => faults.lost = 0
  BY <1>1 DEF TypeOK, Succeeds, Fails, AckLost
<1>3. ~AckLost
  BY <1>1 DEF TypeOK, AckLost
<1>4. NoEvent # NULL /\ Len(events) + 1 \in Nat
  BY <1>1, NullAssumption DEF NoEvent, TypeOK, Table
<1>5. ASSUME UNCHANGED activeEvents PROVE MapKeeps
  BY <1>5 DEF MapKeeps, HeldEvent
<1>6. CASE RecordDown
  <2>1. svc \in Services /\ ~HeldEvent(svc) /\ OpenRows(events, svc) = {}
    BY <1>1, <1>6 DEF StatementContext, RecordDown
  <2>2. CASE UNCHANGED <<events, activeEvents>>
    BY <1>2, <1>5, <1>6, <2>2 DEF RecordDown, WriteError
  <2>3. CASE /\ events' = InsertDown(events, svc, clock)
             /\ activeEvents' = [activeEvents EXCEPT ![svc] = Len(events')]
    <3>1. Len(events') = Len(events) + 1
      BY <1>1, <2>1, <2>3, InsertDownRows DEF TypeOK, DownAdded
    <3>2. MapAfterInsert
      BY <1>1, <2>1, <2>3, <3>1 DEF MapAfterInsert, HeldEvent, TypeOK
    <3> QED
      BY <1>2, <1>6, <2>1, <2>3, <3>2 DEF OpensOutage, RecordDown, WriteError
  <2> QED
    BY <1>3, <1>6, <2>2, <2>3 DEF RecordDown, WriteError, EventFailed
<1>7. CASE CloseEvent
  <2>1. UNCHANGED activeEvents /\ (Succeeds \/ Fails \/ AckLost)
    BY <1>7 DEF CloseEvent, WriteError, EventFailed
  <2>2. UNCHANGED events \/ events' = CloseRow(events, activeEvents[svc], clock)
    BY <1>7 DEF CloseEvent, WriteError
  <2>3. svc \in Services /\ HeldEvent(svc)
    BY <1>1, <1>7 DEF StatementContext, CloseEvent
  <2> QED
    BY <1>1, <1>2, <1>5, <2>1, <2>2, <2>3 DEF ClosesLast, MapHoldsLastOutage
<1>8. CASE RecordRecovered
  <2>1. /\ svc \in Services /\ HeldEvent(svc) /\ events[activeEvents[svc]].ended # NULL
        /\ activeEvents[svc] \in DownRows(events, svc)
        /\ OpenRows(events, svc) = {} /\ DownRows(events, svc) # {}
    BY <1>8, ClosedBeforeAnnounced DEF RecordRecovered
  <2>2. CASE UNCHANGED <<events, activeEvents>>
    BY <1>2, <1>5, <1>8, <2>2 DEF RecordRecovered, WriteError
  <2>3. CASE /\ Succeeds /\ events' = InsertRecovered(events, svc, clock)
             /\ activeEvents' = [activeEvents EXCEPT ![svc] = NoEvent]
    <3>1. Announces
      BY <1>8, <2>1, <2>3 DEF Announces
    <3>2. MapAfterAnnounce
      BY <1>1, <2>1, <2>3 DEF MapAfterAnnounce, HeldEvent, TypeOK
    <3> QED
      BY <1>2, <2>3, <3>1, <3>2
  <2> QED
    BY <1>3, <1>8, <2>2, <2>3 DEF RecordRecovered, WriteError, EventFailed
<1>9. CASE Sync \/ CheckOpen
  <2>1. svc \in Services /\ UNCHANGED events /\ (Succeeds \/ Fails \/ AckLost)
    BY <1>1, <1>9 DEF StatementContext, Sync, CheckOpen, db, ReadError
  <2>2. \/ UNCHANGED activeEvents
        \/ activeEvents' = [activeEvents EXCEPT ![svc] = ActiveEvent(events, svc)]
    BY <1>9 DEF Sync, CheckOpen, EventFailed
  <2>3. CASE activeEvents' = [activeEvents EXCEPT ![svc] = ActiveEvent(events, svc)]
    <3>1. ActiveEvent(events, svc) # NoEvent =>
            ActiveEvent(events, svc) \in OpenRows(events, svc)
      BY <1>1, <2>1, ActiveEventRow DEF TypeOK
    <3>2. MapKeeps
      BY <1>1, <2>1, <2>3, <3>1 DEF MapKeeps, HeldEvent, TypeOK
    <3> QED
      BY <1>2, <2>1, <3>2
  <2> QED
    BY <1>2, <1>5, <2>1, <2>2, <2>3
<1>10. CASE UNCHANGED vars
  BY <1>2, <1>5, <1>10 DEF vars, db, mem
<1>11. CASE PingOk \/ PingRetry \/ GetServices \/ GetServicesError \/ SyncError
  BY <1>2, <1>5, <1>11 DEF PingOk, PingRetry, GetServices, GetServicesError,
    SyncError, db, ReadError
<1>12. CASE (\E s \in Services : StartService(s)) \/ Probe
  BY <1>2, <1>5, <1>12 DEF StartService, Probe, db
<1>13. CASE SaveMetric \/ SaveCollectorRun
  BY <1>2, <1>5, <1>13 DEF SaveMetric, SaveCollectorRun, WriteError
<1>14. CASE GiveUp \/ Crash
  <2>1. /\ UNCHANGED events /\ activeEvents' = [s \in Services |-> NULL]
        /\ faults'.lost = faults.lost
    BY <1>1, <1>14 DEF GiveUp, Crash, Exit, db, ReadError, Fails, TypeOK
  <2> QED
    BY <1>2, <2>1 DEF MapKeeps, HeldEvent
<1>15. CASE Restart \/ \E s \in Services : Flip(s)
  BY <1>2, <1>5, <1>15 DEF Restart, Flip, db, mem
<1> QED
  BY <1>6, <1>7, <1>8, <1>9, <1>10, <1>11, <1>12, <1>13, <1>14, <1>15 DEF Next, Step

LEMMA UnannouncedStep ==
  ASSUME IInv, Unannounced, [Next]_vars
  PROVE  Unannounced'
<1> SUFFICES ASSUME faults'.lost = 0, NEW s \in Services, NEW q \in RecoveredRows(events', s)
             PROVE  /\ \A e \in OpenRows(events', s) : q < e
                    /\ HeldEvent(s)' => q < activeEvents'[s]
  BY DEF Unannounced
<1>1. /\ TypeOK /\ clock \in Nat /\ events \in Table /\ Len(events) \in Nat
      /\ faults.lost = 0
  BY StepOnMap DEF IInv, TypeOK, Table
<1>2. \A u \in Services : \A r \in RecoveredRows(events, u) :
        /\ r \in 1 .. Len(events)
        /\ \A e \in OpenRows(events, u) : r < e
        /\ HeldEvent(u) => r < activeEvents[u]
  BY <1>1 DEF Unannounced, RecoveredRows
<1>3. CASE UNCHANGED events /\ MapKeeps
  BY <1>2, <1>3 DEF MapKeeps
<1>4. CASE OpensOutage /\ MapAfterInsert
  <2>1. DownAdded(events', events, svc, clock)
    BY <1>1, <1>4, InsertDownRows DEF OpensOutage
  <2>2. q \in RecoveredRows(events, s) /\ q < Len(events) + 1
    BY <1>1, <1>2, <2>1 DEF DownAdded
  <2>3. \A e \in OpenRows(events', s) : e \in OpenRows(events, s) \/ e = Len(events) + 1
    BY <2>1 DEF DownAdded, New
  <2> QED
    BY <1>2, <1>4, <2>2, <2>3 DEF MapAfterInsert
<1>5. CASE ClosesLast /\ UNCHANGED activeEvents
  <2>1. activeEvents[svc] \in 1 .. Len(events)
    BY <1>5 DEF ClosesLast, DownRows
  <2>2. RowEnded(events', events, activeEvents[svc], clock)
    BY <1>1, <1>5, <2>1, CloseRowRows DEF ClosesLast
  <2>3. q \in RecoveredRows(events, s) /\ OpenRows(events', s) \subseteq OpenRows(events, s)
    BY <2>2 DEF RowEnded
  <2> QED
    BY <1>2, <1>5, <2>3 DEF HeldEvent
<1>6. CASE Announces /\ MapAfterAnnounce
  <2>1. RecoveredAdded(events', events, svc, clock)
    BY <1>1, <1>6, InsertRecoveredRows DEF Announces
  <2>2. OpenRows(events', s) = OpenRows(events, s)
    BY <2>1 DEF RecoveredAdded
  <2>3. CASE s = svc
    BY <1>6, <2>2, <2>3 DEF Announces, MapAfterAnnounce
  <2>4. CASE s # svc
    <3>1. q \in RecoveredRows(events, s)
      BY <2>1, <2>4 DEF RecoveredAdded, New
    <3> QED
      BY <1>2, <1>6, <2>2, <3>1 DEF MapAfterAnnounce
  <2> QED
    BY <2>3, <2>4
<1> QED
  BY <1>3, <1>4, <1>5, <1>6, StepOnMap

\* e is the outage that r announces: no other announcement lies between them.
AnnouncedBy(tbl, s, e, r) ==
  /\ e < r /\ tbl[e].ended # NULL
  /\ \A q \in RecoveredRows(tbl, s) : ~(e < q /\ q < r)

LEMMA AnnouncedStep ==
  ASSUME IInv, Unannounced, AnnouncedOnce, [Next]_vars
  PROVE  AnnouncedOnce'
<1> SUFFICES ASSUME faults'.lost = 0, NEW s \in Services, NEW r \in RecoveredRows(events', s)
             PROVE  \E e \in DownRows(events', s) : AnnouncedBy(events', s, e, r)
  BY DEF AnnouncedOnce, AnnouncedBy
<1>1. /\ TypeOK /\ clock \in Nat /\ events \in Table /\ Len(events) \in Nat
      /\ faults.lost = 0
  BY StepOnMap DEF IInv, TypeOK, Table
<1>2. \A x \in RecoveredRows(events, s) :
        \E e \in DownRows(events, s) : AnnouncedBy(events, s, e, x)
  BY <1>1 DEF AnnouncedOnce, AnnouncedBy
<1>3. /\ RecoveredRows(events, s) \subseteq 1 .. Len(events)
      /\ DownRows(events, s) \subseteq 1 .. Len(events)
  BY DEF RecoveredRows, DownRows
<1>4. CASE UNCHANGED events
  BY <1>2, <1>4
<1>5. CASE OpensOutage
  <2>1. DownAdded(events', events, svc, clock)
    BY <1>1, <1>5, InsertDownRows DEF OpensOutage
  <2>2. /\ RecoveredRows(events', s) = RecoveredRows(events, s)
        /\ DownRows(events, s) \subseteq DownRows(events', s)
        /\ \A e \in 1 .. Len(events) : events'[e] = events[e]
    BY <2>1 DEF DownAdded
  <2>3. PICK e \in DownRows(events, s) : AnnouncedBy(events, s, e, r)
    BY <1>2, <2>2
  <2> QED
    BY <1>3, <2>2, <2>3 DEF AnnouncedBy
<1>6. CASE ClosesLast
  <2>1. activeEvents[svc] \in 1 .. Len(events)
    BY <1>6 DEF ClosesLast, DownRows
  <2>2. RowEnded(events', events, activeEvents[svc], clock)
    BY <1>1, <1>6, <2>1, CloseRowRows DEF ClosesLast
  <2>3. /\ RecoveredRows(events', s) = RecoveredRows(events, s)
        /\ DownRows(events', s) = DownRows(events, s)
    BY <2>2 DEF RowEnded
  <2>4. PICK e \in DownRows(events, s) : AnnouncedBy(events, s, e, r)
    BY <1>2, <2>3
  <2>5. events'[e].ended # NULL
    <3>1. CASE e = activeEvents[svc]
      BY <1>1, <2>2, <3>1, NullAssumption DEF RowEnded
    <3>2. CASE e # activeEvents[svc]
      BY <1>3, <2>2, <2>4, <3>2 DEF RowEnded, AnnouncedBy
    <3> QED
      BY <3>1, <3>2
  <2> QED
    BY <2>3, <2>4, <2>5 DEF AnnouncedBy
<1>7. CASE Announces /\ MapAfterAnnounce
  <2> DEFINE n == Len(events) + 1
  <2>1. RecoveredAdded(events', events, svc, clock)
    BY <1>1, <1>7, InsertRecoveredRows DEF Announces
  <2>2. /\ RecoveredRows(events', s) = RecoveredRows(events, s) \cup New(events, s, svc)
        /\ DownRows(events', s) = DownRows(events, s)
        /\ \A e \in 1 .. Len(events) : events'[e] = events[e]
    BY <2>1 DEF RecoveredAdded
  <2>3. CASE r \in RecoveredRows(events, s)
    <3>1. PICK e \in DownRows(events, s) : AnnouncedBy(events, s, e, r)
      BY <1>2, <2>3
    <3>2. e < r /\ r < n /\ events'[e].ended # NULL
      BY <1>1, <1>3, <2>2, <2>3, <3>1 DEF AnnouncedBy
    <3>3. \A q \in RecoveredRows(events', s) : q \in RecoveredRows(events, s) \/ q = n
      BY <2>2 DEF New
    <3>4. \A q \in RecoveredRows(events', s) : ~(e < q /\ q < r)
      BY <1>1, <1>3, <2>3, <3>1, <3>2, <3>3 DEF AnnouncedBy
    <3> QED
      BY <2>2, <3>2, <3>4 DEF AnnouncedBy
  <2>4. CASE r \notin RecoveredRows(events, s)
    <3>1. r = n /\ s = svc
      BY <2>2, <2>4 DEF New
    <3>2. activeEvents[s] \in DownRows(events, s) /\ events[activeEvents[s]].ended # NULL
      BY <1>7, <3>1 DEF MapAfterAnnounce
    <3>3. \A q \in RecoveredRows(events, s) : q < activeEvents[s]
      BY <1>1, <1>7, <3>1 DEF Unannounced, MapAfterAnnounce
    <3>4. activeEvents[s] < n /\ events'[activeEvents[s]].ended # NULL
      BY <1>1, <1>3, <2>2, <3>2
    <3>5. \A q \in RecoveredRows(events', s) : q \in RecoveredRows(events, s) \/ q = n
      BY <2>2 DEF New
    <3>6. \A q \in RecoveredRows(events', s) : ~(activeEvents[s] < q /\ q < n)
      BY <1>1, <1>3, <3>2, <3>3, <3>5
    <3> QED
      BY <2>2, <3>1, <3>2, <3>4, <3>6 DEF AnnouncedBy
  <2> QED
    BY <2>3, <2>4
<1> QED
  BY <1>4, <1>5, <1>6, <1>7, StepOnMap

\* Unless an acknowledgement is lost, each 'recovered' row announces the end of
\* an outage of its own, whatever statements fail and whenever the process dies.
THEOREM AnnouncesOnce == Spec => []AnnouncedOnce
<1>1. Init => Unannounced /\ AnnouncedOnce
  <2> SUFFICES ASSUME Init, NEW s \in Services PROVE RecoveredRows(events, s) = {}
    BY DEF Unannounced, AnnouncedOnce
  <2> QED
    BY DEF Init, RecoveredRows
<1>2. IInv /\ Unannounced /\ AnnouncedOnce /\ [Next]_vars => (Unannounced /\ AnnouncedOnce)'
  BY UnannouncedStep, AnnouncedStep
<1> QED
  BY <1>1, <1>2, Invariance, PTL DEF Spec

-----------------------------------------------------------------------------
(* The poll.                                                               *)

InService == {"sync", "probe", "checkOpen", "insertDown", "closeRow",
              "insertRecovered", "saveMetric"}

\* Where no statement fails, the map knows which outages are open, except for
\* the one that RecordRecovered has closed and not yet announced.
MapTrue ==
  \A s \in Services :
    /\ activeEvents[s] = NoEvent => OpenRows(events, s) = {}
    /\ HeldEvent(s) /\ (pc = "insertRecovered" => s # svc) => OpenRows(events, s) # {}

\* What processService has found out about its service so far.
ServiceTrue ==
  /\ pc = "probe" => activeEvents[svc] # NULL
  /\ pc \in {"checkOpen", "insertDown"} => isDown = TRUE
  /\ pc \in {"closeRow", "insertRecovered"} => isDown = FALSE
  /\ pc = "saveMetric" => (isDown = TRUE <=> OpenRows(events, svc) # {})
  /\ pc \in InService => svc \in todo
  /\ pc = "saveRun" => todo = {}

\* The services that the poll is done with.
MetricTrue ==
  pc \in InService \cup {"next", "saveRun"} =>
    \A s \in Services \ todo : metric[s] = "offline" <=> OpenRows(events, s) # {}

PollTrue == MapTrue /\ ServiceTrue /\ MetricTrue

LEMMA NothingFails ==
  ASSUME TypeOK, [Next]_vars, StatementsWork'
  PROVE  StatementsWork /\ ~Fails /\ ~AckLost
<1>1. ~Fails /\ ~AckLost
  BY DEF TypeOK, StatementsWork, Fails, AckLost
<1>2. Succeeds => StatementsWork
  BY DEF Succeeds, StatementsWork
<1>3. CASE GiveUp \/ PingRetry \/ GetServicesError \/ SyncError
  BY <1>1, <1>3 DEF GiveUp, PingRetry, GetServicesError, SyncError, ReadError, Exit
<1>4. CASE PingOk \/ GetServices \/ Sync
  BY <1>1, <1>2, <1>4 DEF PingOk, GetServices, Sync
<1>5. CASE CheckOpen \/ RecordDown \/ CloseEvent \/ RecordRecovered
  BY <1>1, <1>2, <1>5 DEF CheckOpen, RecordDown, CloseEvent, RecordRecovered,
    ReadError, WriteError
<1>6. CASE SaveMetric \/ SaveCollectorRun
  BY <1>1, <1>2, <1>6 DEF SaveMetric, SaveCollectorRun, WriteError
<1>7. CASE (\E s \in Services : StartService(s)) \/ Probe
  BY <1>1, <1>7 DEF StartService, Probe, StatementsWork
<1>8. CASE (\E s \in Services : Flip(s)) \/ Restart \/ UNCHANGED vars
  BY <1>1, <1>8 DEF Flip, Restart, StatementsWork, vars
<1>9. CASE Crash
  BY <1>1, <1>9 DEF Crash, TypeOK, StatementsWork
<1> QED
  BY <1>1, <1>3, <1>4, <1>5, <1>6, <1>7, <1>8, <1>9 DEF Next, Step

LEMMA PollStep ==
  ASSUME IInv, PollTrue, [Next]_vars, ~Fails, ~AckLost
  PROVE  PollTrue'
<1>1. /\ TypeOK /\ OutagesDisjoint /\ MapHoldsLastOutage /\ StatementContext
      /\ MapTrue /\ ServiceTrue /\ MetricTrue
      /\ events \in Table /\ clock \in Nat /\ Len(events) \in Nat
      /\ activeEvents \in [Services -> Nat \cup {NULL}]
  BY DEF IInv, PollTrue, TypeOK, Table
<1>2. NoEvent # NULL
  BY NullAssumption DEF NoEvent
<1>3. CASE RecordDown
  <2>1. /\ pc = "insertDown" /\ pc' = "saveMetric" /\ svc \in Services
        /\ events' = InsertDown(events, svc, clock)
        /\ activeEvents' = [activeEvents EXCEPT ![svc] = Len(events')]
        /\ UNCHANGED <<metric, todo, svc, isDown>>
    BY <1>1, <1>3 DEF RecordDown, WriteError, StatementContext
  <2>2. DownAdded(events', events, svc, clock)
    BY <1>1, <2>1, InsertDownRows
  <2>3. /\ Len(events') = Len(events) + 1 /\ OpenRows(events', svc) # {}
        /\ \A s \in Services : s # svc => OpenRows(events', s) = OpenRows(events, s)
    BY <2>1, <2>2 DEF DownAdded, New
  <2>4. MapTrue'
    <3>1. Len(events') # NoEvent /\ activeEvents'[svc] = Len(events')
      BY <1>1, <2>1, <2>3 DEF NoEvent
    <3>2. \A s \in Services : s # svc => activeEvents'[s] = activeEvents[s]
      BY <1>1, <2>1
    <3> QED
      BY <1>1, <2>1, <2>3, <3>1, <3>2 DEF MapTrue, HeldEvent
  <2>5. ServiceTrue'
    BY <1>1, <2>1, <2>3 DEF ServiceTrue, InService
  <2>6. MetricTrue'
    BY <1>1, <2>1, <2>3 DEF MetricTrue, ServiceTrue, InService
  <2> QED
    BY <2>4, <2>5, <2>6 DEF PollTrue
<1>4. CASE CheckOpen
  <2>1. /\ pc = "checkOpen" /\ svc \in Services /\ isDown = TRUE /\ svc \in todo
        /\ UNCHANGED <<events, metric, todo, svc, isDown>>
    BY <1>1, <1>4 DEF CheckOpen, db, StatementContext, ServiceTrue, InService
  <2>2. /\ ActiveEvent(events, svc) \in Nat
        /\ ActiveEvent(events, svc) = NoEvent <=> OpenRows(events, svc) = {}
    BY <1>1, <2>1, ActiveEventRow
  <2>3. CASE /\ ActiveEvent(events, svc) # NoEvent /\ pc' = "saveMetric"
             /\ activeEvents' = [activeEvents EXCEPT ![svc] = ActiveEvent(events, svc)]
    <3>1. MapTrue'
      BY <1>1, <2>1, <2>2, <2>3 DEF MapTrue, HeldEvent
    <3>2. ServiceTrue'
      BY <1>1, <2>1, <2>2, <2>3 DEF ServiceTrue, InService
    <3>3. MetricTrue'
      BY <1>1, <2>1, <2>3 DEF MetricTrue, InService
    <3> QED
      BY <3>1, <3>2, <3>3 DEF PollTrue
  <2>4. CASE UNCHANGED activeEvents /\ pc' = "insertDown"
    <3>1. MapTrue'
      BY <1>1, <2>1, <2>4 DEF MapTrue, HeldEvent
    <3>2. ServiceTrue'
      BY <1>1, <2>1, <2>4 DEF ServiceTrue, InService
    <3>3. MetricTrue'
      BY <1>1, <2>1, <2>4 DEF MetricTrue, InService
    <3> QED
      BY <3>1, <3>2, <3>3 DEF PollTrue
  <2> QED
    BY <1>4, <2>3, <2>4 DEF CheckOpen, ReadError
<1>5. CASE CloseEvent
  <2>1. /\ pc = "closeRow" /\ pc' = "insertRecovered" /\ svc \in Services
        /\ HeldEvent(svc) /\ isDown = FALSE /\ svc \in todo
        /\ events' = CloseRow(events, activeEvents[svc], clock)
        /\ UNCHANGED <<activeEvents, metric, todo, svc, isDown>>
    BY <1>1, <1>5 DEF CloseEvent, WriteError, StatementContext, ServiceTrue, InService
  <2>2. activeEvents[svc] \in DownRows(events, svc) /\ activeEvents[svc] \in 1 .. Len(events)
    BY <1>1, <2>1 DEF MapHoldsLastOutage, DownRows
  <2>3. RowEnded(events', events, activeEvents[svc], clock)
    BY <1>1, <2>1, <2>2, CloseRowRows
  <2>4. \A s \in Services : s # svc => OpenRows(events', s) = OpenRows(events, s)
    BY <2>2, <2>3 DEF RowEnded, OpenRows, DownRows
  <2>5. MapTrue'
    <3>1. activeEvents[svc] # NoEvent
      BY <2>1 DEF HeldEvent
    <3> QED
      BY <1>1, <2>1, <2>4, <3>1 DEF MapTrue, HeldEvent
  <2>6. ServiceTrue'
    BY <1>1, <2>1 DEF ServiceTrue, InService
  <2>7. MetricTrue'
    BY <1>1, <2>1, <2>4 DEF MetricTrue, InService
  <2> QED
    BY <2>5, <2>6, <2>7 DEF PollTrue
<1>6. CASE RecordRecovered
  <2>1. /\ pc = "insertRecovered" /\ pc' = "saveMetric" /\ svc \in Services
        /\ isDown = FALSE /\ svc \in todo
        /\ events' = InsertRecovered(events, svc, clock)
        /\ activeEvents' = [activeEvents EXCEPT ![svc] = NoEvent]
        /\ UNCHANGED <<metric, todo, svc, isDown>>
    BY <1>1, <1>6 DEF RecordRecovered, WriteError, StatementContext, ServiceTrue, InService
  <2>2. RecoveredAdded(events', events, svc, clock)
    BY <1>1, <2>1, InsertRecoveredRows
  <2>3. /\ \A s \in Services : OpenRows(events', s) = OpenRows(events, s)
        /\ OpenRows(events, svc) = {}
    BY <2>1, <2>2, ClosedBeforeAnnounced DEF RecoveredAdded
  <2>4. MapTrue'
    <3>1. \A s \in Services : activeEvents'[s] = IF s = svc THEN NoEvent ELSE activeEvents[s]
      BY <1>1, <2>1
    <3> QED
      BY <1>1, <2>1, <2>3, <3>1 DEF MapTrue, HeldEvent
  <2>5. ServiceTrue'
    BY <1>1, <2>1, <2>3 DEF ServiceTrue, InService
  <2>6. MetricTrue'
    BY <1>1, <2>1, <2>3 DEF MetricTrue, InService
  <2> QED
    BY <2>4, <2>5, <2>6 DEF PollTrue
<1>7. CASE Sync
  <2>1. /\ pc = "sync" /\ pc' = "probe" /\ svc \in Services /\ svc \in todo
        /\ activeEvents' = [activeEvents EXCEPT ![svc] = ActiveEvent(events, svc)]
        /\ UNCHANGED <<events, metric, todo, svc, isDown>>
    BY <1>1, <1>7 DEF Sync, db, StatementContext, ServiceTrue, InService
  <2>2. /\ ActiveEvent(events, svc) \in Nat /\ ActiveEvent(events, svc) # NULL
        /\ ActiveEvent(events, svc) = NoEvent <=> OpenRows(events, svc) = {}
    BY <1>1, <2>1, ActiveEventRow, NullAssumption
  <2>3. MapTrue'
    BY <1>1, <2>1, <2>2 DEF MapTrue, HeldEvent
  <2>4. ServiceTrue'
    BY <1>1, <2>1, <2>2 DEF ServiceTrue, InService
  <2>5. MetricTrue'
    BY <1>1, <2>1 DEF MetricTrue, InService
  <2> QED
    BY <2>3, <2>4, <2>5 DEF PollTrue
<1>8. CASE Probe
  <2>1. /\ pc = "probe" /\ svc \in Services /\ svc \in todo
        /\ activeEvents[svc] # NULL /\ KnownEvent(svc) = activeEvents[svc]
        /\ UNCHANGED <<events, activeEvents, metric, todo, svc>>
    BY <1>1, <1>8 DEF Probe, db, StatementContext, ServiceTrue, InService, KnownEvent
  <2>2. /\ activeEvents[svc] = NoEvent => OpenRows(events, svc) = {}
        /\ activeEvents[svc] # NoEvent => OpenRows(events, svc) # {}
    BY <1>1, <2>1 DEF MapTrue, HeldEvent
  <2>3. \/ pc' = "checkOpen" /\ isDown' = TRUE
        \/ pc' = "closeRow" /\ isDown' = FALSE
        \/ pc' = "saveMetric" /\ (isDown' = TRUE <=> OpenRows(events, svc) # {})
    <3>1. CASE reach[svc] = TRUE
      BY <1>8, <2>1, <2>2, <3>1 DEF Probe
    <3>2. CASE reach[svc] = FALSE
      BY <1>8, <2>1, <2>2, <3>2 DEF Probe
    <3> QED
      BY <1>1, <2>1, <3>1, <3>2 DEF TypeOK
  <2>4. MapTrue'
    BY <1>1, <2>1, <2>3 DEF MapTrue, HeldEvent
  <2>5. ServiceTrue'
    BY <1>1, <2>1, <2>3 DEF ServiceTrue, InService
  <2>6. MetricTrue'
    BY <1>1, <2>1, <2>3 DEF MetricTrue, InService
  <2> QED
    BY <2>4, <2>5, <2>6 DEF PollTrue
<1>9. CASE SaveMetric
  <2>1. /\ pc = "saveMetric" /\ svc \in Services
        /\ isDown = TRUE <=> OpenRows(events, svc) # {}
        /\ metric' = [metric EXCEPT ![svc] = IF isDown THEN "offline" ELSE "online"]
        /\ todo' = todo \ {svc} /\ pc' \in {"next", "saveRun"}
        /\ pc' = "saveRun" => todo' = {}
        /\ UNCHANGED <<events, activeEvents>>
    BY <1>1, <1>9 DEF SaveMetric, WriteError, StatementContext, ServiceTrue, InService
  <2>2. MapTrue'
    BY <1>1, <2>1 DEF MapTrue, HeldEvent
  <2>3. ServiceTrue'
    BY <2>1 DEF ServiceTrue, InService
  <2>4. MetricTrue'
    <3>1. metric'[svc] = "offline" <=> OpenRows(events, svc) # {}
      BY <1>1, <2>1 DEF TypeOK
    <3>2. \A s \in Services : s # svc => metric'[s] = metric[s]
      BY <1>1, <2>1 DEF TypeOK
    <3> QED
      BY <1>1, <2>1, <3>1, <3>2 DEF MetricTrue, InService
  <2> QED
    BY <2>2, <2>3, <2>4 DEF PollTrue
<1>10. CASE GetServices
  <2>1. /\ pc = "poll" /\ todo' = Services /\ UNCHANGED <<events, activeEvents, metric>>
        /\ \/ pc' = "next"
           \/ pc' = "saveRun" /\ Services = {}
    BY <1>10 DEF GetServices, db
  <2>2. MapTrue'
    BY <1>1, <2>1 DEF MapTrue, HeldEvent
  <2>3. ServiceTrue' /\ MetricTrue'
    BY <2>1 DEF ServiceTrue, InService, MetricTrue
  <2> QED
    BY <2>2, <2>3 DEF PollTrue
<1>11. CASE \E s \in Services : StartService(s)
  <2>1. PICK s \in Services : StartService(s)
    BY <1>11
  <2>2. /\ pc = "next" /\ s \in todo /\ svc' = s
        /\ \/ pc' = "sync"
           \/ pc' = "probe" /\ activeEvents[s] # NULL
        /\ UNCHANGED <<events, activeEvents, metric, todo>>
    BY <2>1 DEF StartService, db
  <2>3. MapTrue'
    BY <1>1, <2>2 DEF MapTrue, HeldEvent
  <2>4. ServiceTrue'
    BY <2>2 DEF ServiceTrue, InService
  <2>5. MetricTrue'
    BY <1>1, <2>2 DEF MetricTrue, InService
  <2> QED
    BY <2>3, <2>4, <2>5 DEF PollTrue
<1>12. CASE PingOk \/ SaveCollectorRun \/ Restart
  <2>1. /\ pc \in {"connect", "saveRun", "dead"} /\ pc' \in {"connect", "poll"}
        /\ UNCHANGED <<events, activeEvents>>
    BY <1>12 DEF PingOk, SaveCollectorRun, Restart, db, mem
  <2>2. MapTrue'
    BY <1>1, <2>1 DEF MapTrue, HeldEvent
  <2>3. ServiceTrue' /\ MetricTrue'
    BY <2>1 DEF ServiceTrue, InService, MetricTrue
  <2> QED
    BY <2>2, <2>3 DEF PollTrue
<1>13. CASE Crash
  <2>1. pc' = "dead" /\ \A s \in Services : activeEvents'[s] = NULL
    BY <1>13 DEF Crash, Exit
  <2> QED
    BY <1>2, <2>1 DEF PollTrue, MapTrue, HeldEvent, ServiceTrue, MetricTrue, InService
<1>14. CASE (\E s \in Services : Flip(s)) \/ UNCHANGED vars
  <2>1. UNCHANGED <<pc, events, activeEvents, metric, todo, svc, isDown>>
    BY <1>14 DEF Flip, vars, db, mem
  <2>2. MapTrue'
    BY <1>1, <2>1 DEF MapTrue, HeldEvent
  <2>3. ServiceTrue'
    BY <1>1, <2>1 DEF ServiceTrue
  <2>4. MetricTrue'
    BY <1>1, <2>1 DEF MetricTrue
  <2> QED
    BY <2>2, <2>3, <2>4 DEF PollTrue
<1>15. ~GiveUp /\ ~PingRetry /\ ~GetServicesError /\ ~SyncError
  BY DEF GiveUp, PingRetry, GetServicesError, SyncError, ReadError
<1> QED
  BY <1>3, <1>4, <1>5, <1>6, <1>7, <1>8, <1>9, <1>10, <1>11, <1>12, <1>13, <1>14,
     <1>15 DEF Next, Step

\* With restarts but no failing statement, a finished poll leaves every last
\* metric in agreement with the service's open outage.
THEOREM TablesEndUpAgreeing == Spec => []TablesAgree
<1> DEFINE PollInv == StatementsWork => PollTrue
<1>1. Init => PollInv
  <2> SUFFICES ASSUME Init PROVE PollTrue
    OBVIOUS
  <2>1. pc = "connect" /\ \A s \in Services : activeEvents[s] = NULL
    BY DEF Init
  <2> QED
    BY <2>1, NullAssumption
      DEF PollTrue, MapTrue, HeldEvent, NoEvent, ServiceTrue, MetricTrue, InService
<1>2. IInv /\ PollInv /\ [Next]_vars => PollInv'
  BY NothingFails, PollStep DEF IInv
<1>3. PollInv => TablesAgree
  BY DEF PollTrue, ServiceTrue, MetricTrue, TablesAgree
<1> QED
  BY <1>1, <1>2, <1>3, Invariance, PTL DEF Spec
=============================================================================
