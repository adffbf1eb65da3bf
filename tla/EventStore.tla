----------------------------- MODULE EventStore -----------------------------
(***************************************************************************)
(* The service_events table (init/01_schema.sql) and the statements the    *)
(* collectors run on it.  A table is a sequence of rows: a row's position  *)
(* stands for its UUID and for its place in the insertion order.  Rows are *)
(* never deleted.  now() is an argument, so that the module that owns the  *)
(* clock decides what a timestamp is.                                      *)
(***************************************************************************)
EXTENDS Naturals, Sequences

CONSTANTS
  Services,  \* the enabled rows of monitored_services
  NULL       \* SQL's NULL; also the value of an absent key or variable

ASSUME NullAssumption == NULL \notin Nat /\ NULL \notin Services

\* The '' that stands for "no open event" in the collectors' maps.
NoEvent == 0

Row == [service  : Services,
        type     : {"down", "recovered"},
        started  : Nat,
        ended    : Nat \cup {NULL},
        resolved : BOOLEAN]

Table == Seq(Row)

\* The ids of the 'down' rows of service s, and those whose outage is open.
DownRows(tbl, s) ==
  {e \in 1 .. Len(tbl) : tbl[e].service = s /\ tbl[e].type = "down"}

OpenRows(tbl, s) == {e \in DownRows(tbl, s) : tbl[e].ended = NULL}

RecoveredRows(tbl, s) ==
  {e \in 1 .. Len(tbl) : tbl[e].service = s /\ tbl[e].type = "recovered"}

\* Mutant of ActiveEvent: the lookup finds nothing.
ActiveEventBlind(tbl, s) == NoEvent

\* Mutant of ActiveEvent: WHERE service_id = $1 is missing.
ActiveEventOfAny(tbl, s) ==
  LET rows == UNION {OpenRows(tbl, u) : u \in Services} IN
  IF rows = {} THEN NoEvent ELSE CHOOSE e \in rows : \A f \in rows : f <= e

\* SELECT id ... AND ended_at IS NULL ORDER BY started_at DESC LIMIT 1
ActiveEvent(tbl, s) ==
  IF OpenRows(tbl, s) = {}
  THEN NoEvent
  ELSE CHOOSE e \in OpenRows(tbl, s) : \A f \in OpenRows(tbl, s) : f <= e

\* INSERT of RecordDown: a row still open, not resolved.
InsertDown(tbl, s, now) ==
  Append(tbl, [service |-> s, type |-> "down", started |-> now,
               ended |-> NULL, resolved |-> FALSE])

\* Mutant of CloseRow: every 'down' row of the service is updated.
CloseRowOfService(tbl, e, now) ==
  [f \in 1 .. Len(tbl) |->
     IF f \in DownRows(tbl, tbl[e].service)
     THEN [tbl[f] EXCEPT !.ended = now, !.resolved = TRUE]
     ELSE tbl[f]]

\* UPDATE of RecordRecovered: by id alone, whatever the row holds.
CloseRow(tbl, e, now) ==
  IF e \in 1 .. Len(tbl)
  THEN [tbl EXCEPT ![e].ended = now, ![e].resolved = TRUE]
  ELSE tbl

\* Mutant of InsertRecovered: the column default, resolved = false, is kept.
InsertRecoveredUnresolved(tbl, s, now) ==
  Append(tbl, [service |-> s, type |-> "recovered", started |-> now,
               ended |-> NULL, resolved |-> FALSE])

\* INSERT of RecordRecovered: born resolved, and ended_at stays NULL.
InsertRecovered(tbl, s, now) ==
  Append(tbl, [service |-> s, type |-> "recovered", started |-> now,
               ended |-> NULL, resolved |-> TRUE])

\* What GET /api/monitoring/events/active and emitActiveEvents select.
ActiveList(tbl) ==
  {e \in 1 .. Len(tbl) : ~tbl[e].resolved /\ tbl[e].ended = NULL}
=============================================================================
