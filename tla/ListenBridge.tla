----------------------------- MODULE ListenBridge -----------------------------
(***************************************************************************)
(* How node_api turns INSERTs into Socket.IO broadcasts: connectListener   *)
(* and its reconnect timer (node_api/src/index.js), the triggers that call *)
(* pg_notify (init/01_schema.sql), and as much of the pg driver and of     *)
(* PostgreSQL as they rely on.  The event loop runs one callback at a      *)
(* time; an action is one callback, up to its next await.                  *)
(***************************************************************************)
EXTENDS Naturals, Sequences, FiniteSets, Functions

CONSTANTS
  Channels,     \* the channels, in the order connectListener LISTENs to them
  NULL,
  MaxRows,      \* bound: rows inserted into the tables with a trigger
  MaxBreaks,    \* bound: connections that break
  MaxRefusals   \* bound: connects and LISTENs that are refused

ASSUME BridgeAssumption ==
  /\ Channels \in Seq(STRING) /\ Channels # <<>>
  /\ NULL \notin Nat
  /\ MaxRows \in Nat /\ MaxBreaks \in Nat /\ MaxRefusals \in Nat

VARIABLES
  rows,         \* rows[n]: the channel the trigger of the n-th row notifies
  clients,      \* the clients listenerPool has handed out, oldest first
  current,      \* _listenerClient
  connecting,   \* calls of connectListener that await listenerPool.connect()
  timers,       \* pending setTimeouts; _reconnectTimer is set iff there is one
  emitted,      \* the rows broadcast, in the order of io.emit
  faults        \* faults so far

vars == <<rows, clients, current, connecting, timers, emitted, faults>>

\* A client is set up (its LISTENs are running), ready (the 'notification'
\* handler is attached), failed (a LISTEN was refused), lost (its 'error' event
\* has been handled), or released.
Phase == {"setup", "ready", "failed", "lost", "released"}

Client == [phase   : Phase,
           alive   : BOOLEAN,               \* its session exists
           listens : 0 .. Len(Channels),    \* LISTENs executed
           wire    : Seq(Nat)]              \* notifications on their way to it

TypeOK ==
  /\ rows \in Seq(Range(Channels))
  /\ clients \in Seq(Client)
  /\ current \in (1 .. Len(clients)) \cup {NULL}
  /\ connecting \in Nat
  /\ timers \in Nat
  /\ emitted \in Seq(1 .. Len(rows))
  /\ faults \in [breaks : 0 .. MaxBreaks, refusals : 0 .. MaxRefusals]

\* index.js calls connectListener once as it loads.
Init ==
  /\ rows = <<>>
  /\ clients = <<>>
  /\ current = NULL
  /\ connecting = 1
  /\ timers = 0
  /\ emitted = <<>>
  /\ faults = [breaks |-> 0, refusals |-> 0]

Refuse ==
  /\ faults.refusals < MaxRefusals
  /\ faults' = [faults EXCEPT !.refusals = @ + 1]

-----------------------------------------------------------------------------
(* connectListener and scheduleListenerReconnect.                          *)

\* Mutant of Scheduled: a timer is started whether or not one is pending.
ScheduledAgain(n) == n + 1

\* The timers after scheduleListenerReconnect, of n before.
Scheduled(n) == IF n > 0 THEN n ELSE 1

\* Mutant of TimerFires: _reconnectTimer is not set to null.
TimerFiresOnce ==
  /\ timers = 1
  /\ timers' = 2
  /\ clients' = IF current = NULL THEN clients
                ELSE [clients EXCEPT ![current].phase = "released"]
  /\ current' = NULL
  /\ connecting' = connecting + 1
  /\ UNCHANGED <<rows, emitted, faults>>

\* The timer runs connectListener, which drops the client it had.
TimerFires ==
  /\ timers > 0
  /\ timers' = timers - 1
  /\ clients' = IF current = NULL THEN clients
                ELSE [clients EXCEPT ![current].phase = "released"]
  /\ current' = NULL
  /\ connecting' = connecting + 1
  /\ UNCHANGED <<rows, emitted, faults>>

Connected ==
  /\ connecting > 0
  /\ connecting' = connecting - 1
  /\ clients' = Append(clients, [phase |-> "setup", alive |-> TRUE,
                                 listens |-> 0, wire |-> <<>>])
  /\ current' = Len(clients) + 1
  /\ UNCHANGED <<rows, timers, emitted, faults>>

ConnectRefused ==
  /\ connecting > 0
  /\ Refuse
  /\ connecting' = connecting - 1
  /\ timers' = Scheduled(timers)
  /\ UNCHANGED <<rows, clients, current, emitted>>

\* Mutant of Listened: the handler waits for one LISTEN more than there is.
ListenedTooOften(c) ==
  /\ clients[c].phase = "setup" /\ clients[c].alive
  /\ clients' = [clients EXCEPT
       ![c].listens = @ + 1,
       ![c].phase = IF clients[c].listens = Len(Channels) THEN "ready" ELSE @]
  /\ UNCHANGED <<rows, current, connecting, timers, emitted, faults>>

\* One LISTEN is executed; after the last, the handler is attached.
Listened(c) ==
  /\ clients[c].phase = "setup" /\ clients[c].alive
  /\ clients' = [clients EXCEPT
       ![c].listens = @ + 1,
       ![c].phase = IF clients[c].listens + 1 = Len(Channels) THEN "ready" ELSE @]
  /\ UNCHANGED <<rows, current, connecting, timers, emitted, faults>>

ListenRefused(c) ==
  /\ clients[c].phase = "setup" /\ clients[c].alive
  /\ Refuse
  /\ clients' = [clients EXCEPT ![c].phase = "failed"]
  /\ timers' = Scheduled(timers)
  /\ UNCHANGED <<rows, current, connecting, emitted>>

\* The driver emits 'error'; a LISTEN that was running is rejected as well, and
\* the catch of connectListener schedules a second time.
ErrorEvent(c) ==
  /\ ~clients[c].alive
  /\ clients[c].phase \in {"setup", "ready", "failed"}
  /\ clients' = [clients EXCEPT ![c].phase = "lost"]
  /\ timers' = IF clients[c].phase = "setup" THEN Scheduled(Scheduled(timers))
               ELSE Scheduled(timers)
  /\ UNCHANGED <<rows, current, connecting, emitted, faults>>

\* Mutant of Receive: the switch has no case for the last channel.
ReceiveUnlessLast(c) ==
  /\ clients[c].alive /\ clients[c].wire # <<>>
  /\ clients' = [clients EXCEPT ![c].wire = Tail(@)]
  /\ LET n == Head(clients[c].wire) IN
       emitted' = IF clients[c].phase = "ready" /\ rows[n] # Channels[Len(Channels)]
                  THEN Append(emitted, n) ELSE emitted
  /\ UNCHANGED <<rows, current, connecting, timers, faults>>

\* A notification arrives: without a handler nobody sees it.
Receive(c) ==
  /\ clients[c].alive /\ clients[c].wire # <<>>
  /\ clients' = [clients EXCEPT ![c].wire = Tail(@)]
  /\ emitted' = IF clients[c].phase = "ready"
                THEN Append(emitted, Head(clients[c].wire)) ELSE emitted
  /\ UNCHANGED <<rows, current, connecting, timers, faults>>

-----------------------------------------------------------------------------
(* The database and the network.                                           *)

Listens(c, ch) == \E i \in 1 .. clients[c].listens : Channels[i] = ch

\* A row is committed: its trigger notifies the sessions that listen.
InsertRow(ch) ==
  /\ Len(rows) < MaxRows
  /\ rows' = Append(rows, ch)
  /\ clients' = [c \in 1 .. Len(clients) |->
       IF clients[c].alive /\ Listens(c, ch) /\ clients[c].phase \in {"setup", "ready"}
       THEN [clients[c] EXCEPT !.wire = Append(@, Len(rows) + 1)]
       ELSE clients[c]]
  /\ UNCHANGED <<current, connecting, timers, emitted, faults>>

\* A fail-over or HAProxy cuts the connection; what was on the wire is lost.
Break(c) ==
  /\ clients[c].alive /\ clients[c].phase # "released"
  /\ faults.breaks < MaxBreaks
  /\ faults' = [faults EXCEPT !.breaks = @ + 1]
  /\ clients' = [clients EXCEPT ![c].alive = FALSE, ![c].wire = <<>>]
  /\ UNCHANGED <<rows, current, connecting, timers, emitted>>

-----------------------------------------------------------------------------
Next ==
  \/ TimerFires \/ Connected \/ ConnectRefused
  \/ \E c \in 1 .. Len(clients) :
       \/ Listened(c) \/ ListenRefused(c) \/ ErrorEvent(c)
       \/ Receive(c) \/ Break(c)
  \/ \E ch \in Range(Channels) : InsertRow(ch)

Spec == Init /\ [][Next]_vars

\* Timers fire; connects end within connectionTimeoutMillis; a live session
\* answers its LISTENs and delivers; a dead one is noticed.
FairSpec ==
  /\ Spec
  /\ WF_vars(TimerFires)
  /\ WF_vars(Connected \/ ConnectRefused)
  /\ WF_vars(\E c \in 1 .. Len(clients) :
               Listened(c) \/ ListenRefused(c) \/ ErrorEvent(c) \/ Receive(c))

-----------------------------------------------------------------------------
(* Properties.                                                             *)

Established == {c \in 1 .. Len(clients) : clients[c].phase = "ready"}
SettingUp   == {c \in 1 .. Len(clients) : clients[c].phase = "setup"}

\* At any time the bridge is doing exactly one thing: waiting for its timer,
\* connecting, setting a client up, or listening.  None would be a bridge that
\* has silently stopped; two would broadcast every row twice.  Error events
\* and rejected LISTENs both schedule, so only the timer's guard keeps it so.
OneActivity ==
  timers + connecting + Cardinality(SettingUp) + Cardinality(Established) = 1

\* The app sees the rows in the order in which they were committed, and none
\* twice, across any number of reconnections.
EmittedInOrder ==
  \A i, j \in 1 .. Len(emitted) : i < j => emitted[i] < emitted[j]

\* When the faults are over, the bridge ends up listening for good.
ListeningRestored == <>[](\E c \in Established : clients[c].alive)

OnWire(n, cs) == \E c \in cs : n \in Range(clients[c].wire)

\* A row whose notification is on its way to an established listener is
\* broadcast, whatever its table, once connections have stopped breaking.
NotifiedIsEmitted ==
  \A n \in 1 .. MaxRows :
    (OnWire(n, Established) /\ faults.breaks = MaxBreaks) ~> n \in Range(emitted)

\* README.md:74: when a metric is inserted, pg_notify fires and Node
\* broadcasts it.  Asked only of rows inserted after the LISTEN on their
\* channel has succeeded.
ListenedIsEmitted ==
  \A n \in 1 .. MaxRows :
    OnWire(n, Established \cup SettingUp) ~> n \in Range(emitted)
=============================================================================
