----------------------------- MODULE ActiveLists -----------------------------
(***************************************************************************)
(* The 'active_alerts' list of node_api: every place that SELECTs the      *)
(* unresolved alerts and emits them to all sockets (emitActiveAlerts, run  *)
(* by an interval and by notifications, and PATCH /api/alerts/:id/resolve).*)
(* Each query is awaited, on a connection of its own, so other handlers    *)
(* run between a query and what follows it.                                *)
(***************************************************************************)
EXTENDS Naturals, FiniteSets

CONSTANTS
  Alerts,       \* ids of alert_events, in the order of triggered_at
  Apps,         \* Socket.IO clients
  Requests,     \* resolve requests of admins
  Runs,         \* bound: the runs of emitActiveAlerts that may overlap
  Limit,        \* LIMIT 100
  MaxErrors,    \* bound: queries that fail
  MaxJoins,     \* bound: connections of an app
  NULL

ASSUME ListsAssumption ==
  /\ Alerts \subseteq Nat /\ IsFiniteSet(Alerts)
  /\ Limit \in Nat /\ MaxErrors \in Nat /\ MaxJoins \in Nat
  /\ NULL \notin Alerts

VARIABLES
  status,     \* status[a]: "absent", "active" or "resolved"
  run,        \* run[r]: a run of emitActiveAlerts
  request,    \* request[q]: a resolve request
  joined,     \* sockets connected
  shown,      \* shown[c]: the list app c got last, NULL since it connected
  errors,     \* queries failed so far
  joins       \* connections so far

vars == <<status, run, request, joined, shown, errors, joins>>

Lists == SUBSET Alerts

\* A request is new, updated (its UPDATE changed a row), read (its SELECT has
\* returned) or answered with a status code.
Request == [stage : {"new", "updated", "read", "200", "404", "500"},
            alert : Alerts \cup {NULL},
            list  : Lists]

\* A run is idle, has asked (its SELECT is on its way) or has read a list.
Run == [stage : {"idle", "asked", "read"}, list : Lists]

\* The lists on their way to the apps.
Pending == {run[r].list : r \in Runs} \cup {request[q].list : q \in Requests}

TypeOK ==
  /\ status \in [Alerts -> {"absent", "active", "resolved"}]
  /\ run \in [Runs -> Run]
  /\ request \in [Requests -> Request]
  /\ joined \subseteq Apps
  /\ shown \in [Apps -> Lists \cup {NULL}]
  /\ errors \in 0 .. MaxErrors
  /\ joins \in 0 .. MaxJoins
  /\ \A L \in Pending : Cardinality(L) <= Limit

Init ==
  /\ status = [a \in Alerts |-> "absent"]
  /\ run = [r \in Runs |-> [stage |-> "idle", list |-> {}]]
  /\ request = [q \in Requests |-> [stage |-> "new", alert |-> NULL, list |-> {}]]
  /\ joined = {}
  /\ shown = [c \in Apps |-> NULL]
  /\ errors = 0
  /\ joins = 0

\* Mutant of Active: the WHERE clause is missing.
ActiveUnfiltered == {a \in Alerts : status[a] # "absent"}

Active == {a \in Alerts : status[a] = "active"}

\* Mutant of ActiveList: one row too many.
ActiveListOneMore ==
  {a \in Active : Cardinality({b \in Active : b > a}) <= Limit}

\* WHERE resolved = false ORDER BY triggered_at DESC LIMIT ...
ActiveList ==
  {a \in Active : Cardinality({b \in Active : b > a}) < Limit}

Failing == errors < MaxErrors /\ errors' = errors + 1

\* io.emit('active_alerts', L)
Shown(L) == [c \in Apps |-> IF c \in joined THEN L ELSE shown[c]]

-----------------------------------------------------------------------------
(* emitActiveAlerts.                                                       *)

\* The interval elapses, or a 'new_alert' notification arrives.
Ask(r) ==
  /\ run[r].stage = "idle"
  /\ run' = [run EXCEPT ![r].stage = "asked"]
  /\ UNCHANGED <<status, request, joined, shown, errors, joins>>

\* The SELECT is executed; its answer is on its way.
Answer(r) ==
  /\ run[r].stage = "asked"
  /\ run' = [run EXCEPT ![r] = [stage |-> "read", list |-> ActiveList]]
  /\ UNCHANGED <<status, request, joined, shown, errors, joins>>

\* catch (_) {}
AnswerError(r) ==
  /\ run[r].stage = "asked"
  /\ Failing
  /\ run' = [run EXCEPT ![r].stage = "idle"]
  /\ UNCHANGED <<status, request, joined, shown, joins>>

\* Mutant of Emit: an empty list is not worth emitting.
EmitUnlessEmpty(r) ==
  /\ run[r].stage = "read"
  /\ run' = [run EXCEPT ![r] = [stage |-> "idle", list |-> {}]]
  /\ shown' = IF run[r].list = {} THEN shown ELSE Shown(run[r].list)
  /\ UNCHANGED <<status, request, joined, errors, joins>>

Emit(r) ==
  /\ run[r].stage = "read"
  /\ run' = [run EXCEPT ![r] = [stage |-> "idle", list |-> {}]]
  /\ shown' = Shown(run[r].list)
  /\ UNCHANGED <<status, request, joined, errors, joins>>

-----------------------------------------------------------------------------
(* PATCH /api/alerts/:id/resolve, by a user whose role allows it.          *)

\* The effect of the UPDATE ... WHERE id = a AND resolved = false.
Resolved(a) ==
  IF status[a] = "active" THEN [status EXCEPT ![a] = "resolved"] ELSE status

\* Mutant of Resolve: the UPDATE lacks AND resolved = false.
ResolveAgain(q, a) ==
  /\ request[q].stage = "new"
  /\ \/ /\ status[a] \in {"active", "resolved"}
        /\ status' = [status EXCEPT ![a] = "resolved"]
        /\ request' = [request EXCEPT ![q].stage = "updated", ![q].alert = a]
        /\ UNCHANGED errors
     \/ /\ status[a] = "absent"
        /\ request' = [request EXCEPT ![q].stage = "404", ![q].alert = a]
        /\ UNCHANGED <<status, errors>>
     \/ /\ Failing
        /\ request' = [request EXCEPT ![q].stage = "500", ![q].alert = a]
        /\ UNCHANGED status
  /\ UNCHANGED <<run, joined, shown, joins>>

\* The UPDATE, which answers 404 if it changes no row, and 500 if it fails or
\* its acknowledgement is lost.
Resolve(q, a) ==
  /\ request[q].stage = "new"
  /\ \/ /\ status[a] = "active"
        /\ status' = Resolved(a)
        /\ request' = [request EXCEPT ![q].stage = "updated", ![q].alert = a]
        /\ UNCHANGED errors
     \/ /\ status[a] # "active"
        /\ request' = [request EXCEPT ![q].stage = "404", ![q].alert = a]
        /\ UNCHANGED <<status, errors>>
     \/ /\ Failing
        /\ status' \in {status, Resolved(a)}
        /\ request' = [request EXCEPT ![q].stage = "500", ![q].alert = a]
  /\ UNCHANGED <<run, joined, shown, joins>>

\* The SELECT that follows; if it fails the alert stays resolved, unpushed.
ReadBack(q) ==
  /\ request[q].stage = "updated"
  /\ \/ /\ request' = [request EXCEPT ![q].stage = "read", ![q].list = ActiveList]
        /\ UNCHANGED errors
     \/ /\ Failing
        /\ request' = [request EXCEPT ![q].stage = "500"]
  /\ UNCHANGED <<status, run, joined, shown, joins>>

Push(q) ==
  /\ request[q].stage = "read"
  /\ shown' = Shown(request[q].list)
  /\ request' = [request EXCEPT ![q].stage = "200", ![q].list = {}]
  /\ UNCHANGED <<status, run, joined, errors, joins>>

-----------------------------------------------------------------------------
(* The database's other writers, and the apps.                             *)

\* Alerts are triggered in the order of their ids.
Trigger(a) ==
  /\ status[a] = "absent"
  /\ \A b \in Alerts : b < a => status[b] # "absent"
  /\ status' = [status EXCEPT ![a] = "active"]
  /\ UNCHANGED <<run, request, joined, shown, errors, joins>>

Join(c) ==
  /\ c \notin joined
  /\ joins < MaxJoins
  /\ joins' = joins + 1
  /\ joined' = joined \cup {c}
  /\ UNCHANGED <<status, run, request, shown, errors>>

Leave(c) ==
  /\ c \in joined
  /\ joined' = joined \ {c}
  /\ shown' = [shown EXCEPT ![c] = NULL]
  /\ UNCHANGED <<status, run, request, errors, joins>>

-----------------------------------------------------------------------------
Read(r) == Ask(r) \/ Answer(r) \/ AnswerError(r) \/ Emit(r)
Serve(q) == ReadBack(q) \/ Push(q)

Next ==
  \/ \E r \in Runs : Read(r)
  \/ \E q \in Requests : (\E a \in Alerts : Resolve(q, a)) \/ Serve(q)
  \/ \E a \in Alerts : Trigger(a)
  \/ \E c \in Apps : Join(c) \/ Leave(c)

Spec == Init /\ [][Next]_vars

\* The interval keeps firing; a query that was sent ends; no request has to come.
FairSpec ==
  /\ Spec
  /\ \A r \in Runs : WF_vars(Read(r))
  /\ \A q \in Requests : WF_vars(Serve(q))

-----------------------------------------------------------------------------
(* Properties.                                                             *)

\* At most one request resolves an alert and the others get 404, however they
\* interleave: resolved_at is written once.
ResolvedByOne ==
  \A p, q \in Requests :
    /\ p # q /\ request[p].alert = request[q].alert
    /\ request[p].stage \in {"updated", "read", "200"}
    => request[q].stage \in {"new", "404", "500"}

\* What the resolver itself pushes never contains the alert it has resolved.
PushExcludesResolved ==
  \A q \in Requests :
    request[q].stage = "read" => request[q].alert \notin request[q].list

\* Stale lists are repaired: whatever was emitted out of order and whichever
\* queries failed, an app that stays connected ends up with the list of the
\* database, without asking for it.
ListsConverge ==
  \A c \in Apps : <>[](c \in joined) => <>[](shown[c] = ActiveList)

\* alerts.js:62, GUIDE.md:440: resolving pushes the updated list to every
\* client, so an app whose list is without a resolved alert keeps it so.
NoResurrection ==
  [][\A c \in Apps, a \in Alerts :
       /\ status[a] = "resolved"
       /\ c \in joined /\ shown[c] # NULL /\ a \notin shown[c]
       /\ shown'[c] # NULL
       => a \notin shown'[c]]_vars
=============================================================================
