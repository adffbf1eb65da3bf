------------------------------ MODULE DbNodes ------------------------------
(***************************************************************************)
(* GET /api/monitoring/db-nodes (routes/monitoring.js): one HTTP request to*)
(* Patroni on each node, all at once, and one answer when each of the      *)
(* promises has been resolved.  A promise is resolved by the end of the    *)
(* body, by an error of the request or by its timeout; a connection that   *)
(* breaks in the middle of the body is none of these.                      *)
(***************************************************************************)
EXTENDS Naturals

CONSTANTS
  Nodes,       \* PATRONI_NODES
  MaxCuts      \* bound: connections that break in the middle of a body

DbNodesAssumption == MaxCuts \in Nat

VARIABLES
  fetch,   \* fetch[n]: how far the request to n has come
  answer,  \* what the route last answered: the nodes it called reachable
  cuts     \* how many connections have been cut

vars == <<fetch, answer, cuts>>

TypeOK ==
  /\ fetch \in [Nodes -> {"idle", "sent", "body", "hung", "ok", "down"}]
  /\ answer \subseteq Nodes
  /\ cuts \in 0 .. MaxCuts

Init ==
  /\ fetch = [n \in Nodes |-> "idle"]
  /\ answer = {}
  /\ cuts = 0

Pending == \E n \in Nodes : fetch[n] # "idle"

\* The route calls fetchPatroni for each node.
Request ==
  /\ ~Pending
  /\ fetch' = [n \in Nodes |-> "sent"]
  /\ UNCHANGED <<answer, cuts>>

\* A promise keeps the value it is resolved to first.
Goes(n, from, to) == fetch[n] = from /\ fetch' = [fetch EXCEPT ![n] = to]

Response(n) == Goes(n, "sent", "body") /\ UNCHANGED <<answer, cuts>>

\* The whole body has come: JSON or not.
End(n) ==
  /\ Goes(n, "body", "ok") \/ Goes(n, "body", "down")
  /\ UNCHANGED <<answer, cuts>>

\* The connection is refused or reset before the response.
RequestError(n) == Goes(n, "sent", "down") /\ UNCHANGED <<answer, cuts>>

\* Mutant of Timeout: the timer starts with the response.
TimeoutOfBody(n) == Goes(n, "body", "down") /\ UNCHANGED <<answer, cuts>>

\* Three seconds of silence before the end.
Timeout(n) ==
  /\ Goes(n, "sent", "down") \/ Goes(n, "body", "down")
  /\ UNCHANGED <<answer, cuts>>

\* The connection breaks while the body comes: neither 'end' nor 'error' of the
\* request follows, and a closed socket has no timeout.
Cut(n) ==
  /\ cuts < MaxCuts
  /\ Goes(n, "body", "hung")
  /\ cuts' = cuts + 1
  /\ UNCHANGED answer

\* Promise.all, and the answer.
Answer ==
  /\ \A n \in Nodes : fetch[n] \in {"ok", "down"}
  /\ answer' = {n \in Nodes : fetch[n] = "ok"}
  /\ fetch' = [n \in Nodes |-> "idle"]
  /\ UNCHANGED cuts

Next ==
  \/ Request \/ Answer
  \/ \E n \in Nodes : Response(n) \/ End(n) \/ RequestError(n) \/ Timeout(n) \/ Cut(n)

Spec == Init /\ [][Next]_vars

\* The timer of a silent socket fires; no node has to answer.
Fairness == WF_vars(Answer) /\ \A n \in Nodes : WF_vars(Timeout(n))

-----------------------------------------------------------------------------
\* The route answers whatever the nodes do, silence included, unless a
\* connection breaks inside a body: that promise is never resolved.
NodesAnswered == []<>(~Pending \/ \E n \in Nodes : fetch[n] = "hung")
=============================================================================
