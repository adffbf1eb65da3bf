----------------------------- MODULE AlertBoard -----------------------------
(***************************************************************************)
(* What an app may expect of active_alerts: every list it is sent is the   *)
(* list of the moment, it gets one whenever an alert is raised or resolved,*)
(* and an alert that was resolved does not come back.                      *)
(***************************************************************************)
CONSTANT Alerts, NULL

VARIABLES
  open,    \* the unresolved alerts
  closed,  \* the resolved ones
  shown    \* the list sent last, NULL before the first one

vars == <<open, closed, shown>>

Init == open \subseteq Alerts /\ closed \subseteq Alerts \ open /\ shown = NULL

Raise(a) ==
  /\ a \in Alerts \ (open \cup closed)
  /\ open' = open \cup {a} /\ shown' = open'
  /\ UNCHANGED closed

Resolve(a) ==
  /\ a \in open
  /\ open' = open \ {a} /\ closed' = closed \cup {a} /\ shown' = open'

Refresh == shown' = open /\ UNCHANGED <<open, closed>>

Next == Refresh \/ \E a \in Alerts : Raise(a) \/ Resolve(a)

Spec == Init /\ [][Next]_vars
=============================================================================
