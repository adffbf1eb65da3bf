------------------------------ MODULE OutageLog ------------------------------
(***************************************************************************)
(* What the collectors promise to the readers of service_events: per       *)
(* service, a log of outages of which at most one is open, and of          *)
(* announcements of recovery.  An outage is opened once, closed once, and  *)
(* a recovery is announced only while no outage is open.                   *)
(***************************************************************************)
CONSTANTS
  Services,
  Ids        \* what identifies a row

VARIABLES
  outages,    \* outages[s]: the outages of s
  open,       \* open[s]: those that have not ended
  recovered   \* recovered[s]: the announcements of recovery

vars == <<outages, open, recovered>>

Init ==
  /\ outages = [s \in Services |-> {}]
  /\ open = [s \in Services |-> {}]
  /\ recovered = [s \in Services |-> {}]

Used == UNION {outages[s] \cup recovered[s] : s \in Services}

\* An outage starts: none was open.
Open(s, id) ==
  /\ open[s] = {}
  /\ id \notin Used
  /\ outages' = [outages EXCEPT ![s] = @ \cup {id}]
  /\ open' = [open EXCEPT ![s] = {id}]
  /\ UNCHANGED recovered

\* The open outage ends.
Close(s) ==
  /\ open[s] # {}
  /\ open' = [open EXCEPT ![s] = {}]
  /\ UNCHANGED <<outages, recovered>>

\* The recovery is announced: there has been an outage and none is open.
Announce(s, id) ==
  /\ outages[s] # {} /\ open[s] = {}
  /\ id \notin Used
  /\ recovered' = [recovered EXCEPT ![s] = @ \cup {id}]
  /\ UNCHANGED <<outages, open>>

Next ==
  \E s \in Services :
    \/ Close(s)
    \/ \E id \in Ids : Open(s, id) \/ Announce(s, id)

Spec == Init /\ [][Next]_vars
=============================================================================
