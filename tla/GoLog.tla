------------------------------- MODULE GoLog -------------------------------
(***************************************************************************)
(* The refinement mapping from GoCollector to OutageLog: the outages of a  *)
(* service are its 'down' rows, the announcements its 'recovered' rows.    *)
(***************************************************************************)
EXTENDS GoCollector

CONSTANT Ids   \* what OutageLog may identify a row with

Log == INSTANCE OutageLog WITH
  outages <- [s \in Services |-> DownRows(events, s)],
  open <- [s \in Services |-> OpenRows(events, s)],
  recovered <- [s \in Services |-> RecoveredRows(events, s)]

\* Every statement of the collector is a step of the outage log or changes
\* nothing there, in every combination of faults.
RefinesOutageLog == Log!Spec
=============================================================================
