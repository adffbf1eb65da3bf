------------------------------ MODULE NodeLog ------------------------------
(***************************************************************************)
(* The refinement mapping from NodeCollector to OutageLog.                 *)
(***************************************************************************)
EXTENDS NodeCollector

CONSTANT Ids   \* what OutageLog may identify a row with

Log == INSTANCE OutageLog WITH
  outages <- [s \in Services |-> DownRows(events, s)],
  open <- [s \in Services |-> OpenRows(events, s)],
  recovered <- [s \in Services |-> RecoveredRows(events, s)]

\* Until a fail-over takes writes back, the collector is an implementation of
\* OutageLog: each of its steps is one of the log's, in every combination of
\* faults.
RefinesOutageLog ==
  Log!Init /\ [][faults'.failovers = 0 => [Log!Next]_(Log!vars)]_vars
=============================================================================
