--------------------------- MODULE MCNodeCollector ---------------------------
(***************************************************************************)
(* NodeCollector on small instances, and OutageLog implemented by it.      *)
(***************************************************************************)
EXTENDS NodeLog, FiniteSets

MaxRows == 2 * Cardinality(Services) + 2 * MaxFlips + MaxLost

RowIds == 1 .. MaxRows
=============================================================================
