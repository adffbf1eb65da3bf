---------------------------- MODULE MCGoCollector ----------------------------
(***************************************************************************)
(* GoCollector and its refinement of OutageLog on small instances.         *)
(***************************************************************************)
EXTENDS GoLog, FiniteSets, TLC

\* Every flip of a service leads to one 'down' row or to one close and one
\* 'recovered' row; a lost acknowledgement repeats a 'recovered' row.
MaxRows == 2 * Cardinality(Services) + 2 * MaxFlips + MaxLost

RowIds == 1 .. MaxRows

Symmetry == Permutations(Services)
=============================================================================
