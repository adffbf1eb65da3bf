---------------------------- MODULE MCActiveLists ----------------------------
(***************************************************************************)
(* ActiveLists on small instances.                                         *)
(***************************************************************************)
EXTENDS ActiveLists, TLC

ThreeAlerts == 1 .. 3
TwoAlerts == 1 .. 2
=============================================================================
