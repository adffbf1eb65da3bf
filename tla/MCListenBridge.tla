--------------------------- MODULE MCListenBridge ---------------------------
(***************************************************************************)
(* ListenBridge with two of its four channels.                             *)
(***************************************************************************)
EXTENDS ListenBridge

TwoChannels == <<"new_metric", "new_service_event">>
=============================================================================
