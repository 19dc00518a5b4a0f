----------------------------- MODULE MCMqttLink -----------------------------
(***************************************************************************)
(* Two publishers and one Wi-Fi notification around the network thread.    *)
(* With three descriptors every closed number is soon handed out again,    *)
(* and a fourth request finds none left.                                   *)
(***************************************************************************)
EXTENDS MqttLink
=============================================================================
