---------------------------- MODULE MCMqttRequest ----------------------------
(***************************************************************************)
(* Three callers compete for two slots; the third request reuses a slot    *)
(* while answers to its earlier user are still on their way.               *)
(***************************************************************************)
EXTENDS MqttRequest

MCSlots == 0 .. 1
=============================================================================
