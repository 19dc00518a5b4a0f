--------------------------- MODULE MCProvisioning ---------------------------
(***************************************************************************)
(* Five session numbers let a worker of one session outlive a stop and the *)
(* start of the next two sessions.                                         *)
(***************************************************************************)
EXTENDS Provisioning
=============================================================================
