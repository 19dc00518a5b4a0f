-------------------------- MODULE MCRemoteBroadcast --------------------------
(***************************************************************************)
(* Rings of two slots.  Three broadcasts make a ring overflow, wrap and    *)
(* run empty; two submitters let plans overtake each other between the     *)
(* ring and the observer.                                                  *)
(***************************************************************************)
EXTENDS RemoteBroadcast
=============================================================================
