------------------------- MODULE MCCommandDelivery -------------------------
(***************************************************************************)
(* Two commands and a queue of two.  The impatient server sends five times *)
(* and fills the queue with repetitions.                                   *)
(***************************************************************************)
EXTENDS CommandDelivery
=============================================================================
