--------------------------- MODULE MCRegistration ---------------------------
(***************************************************************************)
(* The UI thread, the dispatcher's thread, the provisioning worker and the *)
(* status thread complete the registration at once; a second identity for  *)
(* status threads lets a second one start if it can.                       *)
(***************************************************************************)
EXTENDS Registration, TLC

\* The identities of status threads are interchangeable.
Symmetry == Permutations(StatusThreads)
=============================================================================
