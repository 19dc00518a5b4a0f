---------------------------- MODULE MCAudioFocus ----------------------------
(***************************************************************************)
(* A music player that may register either callback, its successor after a *)
(* crash, which also speaks and registers the callback for every change as *)
(* the Bluetooth player does, and the assistant.                           *)
(***************************************************************************)
EXTENDS AudioFocus

CONSTANTS player, successor, assistant

Roles ==
    [p \in Pids |-> CASE p = player -> {"music"}
                      [] p = successor -> Types
                      [] p = assistant -> {"ai"}]

Callbacks ==
    [p \in Pids |-> CASE p = player -> Kinds
                      [] p = successor -> {"change"}
                      [] p = assistant -> {}]
=============================================================================
