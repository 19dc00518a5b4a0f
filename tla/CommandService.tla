--------------------------- MODULE CommandService ---------------------------
(***************************************************************************)
(* What the command path of EcaClient promises to the server, without any  *)
(* of its threads, rings or indices: a bounded first-in first-out service. *)
(*                                                                         *)
(*   - a command is accepted only while the service is open and fewer than *)
(*     Capacity commands wait;                                             *)
(*   - commands are served one at a time, in the order of acceptance;      *)
(*   - the command being served is answered at most once;                  *)
(*   - closing refuses new commands but serves the ones already accepted.  *)
(*                                                                         *)
(* CommandDispatcher is shown to implement this specification.             *)
(***************************************************************************)
EXTENDS Naturals, Sequences

CONSTANTS
    Messages,   \* the commands the server may send
    NoMessage,  \* "no command is being served"
    Capacity    \* how many accepted commands may wait

VARIABLES
    open,       \* the service accepts commands
    pending,    \* accepted and not yet served, oldest first
    serving,    \* the command being served, or NoMessage
    answered    \* the command being served has been answered

svars == <<open, pending, serving, answered>>

ServiceInit ==
    /\ open = FALSE
    /\ pending = <<>>
    /\ serving = NoMessage
    /\ answered = FALSE

Open ==
    /\ ~open /\ pending = <<>> /\ serving = NoMessage
    /\ open' = TRUE
    /\ UNCHANGED <<pending, serving, answered>>

Accept ==
    /\ open
    /\ Len(pending) < Capacity
    /\ \E m \in Messages : pending' = Append(pending, m)
    /\ UNCHANGED <<open, serving, answered>>

Serve ==
    /\ serving = NoMessage
    /\ pending # <<>>
    /\ serving' = Head(pending)
    /\ pending' = Tail(pending)
    /\ UNCHANGED <<open, answered>>

Answer ==
    /\ serving # NoMessage /\ ~answered
    /\ answered' = TRUE
    /\ UNCHANGED <<open, pending, serving>>

\* A command may be finished without an answer (it is not for this device).
Finish ==
    /\ serving # NoMessage
    /\ serving' = NoMessage
    /\ answered' = FALSE
    /\ UNCHANGED <<open, pending>>

Close ==
    /\ open
    /\ open' = FALSE
    /\ UNCHANGED <<pending, serving, answered>>

\* Nothing is persisted: a power loss forgets every accepted command.
PowerLoss ==
    /\ open' = FALSE
    /\ pending' = <<>>
    /\ serving' = NoMessage
    /\ answered' = FALSE

ServiceNext ==
    \/ Open \/ Accept \/ Serve \/ Answer \/ Finish \/ Close \/ PowerLoss

\* The safety part, and the promise that what was accepted is served.
ServiceSafety == ServiceInit /\ [][ServiceNext]_svars

ServiceSpec ==
    /\ ServiceSafety
    /\ WF_svars(Serve)
    /\ WF_svars(Finish)
=============================================================================
