-------------------------- MODULE BroadcastService --------------------------
(***************************************************************************)
(* What the broadcast queues of EcaClient promise: each keeps, in order,   *)
(* the newest Capacity broadcasts of its kind that nobody has fetched yet. *)
(* A broadcast may miss a queue when memory is short.                      *)
(*                                                                         *)
(* RemoteBroadcast is shown to implement this specification.               *)
(***************************************************************************)
EXTENDS Naturals, Sequences

CONSTANTS
    Queues,         \* names of the queues
    Items,          \* broadcasts
    Targets(_),     \* the queues a broadcast belongs to
    Capacity

VARIABLE inbox      \* queue name -> broadcasts, oldest first

InboxInit == inbox = [q \in Queues |-> <<>>]

Newest(s) == IF Len(s) > Capacity THEN Tail(s) ELSE s

Deliver(b) ==
    \E reached \in SUBSET Targets(b) :
        inbox' = [q \in Queues |-> IF q \in reached
                                   THEN Newest(Append(inbox[q], b))
                                   ELSE inbox[q]]

Fetch(q) ==
    /\ inbox[q] # <<>>
    /\ inbox' = [inbox EXCEPT ![q] = Tail(@)]

InboxNext == \/ \E b \in Items : Deliver(b)
             \/ \E q \in Queues : Fetch(q)

InboxSpec == InboxInit /\ [][InboxNext]_inbox
=============================================================================
