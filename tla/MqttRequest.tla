----------------------------- MODULE MqttRequest -----------------------------
(***************************************************************************)
(* Request and response over MQTT (eca_client_mqtt_request and             *)
(* eca_client_handle_mqtt_response of core/eca_client_network.c).          *)
(*                                                                         *)
(* A caller takes a slot of g_pending, publishes its request, and waits on *)
(* g_request_cond, which all callers share, until the network thread has   *)
(* stored the answer in the slot or the deadline has passed.  The server   *)
(* may answer late, twice, out of order or never; the link may go down.    *)
(*                                                                         *)
(* One action is one critical section of g_request_lock or publish_lock.   *)
(***************************************************************************)
EXTENDS Integers

CONSTANTS
    Callers,     \* threads that call eca_client_mqtt_request
    Slots,       \* 0 .. ECA_CLIENT_PENDING_REQUESTS - 1
    NoSlot,
    NoId,        \* "", the request_id of a zeroed slot
    MaxRequests  \* bound on g_request_counter

ASSUME RequestAssumption ==
    /\ MaxRequests \in Nat
    /\ Slots \subseteq Nat
    /\ NoSlot \notin Slots
    /\ NoId \notin Nat

VARIABLES
    pending,            \* g_pending
    g_request_counter,
    connected,          \* g_net.sockfd >= 0
    published,          \* requests the server may have received
    pc, slot, rid,      \* the locals of each caller
    expired,            \* the caller's deadline has passed
    result, answer      \* what its last call returned, and *response_out

table  == <<pending, g_request_counter>>
locals == <<pc, slot, rid, expired, result, answer>>
vars   == <<table, connected, published, locals>>

RequestIds == 1 .. MaxRequests
Outcomes == {"none", "ok", "busy", "notconn", "failed", "timedout"}

\* A request id is a millisecond stamp and the counter; the counter alone
\* tells any two requests of one run of the program apart.
SlotType ==
    [request_id : RequestIds \cup {NoId}, active : BOOLEAN,
     fulfilled : BOOLEAN, response : RequestIds \cup {NoId}]

ZeroSlot == [request_id |-> NoId, active |-> FALSE,
             fulfilled |-> FALSE, response |-> NoId]

Init ==
    /\ pending = [s \in Slots |-> ZeroSlot]
    /\ g_request_counter = 0
    /\ connected = FALSE
    /\ published = {}
    /\ pc = [c \in Callers |-> "idle"]
    /\ slot = [c \in Callers |-> NoSlot]
    /\ rid = [c \in Callers |-> NoId]
    /\ expired = [c \in Callers |-> FALSE]
    /\ result = [c \in Callers |-> "none"]
    /\ answer = [c \in Callers |-> NoId]

-----------------------------------------------------------------------------
(***************************************************************************)
(* The caller.                                                             *)
(***************************************************************************)
FreeSlots == {s \in Slots : ~pending[s].active}

\* slot->active = false and return: every way out but "slots full".
Release(c, outcome) ==
    /\ pending' = [pending EXCEPT ![slot[c]].active = FALSE]
    /\ pc' = [pc EXCEPT ![c] = "idle"]
    /\ slot' = [slot EXCEPT ![c] = NoSlot]
    /\ result' = [result EXCEPT ![c] = outcome]

\* The first inactive slot is taken, zeroed and activated.
Allocate(c) ==
    /\ pc[c] = "idle"
    /\ g_request_counter < MaxRequests
    /\ \E s \in FreeSlots :
         /\ \A t \in FreeSlots : s <= t
         /\ pending' = [pending EXCEPT ![s] =
                          [ZeroSlot EXCEPT !.request_id = g_request_counter + 1,
                                           !.active = TRUE]]
         /\ slot' = [slot EXCEPT ![c] = s]
    /\ g_request_counter' = g_request_counter + 1
    /\ rid' = [rid EXCEPT ![c] = g_request_counter + 1]
    /\ pc' = [pc EXCEPT ![c] = "publish"]
    /\ expired' = [expired EXCEPT ![c] = FALSE]
    /\ UNCHANGED <<connected, published, result, answer>>

\* Fault: the search stops one slot short.
SlotsFullEarly(c) ==
    /\ pc[c] = "idle"
    /\ \E s \in Slots : FreeSlots \subseteq {s}
    /\ result' = [result EXCEPT ![c] = "busy"]
    /\ UNCHANGED <<table, connected, published, pc, slot, rid, expired, answer>>

\* -EBUSY
SlotsFull(c) ==
    /\ pc[c] = "idle"
    /\ FreeSlots = {}
    /\ result' = [result EXCEPT ![c] = "busy"]
    /\ UNCHANGED <<table, connected, published, pc, slot, rid, expired, answer>>

Publish(c) ==
    /\ pc[c] = "publish"
    /\ connected
    /\ published' = published \cup {rid[c]}
    /\ pc' = [pc EXCEPT ![c] = "check"]
    /\ UNCHANGED <<table, connected, slot, rid, expired, result, answer>>

\* The write failed, perhaps after the server got the packet: the caller
\* closes the socket.
PublishFails(c) ==
    /\ pc[c] = "publish"
    /\ connected
    /\ connected' = FALSE
    /\ published' \in {published, published \cup {rid[c]}}
    /\ pc' = [pc EXCEPT ![c] = "giveup"]
    /\ UNCHANGED <<table, slot, rid, expired, result, answer>>

NotConnected(c) ==
    /\ pc[c] = "publish"
    /\ ~connected
    /\ pc' = [pc EXCEPT ![c] = "unconnected"]
    /\ UNCHANGED <<table, connected, published, slot, rid, expired, result,
                   answer>>

\* publish_lock has been dropped; the slot is given back under
\* g_request_lock.
GiveUp(c) ==
    /\ pc[c] \in {"giveup", "unconnected"}
    /\ Release(c, IF pc[c] = "giveup" THEN "failed" ELSE "notconn")
    /\ UNCHANGED <<g_request_counter, connected, published, rid, expired,
                   answer>>

\* Fault: the wait is entered again without a look at slot or clock.
SleepUnchecked(c) ==
    /\ pc[c] = "check"
    /\ pc' = [pc EXCEPT ![c] = "asleep"]
    /\ UNCHANGED <<table, connected, published, slot, rid, expired, result,
                   answer>>

\* The head of the wait loop: no answer, deadline not reached, so
\* pthread_cond_timedwait.
Sleep(c) ==
    /\ pc[c] = "check"
    /\ ~pending[slot[c]].fulfilled
    /\ ~expired[c]
    /\ pc' = [pc EXCEPT ![c] = "asleep"]
    /\ UNCHANGED <<table, connected, published, slot, rid, expired, result,
                   answer>>

\* -ETIMEDOUT
TimedOut(c) ==
    /\ pc[c] = "check"
    /\ ~pending[slot[c]].fulfilled
    /\ expired[c]
    /\ Release(c, "timedout")
    /\ UNCHANGED <<g_request_counter, connected, published, rid, expired,
                   answer>>

Answered(c) ==
    /\ pc[c] = "check"
    /\ pending[slot[c]].fulfilled
    /\ answer' = [answer EXCEPT ![c] = pending[slot[c]].response]
    /\ Release(c, "ok")
    /\ UNCHANGED <<g_request_counter, connected, published, rid, expired>>

\* pthread_cond_timedwait returned at the deadline, or spuriously.
Wake(c) ==
    /\ pc[c] = "asleep"
    /\ pc' = [pc EXCEPT ![c] = "check"]
    /\ UNCHANGED <<table, connected, published, slot, rid, expired, result,
                   answer>>

\* It returned another error: the call ends without looking at the slot.
WaitFails(c) ==
    /\ pc[c] = "asleep"
    /\ Release(c, "failed")
    /\ UNCHANGED <<g_request_counter, connected, published, rid, expired,
                   answer>>

-----------------------------------------------------------------------------
(***************************************************************************)
(* The network thread, the link, and the clock.                            *)
(***************************************************************************)
\* Fault: the id of the slot is not compared.
FindPendingAny(r) == {s \in Slots : pending[s].active}

\* The loop returns the first match; there is at most one, since no two
\* requests share a counter value.
FindPending(r) == {s \in Slots : pending[s].active /\ pending[s].request_id = r}

\* Fault: pthread_cond_signal, which wakes one waiter of the shared
\* condition.
SignalOne ==
    LET asleep == {c \in Callers : pc[c] = "asleep"} IN
    IF asleep = {} THEN pc' = pc
    ELSE \E c \in asleep : pc' = [pc EXCEPT ![c] = "check"]

Broadcast ==
    pc' = [c \in Callers |-> IF pc[c] = "asleep" THEN "check" ELSE pc[c]]

\* A response for request r reaches the network thread.
HandleResponse(r) ==
    /\ connected
    /\ r \in published
    /\ \/ /\ FindPending(r) = {}
          /\ UNCHANGED <<pending, pc>>
       \/ \E s \in FindPending(r) :
            /\ pending' = [pending EXCEPT ![s] =
                              [@ EXCEPT !.response = r, !.fulfilled = TRUE]]
            /\ Broadcast
    /\ UNCHANGED <<g_request_counter, connected, published, slot, rid, expired,
                   result, answer>>

\* Another thread closes the socket, or the network thread reconnects.
LinkChanges ==
    /\ connected' = ~connected
    /\ UNCHANGED <<table, published, locals>>

DeadlinePasses(c) ==
    /\ pc[c] \in {"check", "asleep"}
    /\ ~expired[c]
    /\ expired' = [expired EXCEPT ![c] = TRUE]
    /\ UNCHANGED <<table, connected, published, pc, slot, rid, result, answer>>

Request(c) ==
    \/ Allocate(c) \/ SlotsFull(c)
    \/ Publish(c) \/ PublishFails(c) \/ NotConnected(c) \/ GiveUp(c)
    \/ Sleep(c) \/ TimedOut(c) \/ Answered(c) \/ Wake(c) \/ WaitFails(c)

Next ==
    \/ \E c \in Callers : Request(c) \/ DeadlinePasses(c)
    \/ \E r \in RequestIds : HandleResponse(r)
    \/ LinkChanges

\* What a caller does once it runs, whatever the server does.  A caller
\* sleeps no longer than its deadline.
Proceed(c) ==
    \/ Publish(c) \/ PublishFails(c) \/ NotConnected(c) \/ GiveUp(c)
    \/ Sleep(c) \/ TimedOut(c) \/ Answered(c)

Fairness ==
    \A c \in Callers :
        /\ WF_vars(Proceed(c))
        /\ WF_vars(DeadlinePasses(c))
        /\ WF_vars(expired[c] /\ Wake(c))

Spec == Init /\ [][Next]_vars

FairSpec == Spec /\ Fairness

-----------------------------------------------------------------------------
(***************************************************************************)
(* Properties.                                                             *)
(***************************************************************************)
InCall(c) == pc[c] # "idle"

\* The table, the locals and the results have the types the code gives
\* them.
TypeOK ==
    /\ pending \in [Slots -> SlotType]
    /\ g_request_counter \in 0 .. MaxRequests
    /\ connected \in BOOLEAN
    /\ published \subseteq RequestIds
    /\ pc \in [Callers -> {"idle", "publish", "giveup", "unconnected",
                           "check", "asleep"}]
    /\ slot \in [Callers -> Slots \cup {NoSlot}]
    /\ rid \in [Callers -> RequestIds \cup {NoId}]
    /\ expired \in [Callers -> BOOLEAN]
    /\ result \in [Callers -> Outcomes]
    /\ answer \in [Callers -> RequestIds \cup {NoId}]

\* A caller inside eca_client_mqtt_request works on a slot that is active
\* and carries its own request id: no timeout, late answer or error return
\* of another caller takes the slot away or gives it to somebody else.
OwnSlot ==
    \A c \in Callers : InCall(c) =>
        /\ slot[c] \in Slots
        /\ pending[slot[c]].active
        /\ pending[slot[c]].request_id = rid[c]

\* A slot that is active belongs to a caller that is still inside the call:
\* no way out of eca_client_mqtt_request leaks one of the four slots.
NoSlotLeak ==
    \A s \in Slots : pending[s].active =>
        \E c \in Callers : InCall(c) /\ slot[c] = s

\* A call that returned 0 hands out the response to its own request, also
\* when the slot was reused while older answers were still on their way.
RightAnswer ==
    \A c \in Callers : result[c] = "ok" /\ ~InCall(c) => answer[c] = rid[c]

\* A caller does not sleep on the shared condition while its answer lies in
\* the slot: the broadcast reaches whoever it is for.
NoMissedAnswer ==
    \A c \in Callers : pc[c] = "asleep" => ~pending[slot[c]].fulfilled

\* "mqtt request slots full" is only reported while as many other callers
\* as there are slots are inside the call.
BusyOnlyWhenFull ==
    [][\A c \in Callers : result'[c] = "busy" /\ result[c] # "busy" =>
          \A s \in Slots : \E d \in Callers \ {c} : InCall(d) /\ slot[d] = s]_vars

\* Every call returns, whatever the server and the link do: the header
\* promises to block "up to timeout_s seconds".
CallReturns == \A c \in Callers : InCall(c) ~> ~InCall(c)
=============================================================================
