-------------------------- MODULE CommandDelivery --------------------------
(***************************************************************************)
(* The way of a command from the server to the device and of its           *)
(* acknowledgement back: the connection (eca_client_network.c) and the     *)
(* dispatcher (eca_client_command_dispatcher.c) together.  The dispatcher  *)
(* is its contract, CommandService; the connection is reduced to what the  *)
(* broker and the dispatcher see of it.  MqttLink has its descriptors.     *)
(*                                                                         *)
(* The device asks for a clean session and quality of service 0: what is   *)
(* published while it is not subscribed is gone, and so is what was on the *)
(* way when the connection ends.  Only a server that sends again gets its  *)
(* command through.                                                        *)
(***************************************************************************)
EXTENDS Naturals, Sequences, FiniteSets

CONSTANTS
    Commands,   \* what the server wants done
    NoMessage,  \* nothing is being served
    Capacity,   \* ECA_CLIENT_COMMAND_QUEUE_SIZE
    MaxSends,   \* bound on the messages of an impatient server
    MaxWire,    \* bound on what is between broker and device
    MaxFaults   \* bound on lost connections and ill-timed commands

ASSUME DeliveryAssumption ==
    /\ IsFiniteSet(Commands) /\ "suback" \notin Commands
    /\ {Capacity, MaxSends, MaxWire} \subseteq Nat \ {0} /\ MaxFaults \in Nat

\* An impatient server's messages are numbered in the order it sends them.
Messages == [cmd : Commands, nr : 0 .. MaxSends]
Suback   == [cmd |-> "suback", nr |-> 0]

VARIABLES
    running,    \* g_net.running
    net,        \* the network thread: "off", "dial", "sub1", "sub2", "up"
    asked,      \* a SUBSCRIBE is on its way to the broker
    subscribed, \* the broker forwards commands to this connection
    wire,       \* on the way from the broker to the device
    open, queue, serving, answered,   \* the dispatcher
    stopping,   \* eca_client_network_stop: "no", "join", "drain"
    patient,    \* the server does not repeat what is still on its way
    acked,      \* commands whose acknowledgement the server has
    sent, faults,
    last        \* number of the message served last

session    == <<net, asked, subscribed, wire>>
dispatcher == <<open, queue, serving, answered>>
server     == <<patient, acked>>
deliveryVars == <<running, session, dispatcher, stopping, server, sent, faults, last>>

Service == INSTANCE CommandService WITH pending <- queue

DeliveryInit ==
    /\ running = FALSE /\ net = "off" /\ asked = FALSE
    /\ subscribed = FALSE /\ wire = <<>>
    /\ Service!ServiceInit
    /\ patient \in BOOLEAN /\ acked = {}
    /\ stopping = "no" /\ sent = 0 /\ faults = 0 /\ last = 0

-----------------------------------------------------------------------------
(***************************************************************************)
(* The server and the broker.                                              *)
(***************************************************************************)
InFlight(c) ==
    \/ \E k \in DOMAIN wire : wire[k].cmd = c
    \/ \E k \in DOMAIN queue : queue[k].cmd = c
    \/ serving # NoMessage /\ serving.cmd = c

\* A command that overtakes the answer to a SUBSCRIBE.
Early == asked \/ net = "sub1"

Send(c) ==
    /\ c \notin acked
    /\ IF patient THEN ~InFlight(c) ELSE sent < MaxSends
    /\ sent' = IF patient THEN 0 ELSE sent + 1
    /\ IF subscribed
       THEN /\ Len(wire) < MaxWire
            /\ Early => faults < MaxFaults
            /\ faults' = IF Early THEN faults + 1 ELSE faults
            /\ wire' = Append(wire, [cmd |-> c, nr |-> sent'])
       ELSE UNCHANGED <<wire, faults>>
    /\ UNCHANGED <<running, net, asked, subscribed, dispatcher, stopping, server, last>>

BrokerSubscribes ==
    /\ asked /\ asked' = FALSE
    /\ subscribed' = TRUE
    /\ wire' = Append(wire, Suback)
    /\ UNCHANGED <<running, net, dispatcher, stopping, server, sent, faults, last>>

-----------------------------------------------------------------------------
(***************************************************************************)
(* The network thread.                                                     *)
(***************************************************************************)
Disconnected ==
    /\ net' = "dial" /\ asked' = FALSE /\ subscribed' = FALSE /\ wire' = <<>>

rest == <<running, dispatcher, stopping, server, sent, last>>

\* Fault: a second connection is taken for subscribed.
ConnectUnsubscribed ==
    /\ net = "dial" /\ running
    /\ IF last > 0 \/ faults > 0
       THEN net' = "up" /\ UNCHANGED asked
       ELSE net' = "sub1" /\ asked' = TRUE
    /\ UNCHANGED <<subscribed, wire, faults, rest>>

\* TCP and CONNECT went well; the command topic is subscribed first.
Connect ==
    /\ net = "dial" /\ running
    /\ net' = "sub1" /\ asked' = TRUE
    /\ UNCHANGED <<subscribed, wire, faults, rest>>

CommandTopicAcked ==
    /\ net = "sub1" /\ wire # <<>>
    /\ net' = "sub2" /\ asked' = TRUE /\ wire' = Tail(wire)
    /\ UNCHANGED <<subscribed, faults, rest>>

ResponseTopicAcked ==
    /\ net = "sub2" /\ wire # <<>> /\ Head(wire) = Suback
    /\ net' = "up" /\ wire' = Tail(wire)
    /\ UNCHANGED <<asked, subscribed, faults, rest>>

\* mqtt_subscribe takes whatever comes next for its answer: a command on
\* the topic subscribed first ends the connection and is lost.
SubscribeRefused ==
    /\ net = "sub2" /\ wire # <<>> /\ Head(wire) # Suback
    /\ Disconnected
    /\ UNCHANGED <<faults, rest>>

Room == open /\ Len(queue) < Capacity

\* process_mqtt_packet hands the command to the dispatcher.
ReadCommand ==
    /\ net = "up" /\ wire # <<>>
    /\ Service!Accept /\ queue' = Append(queue, Head(wire))
    /\ wire' = Tail(wire)
    /\ UNCHANGED <<running, net, asked, subscribed, stopping, server, sent,
                   faults, last>>

\* The dispatcher has no room: the connection is closed, and with it goes
\* what was behind the command.
ReadRefused ==
    /\ net = "up" /\ wire # <<>> /\ ~Room
    /\ Disconnected
    /\ UNCHANGED <<faults, rest>>

\* The peer, the Wi-Fi notification, a failed ping or another publisher.
LinkLost ==
    /\ net \in {"sub1", "sub2", "up"} /\ faults < MaxFaults
    /\ faults' = faults + 1
    /\ Disconnected
    /\ UNCHANGED rest

\* Fault: the thread closes the connection and goes round again.
ExitLoops ==
    /\ net \in {"dial", "up"} /\ ~running
    /\ Disconnected
    /\ UNCHANGED <<faults, rest>>

Exit ==
    /\ net \in {"dial", "up"} /\ ~running
    /\ net' = "off" /\ asked' = FALSE /\ subscribed' = FALSE /\ wire' = <<>>
    /\ UNCHANGED <<faults, rest>>

-----------------------------------------------------------------------------
(***************************************************************************)
(* The dispatcher thread.                                                  *)
(***************************************************************************)
\* Fault: the newest command is served first.
PopNewest ==
    /\ serving = NoMessage /\ queue # <<>>
    /\ serving' = queue[Len(queue)]
    /\ queue' = SubSeq(queue, 1, Len(queue) - 1)
    /\ last' = serving'.nr
    /\ UNCHANGED <<running, session, open, answered, stopping, server, sent, faults>>

Pop ==
    /\ Service!Serve
    /\ last' = serving'.nr
    /\ UNCHANGED <<running, session, stopping, server, sent, faults>>

Reaches == acked' = acked \cup {serving.cmd}
Posts   == UNCHANGED acked \/ Reaches

\* publish_event: over the connection if there is one, and over HTTP, where
\* that is enabled and works.  A failed send closes the connection; one that
\* succeeds may be lost with it.
PublishAck ==
    /\ Service!Answer
    /\ \/ net = "up" /\ Reaches /\ UNCHANGED <<session, faults>>
       \/ /\ net = "up" /\ faults < MaxFaults /\ faults' = faults + 1
          /\ Disconnected /\ Posts
       \/ net # "up" /\ Posts /\ UNCHANGED <<session, faults>>
    /\ UNCHANGED <<running, stopping, patient, sent, last>>

Done ==
    /\ answered /\ Service!Finish
    /\ UNCHANGED <<running, session, stopping, server, sent, faults, last>>

-----------------------------------------------------------------------------
(***************************************************************************)
(* The main thread: eca_client_network_start and _stop.                    *)
(***************************************************************************)
Start ==
    /\ net = "off" /\ stopping = "no"
    /\ Service!Open
    /\ running' = TRUE /\ net' = "dial"
    /\ UNCHANGED <<asked, subscribed, wire, stopping, server, sent, faults, last>>

Stop ==
    /\ running /\ stopping = "no"
    /\ running' = FALSE /\ stopping' = "join"
    /\ UNCHANGED <<session, dispatcher, server, sent, faults, last>>

NetworkJoined ==
    /\ stopping = "join" /\ net = "off"
    /\ stopping' = "drain"
    /\ Service!Close
    /\ UNCHANGED <<running, session, server, sent, faults, last>>

DispatcherJoined ==
    /\ stopping = "drain" /\ queue = <<>> /\ serving = NoMessage
    /\ stopping' = "no"
    /\ UNCHANGED <<running, session, dispatcher, server, sent, faults, last>>

-----------------------------------------------------------------------------
NetworkThread ==
    \/ Connect \/ CommandTopicAcked \/ ResponseTopicAcked \/ SubscribeRefused
    \/ ReadCommand \/ ReadRefused \/ Exit

DispatcherThread == Pop \/ PublishAck \/ Done

DeliveryNext ==
    \/ NetworkThread \/ LinkLost \/ DispatcherThread
    \/ BrokerSubscribes \/ \E c \in Commands : Send(c)
    \/ Start \/ Stop \/ NetworkJoined \/ DispatcherJoined

DeliverySpec == DeliveryInit /\ [][DeliveryNext]_deliveryVars

\* The threads run, and the thread looks at running once per packet.  Of the
\* server it is assumed that it tries again, sooner or later while the device
\* is connected.
DeliveryFairSpec ==
    /\ DeliverySpec
    /\ WF_deliveryVars(NetworkThread) /\ WF_deliveryVars(DispatcherThread)
    /\ WF_deliveryVars(BrokerSubscribes) /\ WF_deliveryVars(Exit)
    /\ WF_deliveryVars(NetworkJoined \/ DispatcherJoined)
    /\ \A c \in Commands : SF_deliveryVars(net = "up" /\ Send(c))

-----------------------------------------------------------------------------
\* Types, and a command queue within its bound.
DeliveryTypeOK ==
    /\ running \in BOOLEAN /\ net \in {"off", "dial", "sub1", "sub2", "up"}
    /\ {asked, subscribed, open, answered} \subseteq BOOLEAN
    /\ wire \in Seq(Messages \cup {Suback})
    /\ queue \in Seq(Messages) /\ Len(queue) <= Capacity
    /\ serving \in Messages \cup {NoMessage}
    /\ stopping \in {"no", "join", "drain"} /\ acked \subseteq Commands
    /\ patient \in BOOLEAN
    /\ sent \in 0 .. MaxSends /\ faults \in 0 .. MaxFaults
    /\ last \in 0 .. MaxSends

(***************************************************************************)
(* Whatever gets through does so in the order in which the server sent it, *)
(* over lost connections, commands refused for want of room and restarts:  *)
(* what is served, what waits and what is on the wire are one increasing   *)
(* row.                                                                    *)
(***************************************************************************)
InOrder ==
    LET row == queue \o wire
        commands == {k \in DOMAIN row : row[k] # Suback}
    IN  ~patient =>
            /\ \A k \in commands : row[k].nr > last
            /\ \A j, k \in commands : j < k => row[j].nr < row[k].nr

(***************************************************************************)
(* A command that a patient server keeps sending, with no more commands    *)
(* than the queue holds, is acknowledged in the end, though connections    *)
(* break, acknowledgements are skipped while there is none, and commands   *)
(* are lost in the handshake; unless the device is stopped.                *)
(***************************************************************************)
EventuallyAcked ==
    Cardinality(Commands) <= Capacity =>
        \A c \in Commands : patient /\ running ~> (c \in acked \/ ~running)

(***************************************************************************)
(* eca_client_network_stop returns: first the network thread leaves its    *)
(* loop, then the dispatcher drains.                                       *)
(***************************************************************************)
StopEnds == stopping # "no" ~> stopping = "no"
=============================================================================
