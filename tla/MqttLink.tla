------------------------------ MODULE MqttLink ------------------------------
(***************************************************************************)
(* The MQTT connection of EcaClient (core/eca_client_network.c): the       *)
(* network thread that opens it, reads from it and keeps it alive, the     *)
(* threads that publish over it, and the Wi-Fi notification that takes it  *)
(* away.  They share one descriptor, g_net.sockfd, under publish_lock; the *)
(* kernel hands a closed descriptor number out again at once, also to the  *)
(* HTTP posts of other threads.                                            *)
(*                                                                         *)
(* One action is one critical section of publish_lock or one system call.  *)
(***************************************************************************)
CONSTANTS
    Net,         \* the network thread
    Publishers,  \* threads that publish: dispatcher, UI, voice keyword
    Notifiers,   \* provisioning callbacks that report Wi-Fi as ready
    Fds,         \* descriptor numbers
    NoFd         \* -1

Threads == {Net} \cup Publishers \cup Notifiers

ASSUME ThreadAssumption ==
    /\ Net \notin Publishers \cup Notifiers
    /\ Publishers \cap Notifiers = {}
    /\ NoFd \notin Fds

VARIABLES
    running, thread_started, sockfd,  \* g_net
    pc,              \* where each thread is
    local,           \* the descriptor a thread has in its own hands
    fd,              \* the copy of sockfd that the network thread selects on
    after,           \* where the network thread goes after a publish
    wifi_was_ready,  \* local of the network thread
    file,            \* the kernel's descriptor table
    ipv4, route      \* wlan0 has an address, and a gateway

vars == <<running, thread_started, sockfd, pc, local, fd, after,
          wifi_was_ready, file, ipv4, route>>

wifi == <<ipv4, route>>
main == <<running, thread_started>>

PCs == {"off", "top", "connect", "dial", "handshake", "heartbeat",
        "telemetry", "poll", "select", "read", "drop", "ping",
        "idle", "publish", "post", "posting", "notify", "closing"}

\* Before network_start g_net is zero: mqtt_enabled is false, so sockfd,
\* which is 0, counts as no connection.
Init ==
    /\ running = FALSE
    /\ thread_started = FALSE
    /\ sockfd = NoFd
    /\ pc = [t \in Threads |-> IF t = Net THEN "off" ELSE "idle"]
    /\ local = [t \in Threads |-> NoFd]
    /\ fd = NoFd
    /\ after = "poll"
    /\ wifi_was_ready = FALSE
    /\ file = [f \in Fds |-> "free"]
    /\ ipv4 \in BOOLEAN
    /\ route \in BOOLEAN

Goto(t, label) == pc' = [pc EXCEPT ![t] = label]

\* socket() and close().
Opens(t, kind) ==
    \E f \in Fds : /\ file[f] = "free"
                   /\ file' = [file EXCEPT ![f] = kind]
                   /\ local' = [local EXCEPT ![t] = f]

ClosesLocal(t) ==
    /\ file' = [file EXCEPT ![local[t]] = "free"]
    /\ local' = [local EXCEPT ![t] = NoFd]

\* close(g_net.sockfd); g_net.sockfd = -1
CloseSockfd ==
    /\ file' = [file EXCEPT ![sockfd] = "free"]
    /\ sockfd' = NoFd

\* close_mqtt_socket: nothing to do when somebody else was faster.
CloseMqttSocket ==
    \/ sockfd # NoFd /\ CloseSockfd
    \/ sockfd = NoFd /\ UNCHANGED <<sockfd, file>>

-----------------------------------------------------------------------------
(***************************************************************************)
(* The main thread.                                                        *)
(***************************************************************************)
\* memset of g_net, then the network thread.
Start ==
    /\ ~thread_started
    /\ pc[Net] = "off"
    /\ thread_started' = TRUE
    /\ running' = TRUE
    /\ sockfd' = NoFd
    /\ wifi_was_ready' = FALSE
    /\ Goto(Net, "top")
    /\ UNCHANGED <<local, fd, after, file, wifi>>

Stop ==
    /\ thread_started
    /\ running
    /\ running' = FALSE
    /\ UNCHANGED <<thread_started, sockfd, pc, local, fd, after,
                   wifi_was_ready, file, wifi>>

\* pthread_join has returned.
StopJoins ==
    /\ thread_started
    /\ ~running
    /\ pc[Net] = "off"
    /\ thread_started' = FALSE
    /\ UNCHANGED <<running, sockfd, pc, local, fd, after, wifi_was_ready,
                   file, wifi>>

-----------------------------------------------------------------------------
(***************************************************************************)
(* The network thread.                                                     *)
(***************************************************************************)
\* Fault: the thread ends and leaves the socket to nobody.
ExitOpen ==
    /\ pc[Net] = "top"
    /\ ~running
    /\ Goto(Net, "off")
    /\ UNCHANGED <<main, sockfd, local, fd, after, wifi_was_ready, file, wifi>>

\* The loop ends: DISCONNECT, close, return.
Exit ==
    /\ pc[Net] = "top"
    /\ ~running
    /\ CloseMqttSocket
    /\ Goto(Net, "off")
    /\ UNCHANGED <<main, local, fd, after, wifi_was_ready, wifi>>

\* Fault: a connection is only tried when Wi-Fi has just come up.
LoopOncePerWifi ==
    /\ pc[Net] = "top"
    /\ running
    /\ Goto(Net, IF sockfd = NoFd /\ ~wifi_was_ready THEN "connect"
                 ELSE "heartbeat")
    /\ UNCHANGED <<main, sockfd, local, fd, after, wifi_was_ready, file, wifi>>

Loop ==
    /\ pc[Net] = "top"
    /\ running
    /\ Goto(Net, IF sockfd = NoFd THEN "connect" ELSE "heartbeat")
    /\ UNCHANGED <<main, sockfd, local, fd, after, wifi_was_ready, file, wifi>>

\* No address: also forget that the camera has the Wi-Fi configuration.
WifiDown ==
    /\ pc[Net] = "connect"
    /\ ~ipv4
    /\ wifi_was_ready' = FALSE
    /\ Goto(Net, "top")
    /\ UNCHANGED <<main, sockfd, local, fd, after, file, wifi>>

NoGateway ==
    /\ pc[Net] = "connect"
    /\ ipv4
    /\ ~route
    /\ Goto(Net, "top")
    /\ UNCHANGED <<main, sockfd, local, fd, after, wifi_was_ready, file, wifi>>

\* Identity refresh, and the configuration for the camera when Wi-Fi has
\* just come up; neither result matters to the loop.
WifiReady ==
    /\ pc[Net] = "connect"
    /\ ipv4
    /\ route
    /\ wifi_was_ready' = TRUE
    /\ Goto(Net, "dial")
    /\ UNCHANGED <<main, sockfd, local, fd, after, file, wifi>>

DialFails ==
    /\ pc[Net] = "dial"
    /\ Goto(Net, "top")
    /\ UNCHANGED <<main, sockfd, local, fd, after, wifi_was_ready, file, wifi>>

Dial ==
    /\ pc[Net] = "dial"
    /\ Opens(Net, "mqtt")
    /\ Goto(Net, "handshake")
    /\ UNCHANGED <<main, sockfd, fd, after, wifi_was_ready, wifi>>

\* Fault: the error path forgets close(fd).
HandshakeFailsLeaking ==
    /\ pc[Net] = "handshake"
    /\ local' = [local EXCEPT ![Net] = NoFd]
    /\ Goto(Net, "top")
    /\ UNCHANGED <<main, sockfd, fd, after, wifi_was_ready, file, wifi>>

\* CONNECT or one of the two SUBSCRIBEs failed.
HandshakeFails ==
    /\ pc[Net] = "handshake"
    /\ ClosesLocal(Net)
    /\ Goto(Net, "top")
    /\ UNCHANGED <<main, sockfd, fd, after, wifi_was_ready, wifi>>

\* g_net.sockfd = fd under the lock.
Connected ==
    /\ pc[Net] = "handshake"
    /\ sockfd' = local[Net]
    /\ local' = [local EXCEPT ![Net] = NoFd]
    /\ Goto(Net, "heartbeat")
    /\ UNCHANGED <<main, fd, after, wifi_was_ready, file, wifi>>

\* Each of the two is published when its time has come.
Heartbeat ==
    /\ pc[Net] = "heartbeat"
    /\ after' = "telemetry"
    /\ \/ Goto(Net, "publish")
       \/ Goto(Net, "telemetry")
    /\ UNCHANGED <<main, sockfd, local, fd, wifi_was_ready, file, wifi>>

Telemetry ==
    /\ pc[Net] = "telemetry"
    /\ after' = "poll"
    /\ \/ Goto(Net, "publish")
       \/ Goto(Net, "poll")
    /\ UNCHANGED <<main, sockfd, local, fd, wifi_was_ready, file, wifi>>

\* Fault: the copy of an earlier round is kept.
PollCached ==
    /\ pc[Net] = "poll"
    /\ fd' = IF fd = NoFd THEN sockfd ELSE fd
    /\ Goto(Net, IF sockfd = NoFd THEN "top" ELSE "select")
    /\ UNCHANGED <<main, sockfd, local, after, wifi_was_ready, file, wifi>>

\* The lock is released before select: from here on fd may be stale.
Poll ==
    /\ pc[Net] = "poll"
    /\ fd' = sockfd
    /\ Goto(Net, IF sockfd = NoFd THEN "top" ELSE "select")
    /\ UNCHANGED <<main, sockfd, local, after, wifi_was_ready, file, wifi>>

\* On a closed descriptor select fails at once; on one that was handed out
\* again it waits for the wrong socket.
Select ==
    /\ pc[Net] = "select"
    /\ \/ file[fd] # "free" /\ Goto(Net, "read")
       \/ file[fd] # "free" /\ Goto(Net, "ping")
       \/ file[fd] = "free" /\ Goto(Net, "top")
    /\ UNCHANGED <<main, sockfd, local, fd, after, wifi_was_ready, file, wifi>>

\* process_mqtt_packet succeeded; a PUBACK goes to g_net.sockfd, if any,
\* and its failure is ignored.
ReadPacket ==
    /\ pc[Net] = "read"
    /\ file[fd] # "free"
    /\ Goto(Net, "top")
    /\ UNCHANGED <<main, sockfd, local, fd, after, wifi_was_ready, file, wifi>>

\* The peer closed, the packet is malformed, or the command queue is full.
ReadFails ==
    /\ pc[Net] = "read"
    /\ Goto(Net, "drop")
    /\ UNCHANGED <<main, sockfd, local, fd, after, wifi_was_ready, file, wifi>>

Drop ==
    /\ pc[Net] = "drop"
    /\ CloseMqttSocket
    /\ Goto(Net, "top")
    /\ UNCHANGED <<main, local, fd, after, wifi_was_ready, wifi>>

Ping ==
    /\ pc[Net] = "ping"
    /\ \/ UNCHANGED <<sockfd, file>>
       \/ sockfd # NoFd /\ CloseSockfd
    /\ Goto(Net, "top")
    /\ UNCHANGED <<main, local, fd, after, wifi_was_ready, wifi>>

-----------------------------------------------------------------------------
(***************************************************************************)
(* publish_event, on any thread.                                           *)
(***************************************************************************)
Begin(t) ==
    /\ t \in Publishers
    /\ pc[t] = "idle"
    /\ Goto(t, "publish")
    /\ UNCHANGED <<main, sockfd, local, fd, after, wifi_was_ready, file, wifi>>

\* Sent, skipped for want of a connection, or failed, and then the
\* publisher closes the connection.
Publish(t) ==
    /\ pc[t] = "publish"
    /\ \/ UNCHANGED <<sockfd, file>>
       \/ sockfd # NoFd /\ CloseSockfd
    /\ Goto(t, "post")
    /\ UNCHANGED <<main, local, fd, after, wifi_was_ready, wifi>>

Return(t) == Goto(t, IF t = Net THEN after ELSE "idle")

\* No HTTP post is due, or the server cannot be reached.
NoPost(t) ==
    /\ pc[t] = "post"
    /\ Return(t)
    /\ UNCHANGED <<main, sockfd, local, fd, after, wifi_was_ready, file, wifi>>

Post(t) ==
    /\ pc[t] = "post"
    /\ Opens(t, "http")
    /\ Goto(t, "posting")
    /\ UNCHANGED <<main, sockfd, fd, after, wifi_was_ready, wifi>>

PostDone(t) ==
    /\ pc[t] = "posting"
    /\ ClosesLocal(t)
    /\ Return(t)
    /\ UNCHANGED <<main, sockfd, fd, after, wifi_was_ready, wifi>>

-----------------------------------------------------------------------------
(***************************************************************************)
(* network_notify_wifi_ready, on a provisioning thread.                    *)
(***************************************************************************)
Notify(n) ==
    /\ n \in Notifiers
    /\ pc[n] = "idle"
    /\ thread_started
    /\ Goto(n, "notify")
    /\ UNCHANGED <<main, sockfd, local, fd, after, wifi_was_ready, file, wifi>>

\* Fault: the descriptor is copied and stays in g_net.
NotifyCopies(n) ==
    /\ pc[n] = "notify"
    /\ local' = [local EXCEPT ![n] = sockfd]
    /\ sockfd' = sockfd
    /\ Goto(n, IF sockfd = NoFd THEN "idle" ELSE "closing")
    /\ UNCHANGED <<main, fd, after, wifi_was_ready, file, wifi>>

\* Under the lock the descriptor changes hands ...
NotifyTakes(n) ==
    /\ pc[n] = "notify"
    /\ local' = [local EXCEPT ![n] = sockfd]
    /\ sockfd' = NoFd
    /\ Goto(n, IF sockfd = NoFd THEN "idle" ELSE "closing")
    /\ UNCHANGED <<main, fd, after, wifi_was_ready, file, wifi>>

\* ... and is closed after it.
NotifyCloses(n) ==
    /\ pc[n] = "closing"
    /\ ClosesLocal(n)
    /\ Goto(n, "idle")
    /\ UNCHANGED <<main, sockfd, fd, after, wifi_was_ready, wifi>>

WifiChanges ==
    /\ ipv4' \in BOOLEAN
    /\ route' \in BOOLEAN
    /\ UNCHANGED <<main, sockfd, pc, local, fd, after, wifi_was_ready, file>>

-----------------------------------------------------------------------------
NetworkThread ==
    \/ Exit \/ Loop \/ WifiDown \/ NoGateway \/ WifiReady
    \/ DialFails \/ Dial \/ HandshakeFails \/ Connected
    \/ Heartbeat \/ Telemetry \/ Poll \/ Select
    \/ ReadPacket \/ ReadFails \/ Drop \/ Ping

PublishEvent(t) == Publish(t) \/ NoPost(t) \/ Post(t) \/ PostDone(t)

Next ==
    \/ Start \/ Stop \/ StopJoins
    \/ NetworkThread
    \/ \E t \in Threads : Begin(t) \/ PublishEvent(t)
    \/ \E n \in Notifiers : Notify(n) \/ NotifyTakes(n) \/ NotifyCloses(n)
    \/ WifiChanges

Spec == Init /\ [][Next]_vars

(***************************************************************************)
(* Threads run; system calls return, because the sockets carry timeouts;   *)
(* the broker accepts a client that keeps trying.                          *)
(***************************************************************************)
Fairness ==
    /\ WF_vars(NetworkThread)
    /\ SF_vars(Dial)
    /\ SF_vars(Connected)
    /\ \A t \in Threads : WF_vars(PublishEvent(t))
    /\ \A n \in Notifiers : WF_vars(NotifyTakes(n) \/ NotifyCloses(n))

FairSpec == Spec /\ Fairness

-----------------------------------------------------------------------------
(***************************************************************************)
(* Properties.                                                             *)
(***************************************************************************)

\* Flags, descriptors and program points have their types, and FD_SET and
\* select are given a descriptor and not -1.
TypeOK ==
    /\ running \in BOOLEAN
    /\ thread_started \in BOOLEAN
    /\ sockfd \in Fds \cup {NoFd}
    /\ pc \in [Threads -> PCs]
    /\ local \in [Threads -> Fds \cup {NoFd}]
    /\ fd \in Fds \cup {NoFd}
    /\ pc[Net] \in {"select", "read"} => fd \in Fds
    /\ after \in {"telemetry", "poll"}
    /\ wifi_was_ready \in BOOLEAN
    /\ file \in [Fds -> {"free", "mqtt", "http"}]
    /\ ipv4 \in BOOLEAN
    /\ route \in BOOLEAN

\* As long as g_net.sockfd is set it is an open connection to the broker:
\* no publisher writes to, and nobody closes, a descriptor that another
\* thread has closed and the kernel has given to an HTTP post.
SockfdIsBroker == sockfd # NoFd => file[sockfd] = "mqtt"

\* A descriptor has one owner: what a thread has in its hands is open,
\* nobody else holds it and it is not in g_net, so that it is closed once.
OneOwner ==
    \A t \in Threads : local[t] # NoFd =>
        /\ file[local[t]] # "free"
        /\ local[t] # sockfd
        /\ \A u \in Threads \ {t} : local[u] # local[t]

\* Every open descriptor is still known to somebody who will close it,
\* whichever of connect, read, ping, publish or notify failed on the way.
NoDescriptorLeak ==
    \A f \in Fds : file[f] # "free" =>
        f = sockfd \/ \E t \in Threads : local[t] = f

\* While the network thread works with the copy it took before select, a
\* shared descriptor that differs from the copy can only be gone: an error
\* on an old connection never tears down a newer one.
ErrorIsAboutThisLink ==
    pc[Net] \in {"select", "read", "drop", "ping"} => sockfd \in {NoFd, fd}

\* Nothing stays connected behind a network thread that has ended, although
\* other threads still publish.
StoppedIsClosed == pc[Net] = "off" => sockfd = NoFd

\* With Wi-Fi up and a broker that accepts, a lost connection is opened
\* again, whoever closed it and at whatever point of the loop.
Reconnects ==
    (<>[](running /\ ipv4 /\ route)) => []<>(sockfd # NoFd)
=============================================================================
