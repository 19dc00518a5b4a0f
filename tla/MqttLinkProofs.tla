--------------------------- MODULE MqttLinkProofs ---------------------------
(***************************************************************************)
(* Proofs about MqttLink, for any number of publishers, notifications and  *)
(* descriptors.                                                            *)
(*                                                                         *)
(* The argument is one of ownership.  Own says who may close what; it      *)
(* mentions no program point, and each kind of step (open, close, hand     *)
(* over) keeps it.  Control says at which program points a thread has a    *)
(* descriptor in its hands, and that the network thread goes through       *)
(* connecting only while there is no connection: without it Connected      *)
(* could overwrite, and lose, a descriptor.                                *)
(***************************************************************************)
EXTENDS MqttLink, TLAPS

Own == SockfdIsBroker /\ OneOwner /\ NoDescriptorLeak

\* A thread holds a descriptor exactly at these points.
Holding == {"handshake", "posting", "closing"}

HoldsOnlyThere ==
    \A t \in Threads : pc[t] \in Holding <=> local[t] # NoFd

\* The network thread connects only while there is no connection; what it
\* connects is a connection to the broker.
ConnectsAlone ==
    /\ pc[Net] \in {"connect", "dial", "handshake"} => sockfd = NoFd
    /\ pc[Net] = "handshake" => file[local[Net]] = "mqtt"

\* Each thread stays in its own code.
OwnCode ==
    /\ pc[Net] \notin {"idle", "notify", "closing"}
    /\ \A p \in Publishers : pc[p] \in {"idle", "publish", "post", "posting"}
    /\ \A n \in Notifiers : pc[n] \in {"idle", "notify", "closing"}

Control == /\ HoldsOnlyThere
           /\ ConnectsAlone
           /\ OwnCode
           /\ ErrorIsAboutThisLink
           /\ StoppedIsClosed

IInv == TypeOK /\ Own /\ Control

USE ThreadAssumption

\* Nothing is open when the program starts.
LEMMA InitIInv == Init => IInv
  <1> SUFFICES ASSUME Init PROVE IInv
    OBVIOUS
  <1>1. Net \in Threads
    BY DEF Threads
  <1>2. TypeOK
    <2>1. pc \in [Threads -> PCs] /\ pc[Net] = "off"
      BY <1>1 DEF Init, PCs
    <2>2. /\ local \in [Threads -> Fds \cup {NoFd}]
          /\ file \in [Fds -> {"free", "mqtt", "http"}]
          /\ sockfd \in Fds \cup {NoFd}
          /\ fd \in Fds \cup {NoFd}
          /\ after \in {"telemetry", "poll"}
      BY DEF Init
    <2>3. /\ running \in BOOLEAN /\ thread_started \in BOOLEAN
          /\ wifi_was_ready \in BOOLEAN
          /\ ipv4 \in BOOLEAN /\ route \in BOOLEAN
      BY Zenon DEF Init
    <2> QED
      BY <2>1, <2>2, <2>3 DEF TypeOK
  <1>3. Own
    BY DEF Own, Init, SockfdIsBroker, OneOwner, NoDescriptorLeak
  <1>4. Control
    BY <1>1 DEF Control, Init, HoldsOnlyThere, Holding, ConnectsAlone, OwnCode,
               ErrorIsAboutThisLink, StoppedIsClosed, Threads
  <1> QED
    BY <1>2, <1>3, <1>4 DEF IInv

-----------------------------------------------------------------------------
(***************************************************************************)
(* Ownership: one lemma per kind of step.                                  *)
(***************************************************************************)

\* Closing the shared descriptor under the lock.
LEMMA CloseSockfdOwn ==
    ASSUME TypeOK, Own, sockfd # NoFd, CloseSockfd, local' = local
    PROVE  Own'
  <1>1. /\ sockfd \in Fds /\ sockfd' = NoFd
        /\ file'[sockfd] = "free"
        /\ \A f \in Fds : f # sockfd => file'[f] = file[f]
    BY DEF TypeOK, CloseSockfd
  <1>2. \A t \in Threads : local[t] # NoFd => local[t] \in Fds
    BY DEF TypeOK
  <1>3. SockfdIsBroker'
    BY <1>1 DEF SockfdIsBroker
  <1>4. OneOwner'
    BY <1>1, <1>2 DEF OneOwner, Own
  <1>5. NoDescriptorLeak'
    BY <1>1 DEF NoDescriptorLeak, Own
  <1> QED
    BY <1>3, <1>4, <1>5 DEF Own

\* A new descriptor in the hands of a thread that had none.
LEMMA OpensOwn ==
    ASSUME TypeOK, Own, NEW t \in Threads, NEW kind, kind # "free",
           local[t] = NoFd, Opens(t, kind), sockfd' = sockfd
    PROVE  /\ Own'
           /\ local'[t] \in Fds /\ file'[local'[t]] = kind
           /\ \A u \in Threads : u # t => local'[u] = local[u]
           /\ \A f \in Fds : file[f] # "free" => file'[f] = file[f]
  <1>1. PICK f \in Fds : /\ file[f] = "free"
                         /\ file' = [file EXCEPT ![f] = kind]
                         /\ local' = [local EXCEPT ![t] = f]
    BY DEF Opens
  <1>2. /\ file'[f] = kind
        /\ \A g \in Fds : g # f => file'[g] = file[g]
        /\ local'[t] = f
        /\ \A u \in Threads : u # t => local'[u] = local[u]
    BY <1>1 DEF TypeOK
  <1>3. f # sockfd /\ \A u \in Threads : local[u] # f
    <2>1. f # sockfd
      BY <1>1 DEF Own, SockfdIsBroker
    <2>2. \A u \in Threads : local[u] # f
      BY <1>1 DEF Own, OneOwner
    <2> QED
      BY <2>1, <2>2
  <1>4. \A u \in Threads : local[u] # NoFd => local[u] \in Fds
    BY DEF TypeOK
  <1>5. sockfd # NoFd => sockfd \in Fds
    BY DEF TypeOK
  <1>6. SockfdIsBroker'
    BY <1>2, <1>3, <1>5 DEF SockfdIsBroker, Own
  <1>7. OneOwner'
    BY <1>2, <1>3, <1>4 DEF OneOwner, Own
  <1>8. NoDescriptorLeak'
    <2> SUFFICES ASSUME NEW g \in Fds, file'[g] # "free", g # sockfd
                 PROVE  \E u \in Threads : local'[u] = g
      BY DEF NoDescriptorLeak
    <2>1. CASE g = f
      BY <1>2, <2>1
    <2>2. CASE g # f
      <3>1. PICK u \in Threads : local[u] = g
        BY <1>2, <2>2 DEF Own, NoDescriptorLeak
      <3>2. u # t
        BY <3>1
      <3> QED
        BY <1>2, <3>1, <3>2
    <2> QED
      BY <2>1, <2>2
  <1> QED
    BY <1>1, <1>2, <1>6, <1>7, <1>8 DEF Own

\* A thread closes what it has in its hands.
LEMMA ClosesLocalOwn ==
    ASSUME TypeOK, Own, NEW t \in Threads, local[t] # NoFd, ClosesLocal(t),
           sockfd' = sockfd
    PROVE  /\ Own'
           /\ local'[t] = NoFd
           /\ \A u \in Threads : u # t =>
                /\ local'[u] = local[u]
                /\ local[u] # NoFd => file'[local[u]] = file[local[u]]
  <1>1. /\ local[t] \in Fds
        /\ \A f \in Fds : f # local[t] => file'[f] = file[f]
        /\ file'[local[t]] = "free"
        /\ local'[t] = NoFd
        /\ \A u \in Threads : u # t => local'[u] = local[u]
    BY DEF TypeOK, ClosesLocal
  <1>2. \A u \in Threads : local[u] # NoFd => local[u] \in Fds
    BY DEF TypeOK
  <1>3. \A u \in Threads : u # t => local[u] # local[t]
    BY DEF Own, OneOwner
  <1>4. sockfd # local[t]
    BY DEF Own, OneOwner
  <1>5. SockfdIsBroker'
    BY <1>1, <1>4 DEF SockfdIsBroker, Own, TypeOK
  <1>6. OneOwner'
    BY <1>1, <1>2, <1>3 DEF OneOwner, Own
  <1>7. NoDescriptorLeak'
    <2> SUFFICES ASSUME NEW g \in Fds, file'[g] # "free", g # sockfd
                 PROVE  \E u \in Threads : local'[u] = g
      BY DEF NoDescriptorLeak
    <2>1. g # local[t] /\ file[g] # "free"
      BY <1>1
    <2>2. PICK u \in Threads : local[u] = g
      BY <2>1 DEF Own, NoDescriptorLeak
    <2> QED
      BY <1>1, <2>1, <2>2
  <1> QED
    BY <1>1, <1>2, <1>3, <1>5, <1>6, <1>7 DEF Own

\* The network thread hands its new connection to g_net.
LEMMA ConnectedOwn ==
    ASSUME IInv, Connected
    PROVE  /\ Own'
           /\ sockfd' \in Fds
           /\ local'[Net] = NoFd
           /\ \A u \in Threads : u # Net => local'[u] = local[u]
  <1> USE DEF IInv
  <1>1. Net \in Threads
    BY DEF Threads
  <1>2. /\ sockfd = NoFd /\ local[Net] \in Fds
        /\ file[local[Net]] = "mqtt"
    BY <1>1 DEF Connected, Control, ConnectsAlone, HoldsOnlyThere, Holding,
               TypeOK
  <1>3. /\ local'[Net] = NoFd
        /\ \A u \in Threads : u # Net => local'[u] = local[u]
        /\ sockfd' = local[Net] /\ file' = file
    BY <1>1 DEF Connected, TypeOK
  <1>4. SockfdIsBroker'
    BY <1>2, <1>3 DEF SockfdIsBroker
  <1>5. OneOwner'
    BY <1>1, <1>2, <1>3 DEF OneOwner, Own
  <1>6. NoDescriptorLeak'
    <2> SUFFICES ASSUME NEW g \in Fds, file[g] # "free", g # local[Net]
                 PROVE  \E u \in Threads : local'[u] = g
      BY <1>3 DEF NoDescriptorLeak
    <2>1. PICK u \in Threads : local[u] = g
      BY <1>2 DEF Own, NoDescriptorLeak
    <2> QED
      BY <1>3, <2>1
  <1> QED
    BY <1>2, <1>3, <1>4, <1>5, <1>6 DEF Own

\* The notification takes the connection out of g_net.
LEMMA NotifyTakesOwn ==
    ASSUME TypeOK, Own, NEW n \in Notifiers, local[n] = NoFd, NotifyTakes(n)
    PROVE  Own'
  <1>1. n \in Threads
    BY DEF Threads
  <1>2. /\ local'[n] = sockfd /\ sockfd' = NoFd /\ file' = file
        /\ \A u \in Threads : u # n => local'[u] = local[u]
    BY <1>1 DEF NotifyTakes, TypeOK
  <1>3. SockfdIsBroker'
    BY <1>2 DEF SockfdIsBroker
  <1>4. OneOwner'
    BY <1>1, <1>2 DEF OneOwner, SockfdIsBroker, Own
  <1>5. NoDescriptorLeak'
    <2> SUFFICES ASSUME NEW g \in Fds, file[g] # "free"
                 PROVE  \E u \in Threads : local'[u] = g
      BY <1>2 DEF NoDescriptorLeak
    <2>1. CASE g = sockfd
      BY <1>1, <1>2, <2>1
    <2>2. CASE g # sockfd
      <3>1. PICK u \in Threads : local[u] = g
        BY <2>2 DEF Own, NoDescriptorLeak
      <3> QED
        BY <1>2, <3>1
    <2> QED
      BY <2>1, <2>2
  <1> QED
    BY <1>3, <1>4, <1>5 DEF Own

\* A step that opens, closes and hands over nothing.
LEMMA QuietOwn ==
    ASSUME Own, UNCHANGED <<sockfd, file, local>>
    PROVE  Own'
  BY DEF Own, SockfdIsBroker, OneOwner, NoDescriptorLeak

-----------------------------------------------------------------------------
(***************************************************************************)
(* Control: one lemma for the network thread, one for the other threads.   *)
(***************************************************************************)

\* What a step of the network thread has to show.
LEMMA NetStep ==
    ASSUME IInv, Own', NEW p \in PCs \ {"idle", "notify", "closing"},
           Goto(Net, p),
           sockfd' \in Fds \cup {NoFd},
           fd' \in Fds \cup {NoFd},
           after' \in {"telemetry", "poll"},
           wifi_was_ready' \in BOOLEAN,
           local' \in [Threads -> Fds \cup {NoFd}],
           file' \in [Fds -> {"free", "mqtt", "http"}],
           UNCHANGED <<main, wifi>>,
           \A u \in Threads : u # Net => local'[u] = local[u],
           p \in Holding <=> local'[Net] # NoFd,
           p \in {"connect", "dial", "handshake"} => sockfd' = NoFd,
           p = "handshake" => file'[local'[Net]] = "mqtt",
           p \in {"select", "read", "drop", "ping"} => sockfd' \in {NoFd, fd'},
           p \in {"select", "read"} => fd' \in Fds,
           p = "off" => sockfd' = NoFd
    PROVE  IInv'
  <1> USE DEF IInv, main, wifi
  <1>1. Net \in Threads
    BY DEF Threads
  <1>2. /\ pc' \in [Threads -> PCs]
        /\ pc'[Net] = p
        /\ \A u \in Threads : u # Net => pc'[u] = pc[u]
    BY <1>1 DEF Goto, TypeOK
  <1>3. TypeOK'
    BY <1>2 DEF TypeOK
  <1>4. HoldsOnlyThere'
    BY <1>2 DEF HoldsOnlyThere, Control
  <1>5. OwnCode'
    BY <1>2 DEF OwnCode, Control, Threads
  <1>6. ConnectsAlone' /\ ErrorIsAboutThisLink' /\ StoppedIsClosed'
    BY <1>2 DEF ConnectsAlone, ErrorIsAboutThisLink, StoppedIsClosed
  <1> QED
    BY <1>3, <1>4, <1>5, <1>6 DEF Control

\* What a step of another thread has to show: it may empty g_net.sockfd
\* but never fills it.
LEMMA OtherStep ==
    ASSUME IInv, Own', NEW t \in Publishers \cup Notifiers, NEW p \in PCs,
           Goto(t, p),
           t \in Publishers => p \in {"idle", "publish", "post", "posting"},
           t \in Notifiers => p \in {"idle", "notify", "closing"},
           sockfd' \in {sockfd, NoFd},
           local' \in [Threads -> Fds \cup {NoFd}],
           file' \in [Fds -> {"free", "mqtt", "http"}],
           UNCHANGED <<fd, after, wifi_was_ready, main, wifi>>,
           \A u \in Threads : u # t => local'[u] = local[u],
           p \in Holding <=> local'[t] # NoFd,
           pc[Net] = "handshake" => file'[local[Net]] = "mqtt"
    PROVE  IInv'
  <1> USE DEF IInv, main, wifi
  <1>1. Net \in Threads /\ t \in Threads /\ t # Net
    BY DEF Threads
  <1>2. /\ pc' \in [Threads -> PCs]
        /\ pc'[t] = p
        /\ \A u \in Threads : u # t => pc'[u] = pc[u]
        /\ pc'[Net] = pc[Net] /\ local'[Net] = local[Net]
    BY <1>1 DEF Goto, TypeOK
  <1>3. TypeOK'
    BY <1>2 DEF TypeOK
  <1>4. HoldsOnlyThere'
    BY <1>1, <1>2 DEF HoldsOnlyThere, Control
  <1>5. OwnCode'
    BY <1>1, <1>2 DEF OwnCode, Control, Threads
  <1>6. ConnectsAlone' /\ ErrorIsAboutThisLink' /\ StoppedIsClosed'
    BY <1>2 DEF ConnectsAlone, ErrorIsAboutThisLink, StoppedIsClosed, Control
  <1> QED
    BY <1>3, <1>4, <1>5, <1>6 DEF Control

\* Every step of the network thread outside publish_event.
LEMMA NetworkThreadIInv == ASSUME IInv, NetworkThread PROVE IInv'
  <1>t. /\ Net \in Threads
        /\ sockfd \in Fds \cup {NoFd} /\ fd \in Fds \cup {NoFd}
        /\ after \in {"telemetry", "poll"} /\ wifi_was_ready \in BOOLEAN
        /\ local \in [Threads -> Fds \cup {NoFd}]
        /\ file \in [Fds -> {"free", "mqtt", "http"}]
        /\ TypeOK /\ Own
        /\ pc[Net] \in {"select", "read"} => fd \in Fds
    BY DEF Threads, IInv, TypeOK
  <1>h. pc[Net] \notin Holding => local[Net] = NoFd
    BY <1>t DEF IInv, Control, HoldsOnlyThere
  <1>c. /\ pc[Net] \in {"connect", "dial", "handshake"} => sockfd = NoFd
        /\ pc[Net] \in {"select", "read", "drop", "ping"} => sockfd \in {NoFd, fd}
    BY DEF IInv, Control, ConnectsAlone, ErrorIsAboutThisLink
  <1>q. ASSUME CloseMqttSocket, local' = local
        PROVE  /\ Own' /\ sockfd' = NoFd
               /\ file' \in [Fds -> {"free", "mqtt", "http"}]
    <2>1. CASE sockfd # NoFd /\ CloseSockfd
      BY <1>q, <1>t, <2>1, CloseSockfdOwn DEF CloseSockfd
    <2>2. CASE sockfd = NoFd /\ UNCHANGED <<sockfd, file>>
      BY <1>q, <1>t, <2>2, QuietOwn
    <2> QED
      BY <1>q, <2>1, <2>2 DEF CloseMqttSocket
  <1>1. CASE Exit
    <2>1. Own' /\ sockfd' = NoFd /\ file' \in [Fds -> {"free", "mqtt", "http"}]
      BY <1>1, <1>q DEF Exit
    <2> QED
      BY <1>1, <1>t, <1>h, <2>1, NetStep DEF Exit, PCs, Holding
  <1>2. CASE Loop
    <2> DEFINE p == IF sockfd = NoFd THEN "connect" ELSE "heartbeat"
    <2>1. Own'
      BY <1>2, <1>t, QuietOwn DEF Loop
    <2>2. p \in PCs \ {"idle", "notify", "closing"} /\ Goto(Net, p)
      BY <1>2 DEF Loop, PCs
    <2>3. p = "connect" => sockfd = NoFd
      OBVIOUS
    <2>4. p \in {"connect", "heartbeat"}
      OBVIOUS
    <2> HIDE DEF p
    <2> QED
      BY <1>2, <1>t, <1>h, <2>1, <2>2, <2>3, <2>4, NetStep DEF Loop, Holding
  <1>3. CASE WifiDown
    <2>1. Own'
      BY <1>3, <1>t, QuietOwn DEF WifiDown
    <2> QED
      BY <1>3, <1>t, <1>h, <2>1, NetStep DEF WifiDown, PCs, Holding
  <1>4. CASE NoGateway
    <2>1. Own'
      BY <1>4, <1>t, QuietOwn DEF NoGateway
    <2> QED
      BY <1>4, <1>t, <1>h, <2>1, NetStep DEF NoGateway, PCs, Holding
  <1>5. CASE WifiReady
    <2>1. Own'
      BY <1>5, <1>t, QuietOwn DEF WifiReady
    <2> QED
      BY <1>5, <1>t, <1>h, <1>c, <2>1, NetStep DEF WifiReady, PCs, Holding
  <1>6. CASE DialFails
    <2>1. Own'
      BY <1>6, <1>t, QuietOwn DEF DialFails
    <2> QED
      BY <1>6, <1>t, <1>h, <2>1, NetStep DEF DialFails, PCs, Holding
  <1>7. CASE Dial
    <2>1. local[Net] = NoFd /\ sockfd = NoFd
      BY <1>7, <1>h, <1>c DEF Dial, Holding
    <2>2. /\ Own'
          /\ local'[Net] \in Fds /\ file'[local'[Net]] = "mqtt"
          /\ \A u \in Threads : u # Net => local'[u] = local[u]
      BY <1>7, <1>t, <2>1, OpensOwn DEF Dial
    <2>3. /\ local' \in [Threads -> Fds \cup {NoFd}]
          /\ file' \in [Fds -> {"free", "mqtt", "http"}]
      BY <1>7, <1>t DEF Dial, Opens
    <2> QED
      BY <1>7, <1>t, <2>1, <2>2, <2>3, NetStep DEF Dial, PCs, Holding
  <1>8. CASE HandshakeFails
    <2>1. local[Net] # NoFd /\ local[Net] \in Fds
      BY <1>8, <1>t DEF HandshakeFails, Holding, IInv, Control, HoldsOnlyThere
    <2>2. /\ Own' /\ local'[Net] = NoFd
          /\ \A u \in Threads : u # Net => local'[u] = local[u]
      BY <1>8, <1>t, <2>1, ClosesLocalOwn DEF HandshakeFails
    <2>3. /\ local' \in [Threads -> Fds \cup {NoFd}]
          /\ file' \in [Fds -> {"free", "mqtt", "http"}]
      BY <1>8, <1>t, <2>1 DEF HandshakeFails, ClosesLocal
    <2> QED
      BY <1>8, <1>t, <2>2, <2>3, NetStep DEF HandshakeFails, PCs, Holding
  <1>9. CASE Connected
    <2>1. /\ Own' /\ sockfd' \in Fds /\ local'[Net] = NoFd
          /\ \A u \in Threads : u # Net => local'[u] = local[u]
      BY <1>9, ConnectedOwn
    <2>2. local' \in [Threads -> Fds \cup {NoFd}]
      BY <1>9, <1>t DEF Connected
    <2> QED
      BY <1>9, <1>t, <2>1, <2>2, NetStep DEF Connected, PCs, Holding
  <1>10. CASE Heartbeat
    <2>1. Own'
      BY <1>10, <1>t, QuietOwn DEF Heartbeat
    <2>2. PICK p \in {"publish", "telemetry"} : Goto(Net, p)
      BY <1>10 DEF Heartbeat
    <2>3. p \in PCs \ {"idle", "notify", "closing"}
      BY DEF PCs
    <2> QED
      BY <1>10, <1>t, <1>h, <2>1, <2>2, <2>3, NetStep DEF Heartbeat, Holding
  <1>11. CASE Telemetry
    <2>1. Own'
      BY <1>11, <1>t, QuietOwn DEF Telemetry
    <2>2. PICK p \in {"publish", "poll"} : Goto(Net, p)
      BY <1>11 DEF Telemetry
    <2>3. p \in PCs \ {"idle", "notify", "closing"}
      BY DEF PCs
    <2> QED
      BY <1>11, <1>t, <1>h, <2>1, <2>2, <2>3, NetStep DEF Telemetry, Holding
  <1>12. CASE Poll
    <2> DEFINE p == IF sockfd = NoFd THEN "top" ELSE "select"
    <2>1. Own'
      BY <1>12, <1>t, QuietOwn DEF Poll
    <2>2. p \in PCs \ {"idle", "notify", "closing"} /\ Goto(Net, p)
      BY <1>12 DEF Poll, PCs
    <2>3. (p = "select" => sockfd \in Fds) /\ p \in {"top", "select"}
      BY <1>t
    <2> HIDE DEF p
    <2> QED
      BY <1>12, <1>t, <1>h, <2>1, <2>2, <2>3, NetStep DEF Poll, Holding
  <1>13. CASE Select
    <2>1. Own'
      BY <1>13, <1>t, QuietOwn DEF Select
    <2>2. PICK p \in {"read", "ping", "top"} : Goto(Net, p)
      BY <1>13 DEF Select
    <2>3. p \in PCs \ {"idle", "notify", "closing"}
      BY DEF PCs
    <2> QED
      BY <1>13, <1>t, <1>h, <1>c, <2>1, <2>2, <2>3, NetStep DEF Select, Holding
  <1>14. CASE ReadPacket
    <2>1. Own'
      BY <1>14, <1>t, QuietOwn DEF ReadPacket
    <2> QED
      BY <1>14, <1>t, <1>h, <2>1, NetStep DEF ReadPacket, PCs, Holding
  <1>15. CASE ReadFails
    <2>1. Own'
      BY <1>15, <1>t, QuietOwn DEF ReadFails
    <2> QED
      BY <1>15, <1>t, <1>h, <1>c, <2>1, NetStep DEF ReadFails, PCs, Holding
  <1>16. CASE Drop
    <2>1. Own' /\ sockfd' = NoFd /\ file' \in [Fds -> {"free", "mqtt", "http"}]
      BY <1>16, <1>q DEF Drop
    <2> QED
      BY <1>16, <1>t, <1>h, <2>1, NetStep DEF Drop, PCs, Holding
  <1>17. CASE Ping
    <2>1. /\ Own' /\ sockfd' \in Fds \cup {NoFd}
          /\ file' \in [Fds -> {"free", "mqtt", "http"}]
      <3>1. CASE UNCHANGED <<sockfd, file>>
        BY <1>17, <1>t, <3>1, QuietOwn DEF Ping
      <3>2. CASE sockfd # NoFd /\ CloseSockfd
        BY <1>17, <1>t, <3>2, CloseSockfdOwn DEF Ping, CloseSockfd
      <3> QED
        BY <1>17, <3>1, <3>2 DEF Ping
    <2> QED
      BY <1>17, <1>t, <1>h, <2>1, NetStep DEF Ping, PCs, Holding
  <1> QED
    BY <1>1, <1>2, <1>3, <1>4, <1>5, <1>6, <1>7, <1>8, <1>9, <1>10, <1>11,
       <1>12, <1>13, <1>14, <1>15, <1>16, <1>17 DEF NetworkThread

\* publish_event, on the network thread or on another.
LEMMA PublishIInv ==
    ASSUME IInv, NEW t \in Threads, Begin(t) \/ PublishEvent(t)
    PROVE  IInv'
  <1>t. /\ Net \in Threads
        /\ sockfd \in Fds \cup {NoFd} /\ fd \in Fds \cup {NoFd}
        /\ after \in {"telemetry", "poll"} /\ wifi_was_ready \in BOOLEAN
        /\ local \in [Threads -> Fds \cup {NoFd}]
        /\ file \in [Fds -> {"free", "mqtt", "http"}]
        /\ TypeOK /\ Own
    BY DEF Threads, IInv, TypeOK
  <1>h. pc[t] \in Holding <=> local[t] # NoFd
    BY DEF IInv, Control, HoldsOnlyThere
  <1>n. pc[Net] = "handshake" =>
          /\ sockfd = NoFd /\ local[Net] \in Fds
          /\ file[local[Net]] = "mqtt"
    BY <1>t DEF IInv, Control, ConnectsAlone, HoldsOnlyThere, Holding
  <1>p. pc[t] \in {"publish", "post", "posting"} /\ t # Net => t \in Publishers
    BY DEF IInv, Control, OwnCode, Threads
  <1>1. CASE Begin(t)
    <2>1. Own'
      BY <1>1, <1>t, QuietOwn DEF Begin
    <2> QED
      BY <1>1, <1>t, <1>h, <1>n, <2>1, OtherStep DEF Begin, PCs, Holding
  <1>2. CASE Publish(t)
    <2>1. /\ Own' /\ sockfd' \in {sockfd, NoFd}
          /\ file' \in [Fds -> {"free", "mqtt", "http"}]
          /\ pc[Net] = "handshake" => file'[local[Net]] = "mqtt"
      <3>1. CASE UNCHANGED <<sockfd, file>>
        BY <1>2, <1>t, <1>n, <3>1, QuietOwn DEF Publish
      <3>2. CASE sockfd # NoFd /\ CloseSockfd
        BY <1>2, <1>t, <1>n, <3>2, CloseSockfdOwn DEF Publish, CloseSockfd
      <3> QED
        BY <1>2, <3>1, <3>2 DEF Publish
    <2>2. local[t] = NoFd /\ local' = local
      BY <1>2, <1>h DEF Publish, Holding
    <2>3. CASE t = Net
      BY <1>2, <1>t, <2>1, <2>2, <2>3, NetStep DEF Publish, PCs, Holding
    <2>4. CASE t # Net
      BY <1>2, <1>t, <1>p, <2>1, <2>2, <2>4, OtherStep
      DEF Publish, PCs, Holding
    <2> QED
      BY <2>3, <2>4
  <1>3. CASE NoPost(t)
    <2>1. Own' /\ local[t] = NoFd /\ local' = local
      BY <1>3, <1>t, <1>h, QuietOwn DEF NoPost, Holding
    <2>2. CASE t = Net
      <3>1. Goto(Net, after)
        BY <1>3, <2>2 DEF NoPost, Return
      <3>2. after \in PCs \ {"idle", "notify", "closing"}
        BY <1>t DEF PCs
      <3> QED
        BY <1>3, <1>t, <2>1, <2>2, <3>1, <3>2, NetStep DEF NoPost, Holding
    <2>3. CASE t # Net
      BY <1>3, <1>t, <1>p, <1>n, <2>1, <2>3, OtherStep
      DEF NoPost, Return, PCs, Holding
    <2> QED
      BY <2>2, <2>3
  <1>4. CASE Post(t)
    <2>1. local[t] = NoFd
      BY <1>4, <1>h DEF Post, Holding
    <2>2. /\ Own' /\ local'[t] \in Fds
          /\ \A u \in Threads : u # t => local'[u] = local[u]
          /\ \A f \in Fds : file[f] # "free" => file'[f] = file[f]
      BY <1>4, <1>t, <2>1, OpensOwn DEF Post
    <2>3. /\ local' \in [Threads -> Fds \cup {NoFd}]
          /\ file' \in [Fds -> {"free", "mqtt", "http"}]
      BY <1>4, <1>t DEF Post, Opens
    <2>4. CASE t = Net
      BY <1>4, <1>t, <2>2, <2>3, <2>4, NetStep DEF Post, PCs, Holding
    <2>5. CASE t # Net
      BY <1>4, <1>t, <1>p, <1>n, <2>2, <2>3, <2>5, OtherStep
      DEF Post, PCs, Holding
    <2> QED
      BY <2>4, <2>5
  <1>5. CASE PostDone(t)
    <2>1. local[t] # NoFd /\ local[t] \in Fds
      BY <1>5, <1>h, <1>t DEF PostDone, Holding
    <2>2. /\ Own' /\ local'[t] = NoFd
          /\ \A u \in Threads : u # t =>
               /\ local'[u] = local[u]
               /\ local[u] # NoFd => file'[local[u]] = file[local[u]]
      BY <1>5, <1>t, <2>1, ClosesLocalOwn DEF PostDone
    <2>3. /\ local' \in [Threads -> Fds \cup {NoFd}]
          /\ file' \in [Fds -> {"free", "mqtt", "http"}]
      BY <1>5, <1>t, <2>1 DEF PostDone, ClosesLocal
    <2>4. CASE t = Net
      <3>1. Goto(Net, after)
        BY <1>5, <2>4 DEF PostDone, Return
      <3>2. after \in PCs \ {"idle", "notify", "closing"}
        BY <1>t DEF PCs
      <3> QED
        BY <1>5, <1>t, <2>2, <2>3, <2>4, <3>1, <3>2, NetStep
        DEF PostDone, Holding
    <2>5. CASE t # Net
      BY <1>5, <1>t, <1>p, <1>n, <2>2, <2>3, <2>5, OtherStep
      DEF PostDone, Return, PCs, Holding
    <2> QED
      BY <2>4, <2>5
  <1> QED
    BY <1>1, <1>2, <1>3, <1>4, <1>5 DEF PublishEvent

\* The Wi-Fi notification.
LEMMA NotifyIInv ==
    ASSUME IInv, NEW n \in Notifiers,
           Notify(n) \/ NotifyTakes(n) \/ NotifyCloses(n)
    PROVE  IInv'
  <1>t. /\ Net \in Threads /\ n \in Threads /\ n # Net /\ n \notin Publishers
        /\ sockfd \in Fds \cup {NoFd}
        /\ local \in [Threads -> Fds \cup {NoFd}]
        /\ file \in [Fds -> {"free", "mqtt", "http"}]
        /\ TypeOK /\ Own
    BY DEF Threads, IInv, TypeOK
  <1>h. pc[n] \in Holding <=> local[n] # NoFd
    BY <1>t DEF IInv, Control, HoldsOnlyThere
  <1>n. pc[Net] = "handshake" =>
          /\ local[Net] # NoFd
          /\ file[local[Net]] = "mqtt"
    BY <1>t DEF IInv, Control, ConnectsAlone, HoldsOnlyThere, Holding
  <1>1. CASE Notify(n)
    <2>1. Own'
      BY <1>1, <1>t, QuietOwn DEF Notify
    <2> QED
      BY <1>1, <1>t, <1>h, <1>n, <2>1, OtherStep DEF Notify, PCs, Holding
  <1>2. CASE NotifyTakes(n)
    <2> DEFINE p == IF sockfd = NoFd THEN "idle" ELSE "closing"
    <2>1. local[n] = NoFd
      BY <1>2, <1>h DEF NotifyTakes, Holding
    <2>2. Own'
      BY <1>2, <1>t, <2>1, NotifyTakesOwn
    <2>3. /\ local' \in [Threads -> Fds \cup {NoFd}]
          /\ local'[n] = sockfd
          /\ \A u \in Threads : u # n => local'[u] = local[u]
      BY <1>2, <1>t DEF NotifyTakes
    <2>4. /\ p \in PCs /\ p \in {"idle", "closing"}
          /\ p = "closing" <=> sockfd # NoFd
          /\ Goto(n, p)
      BY <1>2 DEF NotifyTakes, PCs
    <2> HIDE DEF p
    <2> QED
      BY <1>2, <1>t, <1>n, <2>2, <2>3, <2>4, OtherStep DEF NotifyTakes, Holding
  <1>3. CASE NotifyCloses(n)
    <2>1. local[n] # NoFd /\ local[n] \in Fds
      BY <1>3, <1>h, <1>t DEF NotifyCloses, Holding
    <2>2. /\ Own' /\ local'[n] = NoFd
          /\ \A u \in Threads : u # n =>
               /\ local'[u] = local[u]
               /\ local[u] # NoFd => file'[local[u]] = file[local[u]]
      BY <1>3, <1>t, <2>1, ClosesLocalOwn DEF NotifyCloses
    <2>3. /\ local' \in [Threads -> Fds \cup {NoFd}]
          /\ file' \in [Fds -> {"free", "mqtt", "http"}]
      BY <1>3, <1>t, <2>1 DEF NotifyCloses, ClosesLocal
    <2> QED
      BY <1>3, <1>t, <1>n, <2>2, <2>3, OtherStep DEF NotifyCloses, PCs, Holding
  <1> QED
    BY <1>1, <1>2, <1>3

\* Every step keeps the invariant.
LEMMA NextIInv == IInv /\ [Next]_vars => IInv'
  <1> SUFFICES ASSUME IInv, [Next]_vars PROVE IInv'
    OBVIOUS
  <1>0. ASSUME UNCHANGED <<sockfd, pc, local, fd, after, file>>,
               running' \in BOOLEAN, thread_started' \in BOOLEAN,
               wifi_was_ready' \in BOOLEAN,
               ipv4' \in BOOLEAN, route' \in BOOLEAN
        PROVE  IInv'
    <2>1. TypeOK'
      BY <1>0 DEF IInv, TypeOK
    <2>2. Own'
      BY <1>0, QuietOwn DEF IInv
    <2>3. Control'
      BY <1>0 DEF IInv, Control, HoldsOnlyThere, ConnectsAlone, OwnCode,
                  ErrorIsAboutThisLink, StoppedIsClosed
    <2> QED
      BY <2>1, <2>2, <2>3 DEF IInv
  <1>t. /\ running \in BOOLEAN /\ thread_started \in BOOLEAN
        /\ wifi_was_ready \in BOOLEAN /\ ipv4 \in BOOLEAN /\ route \in BOOLEAN
    BY DEF IInv, TypeOK
  <1>1. CASE Start
    <2>1. sockfd = NoFd /\ Net \in Threads
      BY <1>1 DEF Start, IInv, Control, StoppedIsClosed, Threads
    <2>2. Own'
      BY <1>1, <2>1, QuietOwn DEF Start, IInv
    <2>3. /\ pc' \in [Threads -> PCs] /\ pc'[Net] = "top"
          /\ \A u \in Threads : u # Net => pc'[u] = pc[u]
      BY <1>1, <2>1 DEF Start, Goto, IInv, TypeOK, PCs
    <2>4. running' \in BOOLEAN /\ thread_started' \in BOOLEAN
          /\ wifi_was_ready' \in BOOLEAN
      BY <1>1, Zenon DEF Start
    <2>5. TypeOK'
      BY <1>1, <2>1, <2>3, <2>4 DEF Start, wifi, IInv, TypeOK
    <2>6. HoldsOnlyThere'
      <3>1. local[Net] = NoFd
        BY <1>1, <2>1 DEF Start, IInv, Control, HoldsOnlyThere, Holding
      <3> QED
        BY <1>1, <2>3, <3>1
        DEF Start, IInv, Control, HoldsOnlyThere, Holding
    <2>7. ConnectsAlone' /\ ErrorIsAboutThisLink' /\ StoppedIsClosed'
      BY <2>3 DEF ConnectsAlone, ErrorIsAboutThisLink, StoppedIsClosed
    <2>8. OwnCode'
      BY <2>3 DEF IInv, Control, OwnCode, Threads
    <2> QED
      BY <2>2, <2>5, <2>6, <2>7, <2>8 DEF IInv, Control
  <1>2. CASE Stop
    <2>1. running' \in BOOLEAN
      BY <1>2, Zenon DEF Stop
    <2> QED
      BY <1>0, <1>2, <1>t, <2>1 DEF Stop, wifi
  <1>3. CASE StopJoins
    <2>1. thread_started' \in BOOLEAN
      BY <1>3, Zenon DEF StopJoins
    <2> QED
      BY <1>0, <1>3, <1>t, <2>1 DEF StopJoins, wifi
  <1>4. CASE NetworkThread
    BY <1>4, NetworkThreadIInv
  <1>5. ASSUME NEW t \in Threads, Begin(t) \/ PublishEvent(t) PROVE IInv'
    BY <1>5, PublishIInv
  <1>6. ASSUME NEW n \in Notifiers,
               Notify(n) \/ NotifyTakes(n) \/ NotifyCloses(n)
        PROVE  IInv'
    BY <1>6, NotifyIInv
  <1>7. CASE WifiChanges
    BY <1>0, <1>7, <1>t DEF WifiChanges, main
  <1>8. CASE UNCHANGED vars
    BY <1>0, <1>8, <1>t DEF vars
  <1> QED
    BY <1>1, <1>2, <1>3, <1>4, <1>5, <1>6, <1>7, <1>8 DEF Next

\* The inductive invariant holds in every reachable state.
LEMMA Invariance == Spec => []IInv
  BY InitIInv, NextIInv, PTL DEF Spec

\* Descriptors and program points keep their types, and select is never
\* called with -1.
THEOREM LinkTypeCorrect == Spec => []TypeOK
  <1>1. IInv => TypeOK
    BY DEF IInv
  <1> QED
    BY <1>1, Invariance, PTL

\* g_net.sockfd, when set, is an open connection to the broker.
THEOREM BrokerCorrect == Spec => []SockfdIsBroker
  <1>1. IInv => SockfdIsBroker
    BY DEF IInv, Own
  <1> QED
    BY <1>1, Invariance, PTL

\* No open descriptor has two owners: none is closed twice.
THEOREM OwnershipCorrect == Spec => []OneOwner
  <1>1. IInv => OneOwner
    BY DEF IInv, Own
  <1> QED
    BY <1>1, Invariance, PTL

\* Every open descriptor has an owner that will close it: none leaks, on any
\* of the ways out of connecting.
THEOREM NoDescriptorLeakCorrect == Spec => []NoDescriptorLeak
  <1>1. IInv => NoDescriptorLeak
    BY DEF IInv, Own
  <1> QED
    BY <1>1, Invariance, PTL

\* An error that the network thread meets on its copy of the descriptor
\* never closes a newer connection.
THEOREM TeardownCorrect == Spec => []ErrorIsAboutThisLink
  <1>1. IInv => ErrorIsAboutThisLink
    BY DEF IInv, Control
  <1> QED
    BY <1>1, Invariance, PTL

\* Once eca_client_network_stop has joined the thread, no connection is left
\* behind that the next start would forget.
THEOREM StoppedCorrect == Spec => []StoppedIsClosed
  <1>1. IInv => StoppedIsClosed
    BY DEF IInv, Control
  <1> QED
    BY <1>1, Invariance, PTL
=============================================================================
