--------------------------- MODULE ExchangeProofs ---------------------------
(***************************************************************************)
(* Proofs about the two exchanges with the server.                         *)
(*                                                                         *)
(* CommandDelivery, for any commands, capacity and number of messages: the *)
(* commands that get through do so in order.                               *)
(*                                                                         *)
(* MqttRequest, for any number of callers, slots and requests.  The        *)
(* inductive invariant adds two facts to the properties that are checked:  *)
(* two callers inside the call never work on the same slot, and a slot is  *)
(* fulfilled only with the answer to the id it carries.  The first is what *)
(* makes Release of one caller harmless to the others, the second is what  *)
(* Answered copies to the caller.                                          *)
(***************************************************************************)
EXTENDS CommandDelivery, MqttRequest, TLAPS

-----------------------------------------------------------------------------
(***************************************************************************)
(* The delivery of commands.  Its invariant: the numbers of the commands   *)
(* that wait and that are on the wire rise from the one served last to the *)
(* one sent last, and the wire carries the answer to a SUBSCRIBE only      *)
(* while the network thread waits for it.                                  *)
(***************************************************************************)
Packets == Messages \cup {Suback}

\* The commands of s are numbered above low and up to high, in rising order.
Rises(s, low, high) ==
    /\ \A k \in DOMAIN s : s[k] # Suback => low < s[k].nr /\ s[k].nr <= high
    /\ \A j, k \in DOMAIN s :
         s[j] # Suback /\ s[k] # Suback /\ j < k => s[j].nr < s[k].nr

\* The commands of s are numbered below those of t.
Below(s, t) ==
    \A j \in DOMAIN s, k \in DOMAIN t :
        s[j] # Suback /\ t[k] # Suback => s[j].nr < t[k].nr

OneRow(q, w, low, high) ==
    low <= high /\ Rises(q, low, high) /\ Rises(w, low, high) /\ Below(q, w)

NoSuback(s) == \A k \in DOMAIN s : s[k] # Suback

OneSuback(s) ==
    \E k \in DOMAIN s : s[k] = Suback /\ \A j \in DOMAIN s : j # k => s[j] # Suback

\* What of the handshake is under way.
Handshake ==
    /\ net \in {"off", "dial"} => wire = <<>> /\ ~asked /\ ~subscribed
    /\ net = "sub1" => IF asked THEN wire = <<>> /\ ~subscribed
                       ELSE /\ wire # <<>> /\ Head(wire) = Suback
                            /\ NoSuback(Tail(wire))
    /\ net = "sub2" => IF asked THEN NoSuback(wire) ELSE OneSuback(wire)
    /\ net = "up" => ~asked /\ NoSuback(wire)

DeliveryFlags ==
    /\ running \in BOOLEAN /\ asked \in BOOLEAN /\ subscribed \in BOOLEAN
    /\ open \in BOOLEAN /\ answered \in BOOLEAN /\ patient \in BOOLEAN

DeliveryTypes ==
    /\ net \in {"off", "dial", "sub1", "sub2", "up"}
    /\ serving \in Messages \cup {NoMessage}
    /\ stopping \in {"no", "join", "drain"} /\ acked \subseteq Commands
    /\ sent \in 0 .. MaxSends /\ faults \in 0 .. MaxFaults
    /\ last \in 0 .. MaxSends

Lines ==
    /\ wire \in Seq(Packets)
    /\ queue \in Seq(Messages) /\ Len(queue) <= Capacity
    /\ ~patient => OneRow(queue, wire, last, sent)

DeliveryInv == DeliveryFlags /\ DeliveryTypes /\ Lines /\ Handshake

-----------------------------------------------------------------------------
\* A command is not the answer to a SUBSCRIBE.
LEMMA CommandIsNoSuback ==
    /\ \A m \in Messages : m # Suback /\ m.nr \in Nat /\ m.cmd \in Commands
    /\ \A m \in Packets : m.nr \in Nat
    /\ Messages \subseteq Packets /\ Suback \in Packets
  BY DeliveryAssumption DEF Messages, Suback, Packets

\* Without its first packet, a row is still one.
LEMMA RisesTail ==
    ASSUME NEW s \in Seq(Packets), s # <<>>, NEW low \in Nat, NEW high \in Nat,
           Rises(s, low, high)
    PROVE  /\ Rises(Tail(s), low, high)
           /\ Head(s) # Suback => /\ Rises(Tail(s), Head(s).nr, high)
                                  /\ low < Head(s).nr /\ Head(s).nr <= high
  <1>1. /\ Tail(s) \in Seq(Packets) /\ Head(s) = s[1] /\ 1 \in DOMAIN s
        /\ \A k \in DOMAIN Tail(s) : /\ k \in Nat /\ k + 1 \in DOMAIN s
                                     /\ Tail(s)[k] = s[k + 1] /\ 1 < k + 1
    OBVIOUS
  <1>2. \A j, k \in DOMAIN Tail(s) : j < k => j + 1 < k + 1
    BY <1>1
  <1> QED
    BY <1>1, <1>2 DEF Rises

\* Two rows stay one above the other when either loses its first packet.
LEMMA BelowTail ==
    ASSUME NEW s \in Seq(Packets), NEW t \in Seq(Packets), Below(s, t)
    PROVE  /\ s # <<>> => Below(Tail(s), t)
           /\ t # <<>> => Below(s, Tail(t))
  <1>1. s # <<>> => \A k \in DOMAIN Tail(s) : k + 1 \in DOMAIN s
                                              /\ Tail(s)[k] = s[k + 1]
    OBVIOUS
  <1>2. t # <<>> => \A k \in DOMAIN Tail(t) : k + 1 \in DOMAIN t
                                              /\ Tail(t)[k] = t[k + 1]
    OBVIOUS
  <1> QED
    BY <1>1, <1>2 DEF Below

\* With a packet more, the answer to a SUBSCRIBE or one numbered higher.
LEMMA RisesAppend ==
    ASSUME NEW s \in Seq(Packets), NEW m \in Packets,
           NEW low \in Nat, NEW high \in Nat, NEW top \in Nat,
           Rises(s, low, high), high <= top,
           m # Suback => low < m.nr /\ m.nr <= top
                         /\ \A k \in DOMAIN s : s[k] # Suback => s[k].nr < m.nr
    PROVE  Rises(Append(s, m), low, top)
  <1> DEFINE r == Append(s, m)
             n == Len(s) + 1
  <1>1. /\ Len(s) \in Nat /\ DOMAIN s = 1 .. Len(s) /\ DOMAIN r = 1 .. n
        /\ r[n] = m /\ \A k \in 1 .. Len(s) : r[k] = s[k]
    OBVIOUS
  <1>2. \A k \in DOMAIN s : s[k].nr \in Nat
    BY <1>1, CommandIsNoSuback
  <1>3. m.nr \in Nat
    BY CommandIsNoSuback
  <1> HIDE DEF r
  <1>4. \A k \in DOMAIN r : r[k] # Suback => low < r[k].nr /\ r[k].nr <= top
    <2> SUFFICES ASSUME NEW k \in DOMAIN r, r[k] # Suback
                 PROVE  low < r[k].nr /\ r[k].nr <= top
      OBVIOUS
    <2>1. CASE k = n
      BY <1>1, <2>1
    <2>2. CASE k # n
      <3>1. k \in DOMAIN s /\ r[k] = s[k]
        BY <1>1, <2>2
      <3> QED
        BY <1>2, <3>1 DEF Rises
    <2> QED
      BY <2>1, <2>2
  <1>5. \A j, k \in DOMAIN r :
          r[j] # Suback /\ r[k] # Suback /\ j < k => r[j].nr < r[k].nr
    <2> SUFFICES ASSUME NEW j \in DOMAIN r, NEW k \in DOMAIN r,
                        r[j] # Suback, r[k] # Suback, j < k
                 PROVE  r[j].nr < r[k].nr
      OBVIOUS
    <2>1. j \in DOMAIN s /\ r[j] = s[j]
      BY <1>1
    <2>2. CASE k = n
      BY <1>1, <2>1, <2>2
    <2>3. CASE k # n
      <3>1. k \in DOMAIN s /\ r[k] = s[k]
        BY <1>1, <2>3
      <3> QED
        BY <2>1, <3>1 DEF Rises
    <2> QED
      BY <2>2, <2>3
  <1> QED
    BY <1>4, <1>5 DEF Rises, r

\* ... and when one gets a packet that fits between or above.
LEMMA BelowAppend ==
    ASSUME NEW s \in Seq(Packets), NEW t \in Seq(Packets), NEW m \in Packets,
           Below(s, t)
    PROVE  /\ (m # Suback => \A k \in DOMAIN s : s[k] # Suback => s[k].nr < m.nr)
                => Below(s, Append(t, m))
           /\ (m # Suback => \A k \in DOMAIN t : t[k] # Suback => m.nr < t[k].nr)
                => Below(Append(s, m), t)
  <1>1. \A k \in DOMAIN Append(t, m) :
            (k \in DOMAIN t /\ Append(t, m)[k] = t[k]) \/ Append(t, m)[k] = m
    OBVIOUS
  <1>2. \A k \in DOMAIN Append(s, m) :
            (k \in DOMAIN s /\ Append(s, m)[k] = s[k]) \/ Append(s, m)[k] = m
    OBVIOUS
  <1> QED
    BY <1>1, <1>2 DEF Below

\* An empty row is in order with any other.
LEMMA EmptyRow ==
    ASSUME NEW s \in Seq(Packets), NEW low, NEW high
    PROVE  Rises(<<>>, low, high) /\ Below(s, <<>>) /\ Below(<<>>, s)
  <1>1. DOMAIN <<>> = {}
    OBVIOUS
  <1> QED
    BY <1>1 DEF Rises, Below

\* The number of SUBACKs after an append.
LEMMA SubackAppend ==
    ASSUME NEW s \in Seq(Packets), NEW m \in Packets
    PROVE  /\ NoSuback(s) /\ m # Suback => NoSuback(Append(s, m))
           /\ NoSuback(s) /\ m = Suback => OneSuback(Append(s, m))
           /\ OneSuback(s) /\ m # Suback => OneSuback(Append(s, m))
  <1> DEFINE r == Append(s, m)
             n == Len(s) + 1
  <1>1. /\ Len(s) \in Nat /\ DOMAIN s = 1 .. Len(s) /\ DOMAIN r = 1 .. n
        /\ r[n] = m /\ \A k \in 1 .. Len(s) : r[k] = s[k]
        /\ n \notin 1 .. Len(s)
    OBVIOUS
  <1> HIDE DEF r
  <1>2. \A k \in DOMAIN r : k = n \/ (k \in DOMAIN s /\ r[k] = s[k])
    BY <1>1
  <1>3. n \in DOMAIN r /\ \A k \in DOMAIN s : k \in DOMAIN r /\ r[k] = s[k] /\ k # n
    BY <1>1
  <1>4. NoSuback(s) /\ m # Suback => NoSuback(r)
    BY <1>1, <1>2 DEF NoSuback
  <1>5. NoSuback(s) /\ m = Suback => OneSuback(r)
    BY <1>1, <1>2, <1>3 DEF NoSuback, OneSuback
  <1>6. OneSuback(s) /\ m # Suback => OneSuback(r)
    BY <1>1, <1>2, <1>3 DEF OneSuback
  <1> QED
    BY <1>4, <1>5, <1>6 DEF r

\* The one SUBACK, when it comes first, is the last.
LEMMA SubackTail ==
    ASSUME NEW s \in Seq(Packets), s # <<>>
    PROVE  /\ OneSuback(s) /\ Head(s) = Suback => NoSuback(Tail(s))
           /\ NoSuback(s) => NoSuback(Tail(s)) /\ Head(s) # Suback
  <1>1. /\ Head(s) = s[1] /\ 1 \in DOMAIN s
        /\ \A k \in DOMAIN Tail(s) : /\ k + 1 \in DOMAIN s /\ k + 1 # 1
                                     /\ Tail(s)[k] = s[k + 1]
    OBVIOUS
  <1> QED
    BY <1>1 DEF OneSuback, NoSuback

\* Reading the first packet and appending one commute.
LEMMA TailAppend ==
    ASSUME NEW s \in Seq(Packets), s # <<>>, NEW m \in Packets
    PROVE  Tail(Append(s, m)) = Append(Tail(s), m)
  <1> DEFINE r == Append(s, m)
             x == Tail(r)
             y == Append(Tail(s), m)
  <1>1. /\ Len(s) \in Nat /\ Len(s) > 0 /\ Tail(s) \in Seq(Packets)
        /\ Len(Tail(s)) = Len(s) - 1
        /\ \A k \in 1 .. (Len(s) - 1) : Tail(s)[k] = s[k + 1]
    OBVIOUS
  <1>2. /\ r \in Seq(Packets) /\ Len(r) = Len(s) + 1 /\ r[Len(s) + 1] = m
        /\ \A k \in 1 .. Len(s) : r[k] = s[k]
    OBVIOUS
  <1>3. /\ y \in Seq(Packets) /\ Len(y) = Len(s) /\ y[Len(s)] = m
        /\ \A k \in 1 .. (Len(s) - 1) : y[k] = Tail(s)[k]
    BY <1>1
  <1> HIDE DEF r, y
  <1>4. \A k \in 1 .. Len(s) : y[k] = r[k + 1]
    <2> SUFFICES ASSUME NEW k \in 1 .. Len(s) PROVE y[k] = r[k + 1]
      OBVIOUS
    <2>1. CASE k = Len(s)
      BY <1>2, <1>3, <2>1
    <2>2. CASE k # Len(s)
      <3> DEFINE n == Len(s)
      <3>0. n \in Nat /\ k \in 1 .. n /\ k # n
        BY <1>1, <2>2
      <3> HIDE DEF n
      <3>1. k \in 1 .. (n - 1) /\ k + 1 \in 1 .. n
        BY <3>0
      <3> QED
        BY <1>1, <1>2, <1>3, <3>1 DEF n
    <2> QED
      BY <2>1, <2>2
  <1>5. /\ x \in Seq(Packets) /\ Len(x) = Len(s)
        /\ \A k \in 1 .. Len(s) : x[k] = r[k + 1]
    BY <1>1, <1>2
  <1> HIDE DEF x
  <1>6. x = y
    BY <1>3, <1>4, <1>5
  <1> QED
    BY <1>6 DEF r, x, y

-----------------------------------------------------------------------------
\* Steps that leave the two rows alone, and steps that lose the wire.
LEMMA LinesKept ==
    ASSUME DeliveryInv, wire' = wire \/ wire' = <<>>,
           UNCHANGED <<queue, patient, last, sent>>
    PROVE  Lines'
  <1>0. <<>> \in Seq(Packets)
    OBVIOUS
  <1>1. wire \in Seq(Packets) /\ queue \in Seq(Packets)
    BY CommandIsNoSuback DEF DeliveryInv, Lines
  <1>2. wire' \in Seq(Packets)
    BY <1>0, <1>1
  <1>3. ~patient => OneRow(queue, wire', last, sent)
    BY <1>1, EmptyRow DEF DeliveryInv, Lines, OneRow
  <1> QED
    BY <1>2, <1>3 DEF DeliveryInv, Lines

\* Without a connection there is no handshake.
LEMMA DisconnectedKeeps ==
    ASSUME DeliveryInv, Disconnected,
           UNCHANGED <<running, open, answered, patient, queue, serving>>,
           UNCHANGED <<stopping, sent, last>>,
           acked' \subseteq Commands, faults' \in 0 .. MaxFaults
    PROVE  DeliveryInv'
  <1>1. net' = "dial" /\ ~asked' /\ ~subscribed' /\ wire' = <<>>
        /\ asked' \in BOOLEAN /\ subscribed' \in BOOLEAN
    BY DEF Disconnected
  <1>2. Lines'
    BY <1>1, LinesKept
  <1>3. Handshake'
    BY <1>1 DEF Handshake
  <1>4. DeliveryFlags'
    BY <1>1 DEF DeliveryInv, DeliveryFlags
  <1>5. DeliveryTypes'
    BY <1>1 DEF DeliveryInv, DeliveryTypes
  <1> QED
    BY <1>2, <1>3, <1>4, <1>5 DEF DeliveryInv

\* The first packet of the wire is read and is no command.
LEMMA WireRead ==
    ASSUME DeliveryInv, wire # <<>>, wire' = Tail(wire),
           UNCHANGED <<queue, patient, last, sent>>
    PROVE  Lines'
  <1>1. /\ wire \in Seq(Packets) /\ queue \in Seq(Packets)
        /\ Tail(wire) \in Seq(Packets) /\ last \in Nat /\ sent \in Nat
    BY CommandIsNoSuback DEF DeliveryInv, Lines, DeliveryTypes
  <1>2. ~patient => OneRow(queue, Tail(wire), last, sent)
    BY <1>1, RisesTail, BelowTail DEF DeliveryInv, Lines, OneRow
  <1> QED
    BY <1>1, <1>2 DEF DeliveryInv, Lines

\* The server sends: the number is higher than any before.
LEMMA SendKeeps ==
    ASSUME DeliveryInv, NEW c \in Commands, Send(c)
    PROVE  DeliveryInv'
  <1>1. /\ patient \/ sent < MaxSends
        /\ sent' = IF patient THEN 0 ELSE sent + 1
        /\ UNCHANGED <<running, net, asked, subscribed, dispatcher, stopping, server, last>>
    BY DEF Send
  <1>2. /\ queue' = queue /\ patient' = patient /\ last' = last /\ net' = net
        /\ asked' = asked /\ subscribed' = subscribed /\ open' = open
        /\ answered' = answered /\ serving' = serving /\ acked' = acked
        /\ running' = running /\ stopping' = stopping
    BY <1>1 DEF dispatcher, server
  <1>3. /\ sent \in 0 .. MaxSends /\ faults \in 0 .. MaxFaults
        /\ MaxSends \in Nat /\ MaxFaults \in Nat /\ patient \in BOOLEAN
        /\ last \in Nat /\ sent \in Nat
    BY DeliveryAssumption DEF DeliveryInv, DeliveryTypes, DeliveryFlags
  <1>4. sent' \in 0 .. MaxSends
    BY <1>1, <1>3
  <1>5. faults' \in 0 .. MaxFaults
    <2>1. CASE subscribed /\ Early
      <3>1. faults < MaxFaults /\ faults' = faults + 1
        BY <2>1 DEF Send
      <3> QED
        BY <1>3, <3>1
    <2>2. CASE ~(subscribed /\ Early)
      <3>1. faults' = faults
        BY <2>2 DEF Send
      <3> QED
        BY <1>3, <3>1
    <2> QED
      BY <2>1, <2>2
  <1>6. DeliveryFlags'
    BY <1>2 DEF DeliveryInv, DeliveryFlags
  <1>7. DeliveryTypes'
    BY <1>2, <1>4, <1>5 DEF DeliveryInv, DeliveryTypes
  <1> DEFINE m == [cmd |-> c, nr |-> sent']
  <1>8. m \in Messages /\ m.nr = sent'
    BY <1>4 DEF Messages
  <1>9. m \in Packets /\ m # Suback
    BY <1>8, CommandIsNoSuback
  <1>10. subscribed => wire' = Append(wire, m)
    BY DEF Send
  <1>11. ~subscribed => wire' = wire
    BY DEF Send
  <1> HIDE DEF m
  <1>12. wire \in Seq(Packets) /\ queue \in Seq(Packets)
         /\ Append(wire, m) \in Seq(Packets)
    BY <1>9, CommandIsNoSuback DEF DeliveryInv, Lines
  <1>13. ASSUME ~patient
         PROVE  OneRow(queue, wire, last, sent')
                /\ OneRow(queue, Append(wire, m), last, sent')
    <2>1. sent' = sent + 1 /\ sent' \in Nat /\ sent <= sent' /\ last <= sent
      BY <1>1, <1>3, <1>13 DEF DeliveryInv, Lines, OneRow
    <2>2. Rises(queue, last, sent) /\ Rises(wire, last, sent) /\ Below(queue, wire)
      BY <1>13 DEF DeliveryInv, Lines, OneRow
    <2>3. /\ \A k \in DOMAIN wire : wire[k].nr \in Nat
          /\ \A k \in DOMAIN queue : queue[k].nr \in Nat
      BY <1>12, CommandIsNoSuback
    <2>4. \A k \in DOMAIN wire : wire[k] # Suback => wire[k].nr < m.nr
      BY <1>3, <1>8, <2>1, <2>2, <2>3 DEF Rises
    <2>5. \A k \in DOMAIN queue : queue[k] # Suback => queue[k].nr < m.nr
      BY <1>3, <1>8, <2>1, <2>2, <2>3 DEF Rises
    <2>6. Rises(wire, last, sent') /\ Rises(queue, last, sent')
      BY <1>3, <2>1, <2>2, <2>3 DEF Rises
    <2>7. last < m.nr /\ m.nr <= sent' /\ last <= sent'
      BY <1>3, <1>8, <2>1
    <2>8. Rises(Append(wire, m), last, sent')
      BY <1>3, <1>9, <1>12, <2>1, <2>2, <2>4, <2>7, RisesAppend
    <2>9. Below(queue, Append(wire, m))
      BY <1>9, <1>12, <2>2, <2>5, BelowAppend
    <2> QED
      BY <2>2, <2>6, <2>7, <2>8, <2>9 DEF OneRow
  <1>14. Lines'
    BY <1>2, <1>10, <1>11, <1>12, <1>13 DEF DeliveryInv, Lines
  <1>15. Handshake'
    <2>1. CASE ~subscribed
      BY <1>2, <1>11, <2>1 DEF DeliveryInv, Handshake
    <2>2. CASE subscribed
      <3>1. wire' = Append(wire, m) /\ net \in {"sub1", "sub2", "up"}
        BY <1>10, <2>2 DEF DeliveryInv, Handshake, DeliveryTypes
      <3>2. CASE net = "sub1"
        <4>1. ~asked /\ wire # <<>> /\ Head(wire) = Suback /\ NoSuback(Tail(wire))
          BY <2>2, <3>2 DEF DeliveryInv, Handshake
        <4>2. /\ Append(wire, m) # <<>> /\ Head(Append(wire, m)) = Head(wire)
              /\ Tail(wire) \in Seq(Packets)
          BY <1>9, <1>12, <4>1
        <4>3. Tail(Append(wire, m)) = Append(Tail(wire), m)
          BY <1>9, <1>12, <4>1, TailAppend
        <4>4. NoSuback(Tail(Append(wire, m)))
          BY <1>9, <4>1, <4>2, <4>3, SubackAppend
        <4> QED
          BY <1>2, <3>1, <3>2, <4>1, <4>2, <4>4 DEF Handshake
      <3>3. CASE net = "sub2"
        BY <1>2, <1>9, <1>12, <3>1, <3>3, SubackAppend DEF DeliveryInv, Handshake
      <3>4. CASE net = "up"
        BY <1>2, <1>9, <1>12, <3>1, <3>4, SubackAppend DEF DeliveryInv, Handshake
      <3> QED
        BY <3>1, <3>2, <3>3, <3>4
    <2> QED
      BY <2>1, <2>2
  <1> QED
    BY <1>6, <1>7, <1>14, <1>15 DEF DeliveryInv

\* The broker answers a SUBSCRIBE.
LEMMA BrokerKeeps ==
    ASSUME DeliveryInv, BrokerSubscribes
    PROVE  DeliveryInv'
  <1>1. /\ asked /\ ~asked' /\ subscribed' /\ wire' = Append(wire, Suback)
        /\ asked' \in BOOLEAN /\ subscribed' \in BOOLEAN
        /\ running' = running /\ net' = net /\ stopping' = stopping
        /\ open' = open /\ queue' = queue /\ serving' = serving
        /\ answered' = answered /\ patient' = patient /\ acked' = acked
        /\ sent' = sent /\ faults' = faults /\ last' = last
    BY DEF BrokerSubscribes, dispatcher, server
  <1>2. /\ wire \in Seq(Packets) /\ queue \in Seq(Packets)
        /\ Suback \in Packets /\ last \in Nat /\ sent \in Nat
        /\ Append(wire, Suback) \in Seq(Packets)
    BY CommandIsNoSuback DEF DeliveryInv, Lines, DeliveryTypes
  <1>3. ~patient => OneRow(queue, Append(wire, Suback), last, sent)
    BY <1>2, RisesAppend, BelowAppend DEF DeliveryInv, Lines, OneRow
  <1>4. Lines'
    BY <1>1, <1>2, <1>3 DEF DeliveryInv, Lines
  <1>5. Handshake'
    <2>1. CASE net = "sub1"
      <3>1. wire = <<>>
        BY <1>1, <2>1 DEF DeliveryInv, Handshake
      <3>2. /\ Append(wire, Suback) # <<>> /\ Head(Append(wire, Suback)) = Suback
            /\ DOMAIN Tail(Append(wire, Suback)) = {}
        BY <1>2, <3>1
      <3> QED
        BY <1>1, <2>1, <3>2 DEF Handshake, NoSuback
    <2>2. CASE net = "sub2"
      BY <1>1, <1>2, <2>2, SubackAppend DEF DeliveryInv, Handshake
    <2>3. net \in {"sub1", "sub2"}
      BY <1>1 DEF DeliveryInv, Handshake, DeliveryTypes
    <2> QED
      BY <2>1, <2>2, <2>3
  <1>6. DeliveryFlags'
    BY <1>1 DEF DeliveryInv, DeliveryFlags
  <1>7. DeliveryTypes'
    BY <1>1 DEF DeliveryInv, DeliveryTypes
  <1> QED
    BY <1>4, <1>5, <1>6, <1>7 DEF DeliveryInv

\* The network thread connects and waits for its two SUBSCRIBEs.
LEMMA HandshakeKeeps ==
    ASSUME DeliveryInv, Connect \/ CommandTopicAcked \/ ResponseTopicAcked
    PROVE  DeliveryInv'
  <1>1. /\ running' = running /\ open' = open /\ queue' = queue
        /\ serving' = serving /\ answered' = answered /\ patient' = patient
        /\ stopping' = stopping /\ acked' = acked /\ subscribed' = subscribed
        /\ sent' = sent /\ faults' = faults /\ last' = last
        /\ net' \in {"sub1", "sub2", "up"}
    BY DEF Connect, CommandTopicAcked, ResponseTopicAcked, rest, dispatcher, server
  <1>2. asked' \in BOOLEAN
    BY DEF Connect, CommandTopicAcked, ResponseTopicAcked, DeliveryInv, DeliveryFlags
  <1>3. wire \in Seq(Packets)
    BY DEF DeliveryInv, Lines
  <1>4. Lines' /\ Handshake'
    <2>1. CASE Connect
      <3>1. net = "dial" /\ net' = "sub1" /\ asked' /\ wire' = wire
        BY <2>1 DEF Connect
      <3>2. Lines'
        BY <1>1, <3>1, LinesKept
      <3> QED
        BY <1>1, <3>1, <3>2 DEF DeliveryInv, Handshake
    <2>2. CASE CommandTopicAcked
      <3>1. net = "sub1" /\ wire # <<>> /\ net' = "sub2" /\ asked'
            /\ wire' = Tail(wire)
        BY <2>2 DEF CommandTopicAcked
      <3>2. Lines'
        BY <1>1, <3>1, WireRead
      <3> QED
        BY <3>1, <3>2 DEF DeliveryInv, Handshake
    <2>3. CASE ResponseTopicAcked
      <3>1. net = "sub2" /\ wire # <<>> /\ Head(wire) = Suback /\ net' = "up"
            /\ asked' = asked /\ wire' = Tail(wire)
        BY <2>3 DEF ResponseTopicAcked
      <3>2. Lines'
        BY <1>1, <3>1, WireRead
      <3>3. ~asked /\ OneSuback(wire)
        BY <1>3, <3>1, SubackTail DEF DeliveryInv, Handshake
      <3>4. NoSuback(Tail(wire))
        BY <1>3, <3>1, <3>3, SubackTail
      <3> QED
        BY <3>1, <3>2, <3>3, <3>4 DEF Handshake
    <2> QED
      BY <2>1, <2>2, <2>3
  <1>5. DeliveryFlags'
    BY <1>1, <1>2 DEF DeliveryInv, DeliveryFlags
  <1>6. DeliveryTypes'
    BY <1>1 DEF DeliveryInv, DeliveryTypes
  <1> QED
    BY <1>4, <1>5, <1>6 DEF DeliveryInv

\* A command goes from the head of the wire to the end of the queue.
LEMMA ReadCommandKeeps ==
    ASSUME DeliveryInv, ReadCommand
    PROVE  DeliveryInv'
  <1> DEFINE m == Head(wire)
  <1>1. /\ net = "up" /\ wire # <<>> /\ wire' = Tail(wire)
        /\ queue' = Append(queue, m) /\ Len(queue) < Capacity
        /\ open' = open /\ serving' = serving /\ answered' = answered
        /\ running' = running /\ net' = net /\ asked' = asked
        /\ subscribed' = subscribed /\ stopping' = stopping
        /\ patient' = patient /\ acked' = acked /\ sent' = sent
        /\ faults' = faults /\ last' = last
    BY DEF ReadCommand, Service!Accept, server
  <1>2. /\ wire \in Seq(Packets) /\ queue \in Seq(Packets)
        /\ queue \in Seq(Messages) /\ Tail(wire) \in Seq(Packets)
        /\ m \in Packets /\ last \in Nat /\ sent \in Nat
    BY <1>1, CommandIsNoSuback DEF DeliveryInv, Lines, DeliveryTypes
  <1>3. m # Suback /\ NoSuback(Tail(wire))
    BY <1>1, <1>2, SubackTail DEF DeliveryInv, Handshake
  <1>4. /\ m = wire[1] /\ 1 \in DOMAIN wire
        /\ \A k \in DOMAIN Tail(wire) : /\ k + 1 \in DOMAIN wire /\ 1 < k + 1
                                        /\ Tail(wire)[k] = wire[k + 1]
    BY <1>1, <1>2
  <1> HIDE DEF m
  <1>5. m \in Messages
    BY <1>2, <1>3 DEF Packets
  <1>6. ASSUME ~patient PROVE OneRow(Append(queue, m), Tail(wire), last, sent)
    <2>1. /\ last <= sent /\ Rises(queue, last, sent)
          /\ Rises(wire, last, sent) /\ Below(queue, wire)
      BY <1>6 DEF DeliveryInv, Lines, OneRow
    <2>2. Rises(Tail(wire), last, sent) /\ Below(queue, Tail(wire))
      BY <1>1, <1>2, <2>1, RisesTail, BelowTail
    <2>3. last < m.nr /\ m.nr <= sent
      BY <1>3, <1>4, <2>1 DEF Rises
    <2>4. \A k \in DOMAIN queue : queue[k] # Suback => queue[k].nr < m.nr
      BY <1>3, <1>4, <2>1 DEF Below
    <2>5. \A k \in DOMAIN Tail(wire) :
            Tail(wire)[k] # Suback => m.nr < Tail(wire)[k].nr
      BY <1>3, <1>4, <2>1 DEF Rises
    <2>6. Rises(Append(queue, m), last, sent)
      BY <1>2, <2>1, <2>3, <2>4, RisesAppend
    <2>7. Below(Append(queue, m), Tail(wire))
      BY <1>2, <2>2, <2>5, BelowAppend
    <2> QED
      BY <2>1, <2>2, <2>6, <2>7 DEF OneRow
  <1>7. Append(queue, m) \in Seq(Messages) /\ Len(Append(queue, m)) = Len(queue) + 1
        /\ Len(queue) \in Nat /\ Capacity \in Nat
    BY <1>2, <1>5, DeliveryAssumption
  <1>8. Lines'
    BY <1>1, <1>2, <1>6, <1>7 DEF Lines
  <1>9. Handshake'
    BY <1>1, <1>3 DEF DeliveryInv, Handshake
  <1>10. DeliveryFlags'
    BY <1>1 DEF DeliveryInv, DeliveryFlags
  <1>11. DeliveryTypes'
    BY <1>1 DEF DeliveryInv, DeliveryTypes
  <1> QED
    BY <1>8, <1>9, <1>10, <1>11 DEF DeliveryInv

\* The dispatcher takes the oldest command.
LEMMA PopKeeps ==
    ASSUME DeliveryInv, Pop
    PROVE  DeliveryInv'
  <1> DEFINE m == Head(queue)
  <1>1. /\ queue # <<>> /\ queue' = Tail(queue) /\ serving' = m /\ last' = m.nr
        /\ open' = open /\ answered' = answered /\ running' = running
        /\ net' = net /\ asked' = asked /\ subscribed' = subscribed
        /\ wire' = wire /\ stopping' = stopping /\ patient' = patient
        /\ acked' = acked /\ sent' = sent /\ faults' = faults
    BY DEF Pop, Service!Serve, session, server
  <1>2. /\ wire \in Seq(Packets) /\ queue \in Seq(Packets)
        /\ queue \in Seq(Messages) /\ Tail(queue) \in Seq(Messages)
        /\ m \in Messages /\ last \in Nat /\ sent \in Nat
        /\ m = queue[1] /\ 1 \in DOMAIN queue
        /\ Len(Tail(queue)) = Len(queue) - 1 /\ Len(queue) \in Nat
    BY <1>1, CommandIsNoSuback DEF DeliveryInv, Lines, DeliveryTypes
  <1> HIDE DEF m
  <1>3. m # Suback /\ m.nr \in 0 .. MaxSends /\ m.nr \in Nat
    BY <1>2, CommandIsNoSuback DEF Messages
  <1>4. ASSUME ~patient PROVE OneRow(Tail(queue), wire, m.nr, sent)
    <2>1. /\ last <= sent /\ Rises(queue, last, sent)
          /\ Rises(wire, last, sent) /\ Below(queue, wire)
      BY <1>4 DEF DeliveryInv, Lines, OneRow
    <2>2. Rises(Tail(queue), m.nr, sent) /\ m.nr <= sent
      BY <1>1, <1>2, <1>3, <2>1, RisesTail DEF m
    <2>3. Below(Tail(queue), wire)
      BY <1>1, <1>2, <2>1, BelowTail
    <2>4. Rises(wire, m.nr, sent)
      BY <1>2, <1>3, <2>1 DEF Rises, Below
    <2> QED
      BY <2>2, <2>3, <2>4 DEF OneRow
  <1>5. Lines'
    BY <1>1, <1>2, <1>4, DeliveryAssumption DEF DeliveryInv, Lines
  <1>6. Handshake'
    BY <1>1 DEF DeliveryInv, Handshake
  <1>7. DeliveryFlags'
    BY <1>1 DEF DeliveryInv, DeliveryFlags
  <1>8. DeliveryTypes'
    BY <1>1, <1>2, <1>3 DEF DeliveryInv, DeliveryTypes
  <1> QED
    BY <1>5, <1>6, <1>7, <1>8 DEF DeliveryInv

\* A refused SUBSCRIBE or command and a lost link end the connection.
LEMMA ConnectionEndsKeeps ==
    ASSUME DeliveryInv, SubscribeRefused \/ ReadRefused \/ LinkLost
    PROVE  DeliveryInv'
  <1>1. /\ Disconnected /\ running' = running /\ open' = open
        /\ answered' = answered /\ patient' = patient /\ queue' = queue
        /\ serving' = serving /\ stopping' = stopping /\ sent' = sent
        /\ last' = last /\ acked' = acked
    BY DEF SubscribeRefused, ReadRefused, LinkLost, rest, dispatcher, server
  <1>2. /\ acked \subseteq Commands /\ faults \in 0 .. MaxFaults
        /\ MaxFaults \in Nat
    BY DeliveryAssumption DEF DeliveryInv, DeliveryTypes
  <1>3. faults' = faults \/ (faults < MaxFaults /\ faults' = faults + 1)
    BY DEF SubscribeRefused, ReadRefused, LinkLost
  <1>4. faults' \in 0 .. MaxFaults
    BY <1>2, <1>3
  <1> QED
    BY <1>1, <1>2, <1>4, DisconnectedKeeps

\* The network thread leaves its loop and closes the connection.
LEMMA ExitKeeps ==
    ASSUME DeliveryInv, Exit
    PROVE  DeliveryInv'
  <1>1. /\ net' = "off" /\ ~asked' /\ ~subscribed' /\ wire' = <<>>
        /\ asked' \in BOOLEAN /\ subscribed' \in BOOLEAN
        /\ running' = running /\ open' = open /\ queue' = queue
        /\ serving' = serving /\ answered' = answered /\ patient' = patient
        /\ stopping' = stopping /\ acked' = acked
        /\ sent' = sent /\ faults' = faults /\ last' = last
    BY DEF Exit, rest, dispatcher, server
  <1>2. Lines'
    BY <1>1, LinesKept
  <1>3. Handshake'
    BY <1>1 DEF Handshake
  <1>4. DeliveryFlags'
    BY <1>1 DEF DeliveryInv, DeliveryFlags
  <1>5. DeliveryTypes'
    BY <1>1 DEF DeliveryInv, DeliveryTypes
  <1> QED
    BY <1>2, <1>3, <1>4, <1>5 DEF DeliveryInv

\* An acknowledgement goes out, is lost, or ends the connection.
LEMMA PublishAckKeeps ==
    ASSUME DeliveryInv, PublishAck
    PROVE  DeliveryInv'
  <1>1. /\ serving # NoMessage /\ answered' = TRUE /\ open' = open
        /\ queue' = queue /\ serving' = serving /\ running' = running
        /\ stopping' = stopping /\ patient' = patient /\ sent' = sent
        /\ last' = last
    BY DEF PublishAck, Service!Answer
  <1>2. acked' = acked \/ acked' = acked \cup {serving.cmd}
    BY DEF PublishAck, Posts, Reaches
  <1>3. acked' \subseteq Commands
    BY <1>1, <1>2, CommandIsNoSuback DEF DeliveryInv, DeliveryTypes
  <1>4. \/ UNCHANGED <<session, faults>>
        \/ Disconnected /\ faults < MaxFaults /\ faults' = faults + 1
    BY DEF PublishAck
  <1>5. net' = net \/ net' = "dial"
    BY <1>4 DEF session, Disconnected
  <1>6. faults' \in 0 .. MaxFaults
    BY <1>4, DeliveryAssumption DEF DeliveryInv, DeliveryTypes
  <1>7. Lines'
    <2>1. wire' = wire \/ wire' = <<>>
      BY <1>4 DEF session, Disconnected
    <2> QED
      BY <1>1, <2>1, LinesKept
  <1>8. Handshake'
    BY <1>4 DEF DeliveryInv, Handshake, session, Disconnected
  <1>9. asked' \in BOOLEAN /\ subscribed' \in BOOLEAN
    BY <1>4 DEF DeliveryInv, DeliveryFlags, session, Disconnected
  <1>10. DeliveryFlags'
    BY <1>1, <1>9 DEF DeliveryInv, DeliveryFlags
  <1>11. DeliveryTypes'
    BY <1>1, <1>3, <1>5, <1>6 DEF DeliveryInv, DeliveryTypes
  <1> QED
    BY <1>7, <1>8, <1>10, <1>11 DEF DeliveryInv

\* Finishing a command, start and stop touch neither row.
LEMMA ControlKeeps ==
    ASSUME DeliveryInv,
           \/ Done \/ Start \/ Stop \/ NetworkJoined \/ DispatcherJoined
           \/ UNCHANGED deliveryVars
    PROVE  DeliveryInv'
  <1>1. /\ queue' = queue /\ wire' = wire /\ asked' = asked
        /\ subscribed' = subscribed /\ patient' = patient /\ acked' = acked
        /\ sent' = sent /\ faults' = faults /\ last' = last
    BY DEF Done, Start, Stop, NetworkJoined, DispatcherJoined, deliveryVars,
           session, dispatcher, server, Service!Finish, Service!Open, Service!Close
  <1>2. serving' = serving \/ serving' = NoMessage
    BY DEF Done, Start, Stop, NetworkJoined, DispatcherJoined, deliveryVars,
           session, dispatcher, server, Service!Finish, Service!Open, Service!Close
  <1>3. net' = net \/ (net = "off" /\ net' = "dial")
    BY DEF Done, Start, Stop, NetworkJoined, DispatcherJoined, deliveryVars,
           session, dispatcher, server
  <1>4. stopping' \in {"no", "join", "drain"}
    BY DEF Done, Start, Stop, NetworkJoined, DispatcherJoined, deliveryVars,
           DeliveryInv, DeliveryTypes
  <1>5. running' \in BOOLEAN
    BY DEF Done, Start, Stop, NetworkJoined, DispatcherJoined, deliveryVars,
           DeliveryInv, DeliveryFlags
  <1>6. open' \in BOOLEAN
    BY DEF Done, Start, Stop, NetworkJoined, DispatcherJoined, deliveryVars,
           DeliveryInv, DeliveryFlags, dispatcher, Service!Finish, Service!Open,
           Service!Close
  <1>7. answered' \in BOOLEAN
    BY DEF Done, Start, Stop, NetworkJoined, DispatcherJoined, deliveryVars,
           DeliveryInv, DeliveryFlags, dispatcher, Service!Finish, Service!Open,
           Service!Close
  <1>8. Lines'
    BY <1>1, LinesKept
  <1>9. Handshake'
    BY <1>1, <1>3 DEF DeliveryInv, Handshake
  <1>10. DeliveryFlags'
    BY <1>1, <1>5, <1>6, <1>7 DEF DeliveryInv, DeliveryFlags
  <1>11. DeliveryTypes'
    BY <1>1, <1>2, <1>3, <1>4 DEF DeliveryInv, DeliveryTypes
  <1> QED
    BY <1>8, <1>9, <1>10, <1>11 DEF DeliveryInv

-----------------------------------------------------------------------------
\* Nothing is connected, queued or sent at the start.
LEMMA DeliveryInitInv == DeliveryInit => DeliveryInv
  <1> SUFFICES ASSUME DeliveryInit PROVE DeliveryInv
    OBVIOUS
  <1>1. /\ wire = <<>> /\ queue = <<>> /\ last = 0 /\ sent = 0 /\ faults = 0
        /\ net = "off" /\ asked = FALSE /\ subscribed = FALSE
        /\ running = FALSE /\ open = FALSE /\ answered = FALSE
        /\ serving = NoMessage /\ patient \in BOOLEAN /\ acked = {}
        /\ stopping = "no"
    BY DEF DeliveryInit, Service!ServiceInit
  <1>2. /\ <<>> \in Seq(Packets) /\ <<>> \in Seq(Messages) /\ Len(<<>>) = 0
        /\ Capacity \in Nat /\ 0 \in 0 .. MaxSends /\ 0 \in 0 .. MaxFaults
        /\ 0 <= 0
    BY DeliveryAssumption
  <1>3. OneRow(<<>>, <<>>, 0, 0)
    BY <1>2, EmptyRow DEF OneRow
  <1>4. Lines
    BY <1>1, <1>2, <1>3, DeliveryAssumption DEF Lines
  <1>5. Handshake
    BY <1>1 DEF Handshake
  <1>6. DeliveryFlags
    BY <1>1 DEF DeliveryFlags
  <1>7. DeliveryTypes
    BY <1>1, <1>2 DEF DeliveryTypes
  <1> QED
    BY <1>4, <1>5, <1>6, <1>7 DEF DeliveryInv

\* Every step of server, broker, network thread, dispatcher and main thread keeps the invariant.
LEMMA DeliveryNextInv ==
    DeliveryInv /\ [DeliveryNext]_deliveryVars => DeliveryInv'
  <1> SUFFICES ASSUME DeliveryInv, [DeliveryNext]_deliveryVars
               PROVE  DeliveryInv'
    OBVIOUS
  <1>1. CASE NetworkThread
    BY <1>1, HandshakeKeeps, ConnectionEndsKeeps, ReadCommandKeeps, ExitKeeps
       DEF NetworkThread
  <1>2. CASE DispatcherThread
    BY <1>2, PopKeeps, PublishAckKeeps, ControlKeeps DEF DispatcherThread
  <1>3. CASE LinkLost \/ BrokerSubscribes \/ \E c \in Commands : Send(c)
    BY <1>3, ConnectionEndsKeeps, BrokerKeeps, SendKeeps
  <1>4. CASE \/ Start \/ Stop \/ NetworkJoined \/ DispatcherJoined
             \/ UNCHANGED deliveryVars
    BY <1>4, ControlKeeps
  <1> QED
    BY <1>1, <1>2, <1>3, <1>4 DEF DeliveryNext

\* The invariant of the delivery holds over lost connections, refused
\* commands, stops and starts.
THEOREM DeliveryInvariant == DeliverySpec => []DeliveryInv
  BY DeliveryInitInv, DeliveryNextInv, PTL DEF DeliverySpec

\* Every variable keeps its type, and no more than Capacity commands wait.
THEOREM DeliveryTypeCorrect == DeliverySpec => []DeliveryTypeOK
  <1>1. ASSUME DeliveryInv PROVE DeliveryTypeOK
    <2>1. {asked, subscribed, open, answered} \subseteq BOOLEAN
      BY <1>1 DEF DeliveryInv, DeliveryFlags
    <2>2. running \in BOOLEAN /\ patient \in BOOLEAN
      BY <1>1 DEF DeliveryInv, DeliveryFlags
    <2> QED
      BY <1>1, <2>1, <2>2
         DEF DeliveryInv, DeliveryTypes, Lines, Packets, DeliveryTypeOK
  <1> QED
    BY <1>1, DeliveryInvariant, PTL

\* Whatever gets through the connection and the dispatcher's queue does so in
\* the order in which the server sent it.
THEOREM DeliveryInOrder == DeliverySpec => []InOrder
  <1>1. ASSUME DeliveryInv PROVE InOrder
    <2> DEFINE row == queue \o wire
               commands == {k \in DOMAIN row : row[k] # Suback}
    <2> SUFFICES ASSUME ~patient
                 PROVE  /\ \A k \in commands : row[k].nr > last
                        /\ \A j, k \in commands : j < k => row[j].nr < row[k].nr
      BY DEF InOrder
    <2>1. wire \in Seq(Packets) /\ queue \in Seq(Packets)
          /\ last \in Nat /\ sent \in Nat
      BY <1>1, CommandIsNoSuback DEF DeliveryInv, Lines, DeliveryTypes
    <2>2. Rises(queue, last, sent) /\ Rises(wire, last, sent) /\ Below(queue, wire)
      BY <1>1 DEF DeliveryInv, Lines, OneRow
    <2>3. /\ \A k \in DOMAIN queue : queue[k].nr \in Nat
          /\ \A k \in DOMAIN wire : wire[k].nr \in Nat
      BY <2>1, CommandIsNoSuback
    <2> DEFINE n == Len(queue)
    <2>4. /\ n \in Nat /\ DOMAIN row \subseteq Nat
          /\ \A k \in DOMAIN row :
               IF k <= n THEN k \in DOMAIN queue /\ row[k] = queue[k]
               ELSE k - n \in DOMAIN wire /\ row[k] = wire[k - n]
      BY <2>1
    <2> HIDE DEF row, n
    <2>5. \A k \in commands : row[k].nr > last
      BY <2>1, <2>2, <2>3, <2>4 DEF Rises
    <2>6. \A j, k \in commands : j < k => row[j].nr < row[k].nr
      <3> SUFFICES ASSUME NEW j \in commands, NEW k \in commands, j < k
                   PROVE  row[j].nr < row[k].nr
        OBVIOUS
      <3>1. j \in Nat /\ k \in Nat /\ j \in DOMAIN row /\ k \in DOMAIN row
            /\ row[j] # Suback /\ row[k] # Suback
        BY <2>4
      <3>2. CASE k <= n
        <4>1. j <= n
          BY <2>4, <3>1, <3>2
        <4> QED
          BY <2>2, <2>4, <3>1, <3>2, <4>1 DEF Rises
      <3>3. CASE ~(k <= n) /\ j <= n
        BY <2>2, <2>4, <3>1, <3>3 DEF Below
      <3>4. CASE ~(k <= n) /\ ~(j <= n)
        <4>1. j - n < k - n
          BY <2>4, <3>1
        <4> QED
          BY <2>2, <2>4, <3>1, <3>4, <4>1 DEF Rises
      <3> QED
        BY <3>2, <3>3, <3>4
    <2> QED
      BY <2>5, <2>6
  <1> QED
    BY <1>1, DeliveryInvariant, PTL

\* Once both topics are subscribed no answer to a SUBSCRIBE is left on the
\* wire: what process_mqtt_packet reads there are commands.
THEOREM DeliveryHandshakeOver == DeliverySpec => [](net = "up" => NoSuback(wire))
  <1>1. DeliveryInv => (net = "up" => NoSuback(wire))
    BY DEF DeliveryInv, Handshake
  <1> QED
    BY <1>1, DeliveryInvariant, PTL

-----------------------------------------------------------------------------
(***************************************************************************)
(* Requests and responses.                                                 *)
(***************************************************************************)
\* Callers inside the call work on different slots.
DistinctSlots ==
    \A c, d \in Callers : InCall(c) /\ InCall(d) /\ c # d => slot[c] # slot[d]

\* A caller inside the call has a request id.
OwnId == \A c \in Callers : InCall(c) => rid[c] \in RequestIds

\* What a slot holds is the answer to the request it was taken for.
AnswerMatchesSlot ==
    \A s \in Slots :
        pending[s].fulfilled => pending[s].response = pending[s].request_id

IInv == /\ TypeOK
        /\ OwnSlot
        /\ NoSlotLeak
        /\ DistinctSlots
        /\ OwnId
        /\ AnswerMatchesSlot
        /\ RightAnswer
        /\ NoMissedAnswer

USE RequestAssumption

\* All slots are free and nobody is in a call when the program starts.
LEMMA InitIInv == Init => IInv
  <1> SUFFICES ASSUME Init PROVE IInv
    OBVIOUS
  <1>1. ZeroSlot \in SlotType
    BY DEF ZeroSlot, SlotType
  <1>2. TypeOK
    <2>1. pending \in [Slots -> SlotType]
      BY <1>1 DEF Init
    <2>2. g_request_counter \in 0 .. MaxRequests
      BY DEF Init
    <2>5. connected \in BOOLEAN /\ published \subseteq RequestIds
      BY Zenon DEF Init
    <2>3. /\ pc \in [Callers -> {"idle", "publish", "giveup", "unconnected",
                                 "check", "asleep"}]
          /\ slot \in [Callers -> Slots \cup {NoSlot}]
          /\ rid \in [Callers -> RequestIds \cup {NoId}]
      BY DEF Init
    <2>4. /\ expired \in [Callers -> BOOLEAN]
          /\ result \in [Callers -> Outcomes]
          /\ answer \in [Callers -> RequestIds \cup {NoId}]
      BY DEF Init, Outcomes
    <2> QED
      BY <2>1, <2>2, <2>3, <2>4, <2>5 DEF TypeOK
  <1>3. \A c \in Callers : pc[c] = "idle" /\ result[c] = "none"
    BY DEF Init
  <1>4. \A s \in Slots : ~pending[s].active /\ ~pending[s].fulfilled
    BY DEF Init, ZeroSlot
  <1> QED
    BY <1>2, <1>3, <1>4
    DEF IInv, OwnSlot, NoSlotLeak, DistinctSlots, OwnId, AnswerMatchesSlot,
        RightAnswer, NoMissedAnswer, InCall

\* Giving the slot of c back, with any outcome but an "ok" that is not c's
\* own answer, leaves every other caller's slot alone.
LEMMA ReleaseIInv ==
    ASSUME IInv, NEW c \in Callers, InCall(c), NEW o \in Outcomes,
           Release(c, o), o = "ok" => answer'[c] = rid[c],
           \A d \in Callers : d # c => answer'[d] = answer[d],
           answer' \in [Callers -> RequestIds \cup {NoId}],
           UNCHANGED <<g_request_counter, connected, published, rid, expired>>
    PROVE  IInv'
  <1> USE DEF IInv
  <1>1. slot[c] \in Slots
    BY DEF OwnSlot
  <1>2. /\ \A s \in Slots : s # slot[c] => pending'[s] = pending[s]
        /\ pending'[slot[c]] = [pending[slot[c]] EXCEPT !.active = FALSE]
        /\ ~pending'[slot[c]].active
        /\ pending'[slot[c]].fulfilled = pending[slot[c]].fulfilled
        /\ pending'[slot[c]].response = pending[slot[c]].response
        /\ pending'[slot[c]].request_id = pending[slot[c]].request_id
    BY <1>1 DEF Release, TypeOK, SlotType
  <1>3. TypeOK'
    <2>1. pending' \in [Slots -> SlotType]
      BY <1>1 DEF Release, TypeOK, SlotType
    <2> QED
      BY <2>1 DEF Release, TypeOK
  <1>4. /\ pc'[c] = "idle"
        /\ \A d \in Callers : d # c =>
             pc'[d] = pc[d] /\ slot'[d] = slot[d] /\ result'[d] = result[d]
    BY DEF Release, TypeOK
  <1>5. result'[c] = o
    BY DEF Release, TypeOK
  <1>6. OwnSlot'
    BY <1>1, <1>2, <1>4 DEF OwnSlot, DistinctSlots, InCall
  <1>7. NoSlotLeak'
    <2> SUFFICES ASSUME NEW s \in Slots, pending'[s].active
                 PROVE  \E d \in Callers : pc'[d] # "idle" /\ slot'[d] = s
      BY DEF NoSlotLeak, InCall
    <2>1. s # slot[c] /\ pending[s].active
      BY <1>2
    <2>2. PICK d \in Callers : pc[d] # "idle" /\ slot[d] = s
      BY <2>1 DEF NoSlotLeak, InCall
    <2> QED
      BY <1>4, <2>1, <2>2
  <1>8. DistinctSlots' /\ OwnId'
    BY <1>4 DEF DistinctSlots, OwnId, InCall
  <1>9. AnswerMatchesSlot'
    BY <1>1, <1>2 DEF AnswerMatchesSlot
  <1>10. RightAnswer'
    BY <1>4, <1>5 DEF RightAnswer, InCall
  <1>11. NoMissedAnswer'
    <2> SUFFICES ASSUME NEW d \in Callers, pc'[d] = "asleep"
                 PROVE  ~pending'[slot'[d]].fulfilled
      BY DEF NoMissedAnswer
    <2>1. d # c /\ pc[d] = "asleep" /\ slot'[d] = slot[d]
      BY <1>4
    <2>2. slot[d] \in Slots /\ slot[d] # slot[c] /\ ~pending[slot[d]].fulfilled
      BY <2>1 DEF OwnSlot, DistinctSlots, InCall, NoMissedAnswer
    <2> QED
      BY <1>2, <2>1, <2>2
  <1> QED
    BY <1>3, <1>6, <1>7, <1>8, <1>9, <1>10, <1>11

\* Taking the first free slot disturbs no caller that already has one.
LEMMA AllocateIInv ==
    ASSUME IInv, NEW c \in Callers, Allocate(c)
    PROVE  IInv'
  <1> USE DEF IInv
  <1> DEFINE n == g_request_counter + 1
             new == [ZeroSlot EXCEPT !.request_id = n, !.active = TRUE]
  <1>1. n \in RequestIds
    BY DEF Allocate, TypeOK, RequestIds
  <1>2. PICK s \in FreeSlots :
          /\ pending' = [pending EXCEPT ![s] = new]
          /\ slot' = [slot EXCEPT ![c] = s]
    BY DEF Allocate
  <1>3. s \in Slots /\ ~pending[s].active
    BY DEF FreeSlots
  <1>4. /\ new.active /\ ~new.fulfilled /\ new.request_id = n
        /\ new \in SlotType
    BY <1>1 DEF ZeroSlot, SlotType
  <1> HIDE DEF new
  <1>5. pending'[s] = new /\ \A t \in Slots : t # s => pending'[t] = pending[t]
    BY <1>2, <1>3 DEF TypeOK
  <1>6. /\ pc'[c] = "publish" /\ slot'[c] = s /\ rid'[c] = n
        /\ \A d \in Callers : d # c =>
             pc'[d] = pc[d] /\ slot'[d] = slot[d] /\ rid'[d] = rid[d]
        /\ result' = result /\ answer' = answer
    BY <1>2 DEF Allocate, TypeOK
  <1>7. \A d \in Callers : d # c /\ InCall(d) => slot[d] # s
    BY <1>3 DEF OwnSlot
  <1>8. TypeOK'
    <2>1. pending' \in [Slots -> SlotType]
      BY <1>2, <1>4 DEF TypeOK
    <2>2. slot' \in [Callers -> Slots \cup {NoSlot}]
      BY <1>2, <1>3 DEF TypeOK
    <2>3. /\ g_request_counter' \in 0 .. MaxRequests
          /\ rid' \in [Callers -> RequestIds \cup {NoId}]
      BY <1>1 DEF Allocate, TypeOK, RequestIds
    <2> QED
      BY <2>1, <2>2, <2>3 DEF Allocate, TypeOK
  <1>9. ~InCall(c)
    BY DEF Allocate, InCall
  <1>10. OwnSlot'
    <2> SUFFICES ASSUME NEW d \in Callers, InCall(d)'
                 PROVE  /\ slot'[d] \in Slots /\ pending'[slot'[d]].active
                        /\ pending'[slot'[d]].request_id = rid'[d]
      BY DEF OwnSlot
    <2>1. CASE d = c
      BY <1>3, <1>4, <1>5, <1>6, <2>1
    <2>2. CASE d # c
      <3>1. InCall(d) /\ slot'[d] = slot[d] /\ rid'[d] = rid[d]
        BY <1>6, <2>2 DEF InCall
      <3>2. slot[d] \in Slots /\ pending[slot[d]].active
            /\ pending[slot[d]].request_id = rid[d]
        BY <3>1 DEF OwnSlot
      <3>3. pending'[slot[d]] = pending[slot[d]]
        BY <1>5, <1>7, <2>2, <3>1, <3>2
      <3> QED
        BY <3>1, <3>2, <3>3
    <2> QED
      BY <2>1, <2>2
  <1>11. NoSlotLeak'
    BY <1>3, <1>4, <1>5, <1>6, <1>9 DEF NoSlotLeak, InCall
  <1>12. DistinctSlots' /\ OwnId'
    BY <1>1, <1>6, <1>7 DEF DistinctSlots, OwnId, InCall
  <1>13. AnswerMatchesSlot'
    BY <1>3, <1>4, <1>5 DEF AnswerMatchesSlot
  <1>14. RightAnswer'
    BY <1>6 DEF RightAnswer, InCall
  <1>15. NoMissedAnswer'
    <2> SUFFICES ASSUME NEW d \in Callers, pc'[d] = "asleep"
                 PROVE  ~pending'[slot'[d]].fulfilled
      BY DEF NoMissedAnswer
    <2>1. d # c /\ pc[d] = "asleep" /\ slot'[d] = slot[d]
      BY <1>6
    <2>2. slot[d] \in Slots /\ slot[d] # s /\ ~pending[slot[d]].fulfilled
      BY <1>7, <2>1 DEF OwnSlot, InCall, NoMissedAnswer
    <2> QED
      BY <1>5, <2>1, <2>2
  <1> QED
    BY <1>8, <1>10, <1>11, <1>12, <1>13, <1>14, <1>15

\* An answer goes to the slot with its id, and wakes every sleeper.
LEMMA HandleResponseIInv ==
    ASSUME IInv, NEW r \in RequestIds, HandleResponse(r)
    PROVE  IInv'
  <1> USE DEF IInv
  <1>1. CASE UNCHANGED <<pending, pc>>
    BY <1>1 DEF HandleResponse, TypeOK, OwnSlot, NoSlotLeak, DistinctSlots,
                OwnId, AnswerMatchesSlot, RightAnswer, NoMissedAnswer, InCall
  <1>2. CASE \E s \in FindPending(r) :
               /\ pending' = [pending EXCEPT ![s] =
                                [@ EXCEPT !.response = r, !.fulfilled = TRUE]]
               /\ Broadcast
    <2>1. PICK s \in FindPending(r) :
            /\ pending' = [pending EXCEPT ![s] =
                              [@ EXCEPT !.response = r, !.fulfilled = TRUE]]
            /\ Broadcast
      BY <1>2
    <2>2. s \in Slots /\ pending[s].active /\ pending[s].request_id = r
      BY DEF FindPending
    <2> DEFINE new == [pending[s] EXCEPT !.response = r, !.fulfilled = TRUE]
    <2>e. pending' = [pending EXCEPT ![s] = new]
      BY <2>1
    <2>f. pending[s] \in SlotType
      BY <2>2 DEF TypeOK
    <2>g. /\ new \in SlotType
          /\ new.active = pending[s].active
          /\ new.request_id = pending[s].request_id
          /\ new.response = r
      BY <2>f DEF SlotType
    <2> HIDE DEF new
    <2>3. /\ \A t \in Slots : t # s => pending'[t] = pending[t]
          /\ pending'[s].active = pending[s].active
          /\ pending'[s].request_id = pending[s].request_id
          /\ pending'[s].response = r
      BY <2>2, <2>e, <2>g DEF TypeOK
    <2>4. pending' \in [Slots -> SlotType]
      BY <2>2, <2>e, <2>g DEF TypeOK
    <2>5. \A c \in Callers : /\ pc'[c] # "asleep"
                             /\ pc'[c] # "idle" <=> pc[c] # "idle"
      BY <2>1 DEF Broadcast
    <2>6. pc' \in [Callers -> {"idle", "publish", "giveup", "unconnected",
                               "check", "asleep"}]
      BY <2>1 DEF Broadcast, TypeOK
    <2>7. TypeOK'
      BY <2>4, <2>6 DEF HandleResponse, TypeOK
    <2>a. UNCHANGED <<slot, rid, result, answer>>
      BY DEF HandleResponse
    <2>b. \A t \in Slots : /\ pending'[t].active = pending[t].active
                           /\ pending'[t].request_id = pending[t].request_id
      BY <2>3
    <2>8. DistinctSlots' /\ OwnId' /\ RightAnswer'
      BY <2>5, <2>a DEF DistinctSlots, OwnId, RightAnswer, InCall
    <2>c. OwnSlot'
      BY <2>5, <2>a, <2>b DEF OwnSlot, InCall
    <2>d. NoSlotLeak'
      <3> SUFFICES ASSUME NEW t \in Slots, pending'[t].active
                   PROVE  \E c \in Callers : pc'[c] # "idle" /\ slot'[c] = t
        BY DEF NoSlotLeak, InCall
      <3>1. PICK c \in Callers : pc[c] # "idle" /\ slot[c] = t
        BY <2>b DEF NoSlotLeak, InCall
      <3> QED
        BY <2>5, <2>a, <3>1
    <2>9. AnswerMatchesSlot'
      BY <2>2, <2>3 DEF AnswerMatchesSlot
    <2>10. NoMissedAnswer'
      BY <2>5 DEF NoMissedAnswer
    <2> QED
      BY <2>7, <2>8, <2>9, <2>10, <2>c, <2>d
  <1> QED
    BY <1>1, <1>2 DEF HandleResponse

\* Steps that leave the table alone and only move a caller between program
\* points inside the call.
LEMMA MoveIInv ==
    ASSUME IInv, NEW c \in Callers, InCall(c),
           NEW p \in {"giveup", "unconnected", "check", "asleep"},
           pc' = [pc EXCEPT ![c] = p],
           p = "asleep" => ~pending[slot[c]].fulfilled,
           connected' \in BOOLEAN, published' \subseteq RequestIds,
           UNCHANGED <<table, slot, rid, expired, result, answer>>
    PROVE  IInv'
  <1> USE DEF IInv, table
  <1>1. pc'[c] = p /\ \A d \in Callers : d # c => pc'[d] = pc[d]
    BY DEF TypeOK
  <1>2. TypeOK'
    BY DEF TypeOK
  <1>3. OwnSlot' /\ NoSlotLeak' /\ DistinctSlots' /\ OwnId' /\ RightAnswer'
    BY <1>1 DEF OwnSlot, NoSlotLeak, DistinctSlots, OwnId, RightAnswer, InCall
  <1>4. AnswerMatchesSlot' /\ NoMissedAnswer'
    BY <1>1 DEF AnswerMatchesSlot, NoMissedAnswer
  <1> QED
    BY <1>2, <1>3, <1>4

\* Every step keeps the invariant.
LEMMA NextIInv == IInv /\ [Next]_vars => IInv'
  <1> SUFFICES ASSUME IInv, [Next]_vars PROVE IInv'
    OBVIOUS
  <1> DEFINE Others == UNCHANGED <<pending, g_request_counter, pc, slot, rid,
                                   result, answer>>
  <1>0. ASSUME Others, connected' \in BOOLEAN, published' = published,
               expired' \in [Callers -> BOOLEAN]
        PROVE  IInv'
    BY <1>0 DEF IInv, TypeOK, OwnSlot, NoSlotLeak, DistinctSlots,
                OwnId, AnswerMatchesSlot, RightAnswer, NoMissedAnswer, InCall
  <1>1. ASSUME NEW c \in Callers, Request(c) PROVE IInv'
    <2>t. /\ published \subseteq RequestIds /\ connected \in BOOLEAN
          /\ (InCall(c) => rid[c] \in RequestIds)
          /\ answer \in [Callers -> RequestIds \cup {NoId}]
          /\ (InCall(c) => slot[c] \in Slots)
          /\ \A s \in Slots : pending[s].response \in RequestIds \cup {NoId}
      BY DEF IInv, OwnSlot, OwnId, TypeOK, SlotType
    <2>1. CASE Allocate(c)
      BY <2>1, AllocateIInv
    <2>2. CASE SlotsFull(c)
      <3>1. /\ result' \in [Callers -> Outcomes]
            /\ \A d \in Callers : result'[d] = "ok" => result[d] = "ok"
        BY <2>2 DEF SlotsFull, IInv, TypeOK, Outcomes
      <3> QED
        BY <2>2, <3>1 DEF SlotsFull, IInv, TypeOK, OwnSlot, NoSlotLeak,
             DistinctSlots, OwnId, AnswerMatchesSlot, RightAnswer,
             NoMissedAnswer, InCall, table
    <2>3. CASE Publish(c)
      BY <2>3, <2>t, MoveIInv DEF Publish, InCall
    <2>4. CASE PublishFails(c)
      BY <2>4, <2>t, MoveIInv DEF PublishFails, InCall
    <2>5. CASE NotConnected(c)
      BY <2>5, <2>t, MoveIInv DEF NotConnected, InCall
    <2>6. CASE GiveUp(c)
      BY <2>6, <2>t, ReleaseIInv DEF GiveUp, InCall, Outcomes
    <2>7. CASE Sleep(c)
      BY <2>7, <2>t, MoveIInv DEF Sleep, InCall
    <2>8. CASE TimedOut(c)
      BY <2>8, <2>t, ReleaseIInv DEF TimedOut, InCall, Outcomes
    <2>9. CASE Answered(c)
      <3>1. answer'[c] = rid[c] /\ answer' \in [Callers -> RequestIds \cup {NoId}]
        BY <2>9, <2>t DEF Answered, InCall, IInv, OwnSlot, AnswerMatchesSlot
      <3>2. \A d \in Callers : d # c => answer'[d] = answer[d]
        BY <2>9, <2>t DEF Answered
      <3> QED
        BY <2>9, <3>1, <3>2, ReleaseIInv DEF Answered, InCall, Outcomes
    <2>10. CASE Wake(c)
      BY <2>10, <2>t, MoveIInv DEF Wake, InCall
    <2>11. CASE WaitFails(c)
      BY <2>11, <2>t, ReleaseIInv DEF WaitFails, InCall, Outcomes
    <2> QED
      BY <1>1, <2>1, <2>2, <2>3, <2>4, <2>5, <2>6, <2>7, <2>8, <2>9, <2>10,
         <2>11 DEF Request
  <1>2. ASSUME NEW c \in Callers, DeadlinePasses(c) PROVE IInv'
    <2>1. expired' \in [Callers -> BOOLEAN] /\ connected' \in BOOLEAN
      BY <1>2 DEF DeadlinePasses, IInv, TypeOK
    <2> QED
      BY <1>0, <1>2, <2>1 DEF DeadlinePasses, table
  <1>3. ASSUME NEW r \in RequestIds, HandleResponse(r) PROVE IInv'
    BY <1>3, HandleResponseIInv
  <1>4. CASE LinkChanges
    <2>1. connected' \in BOOLEAN /\ expired' \in [Callers -> BOOLEAN]
      BY <1>4 DEF LinkChanges, locals, IInv, TypeOK
    <2> QED
      BY <1>0, <1>4, <2>1 DEF LinkChanges, table, locals
  <1>5. CASE UNCHANGED vars
    <2>1. connected' \in BOOLEAN /\ expired' \in [Callers -> BOOLEAN]
      BY <1>5 DEF vars, locals, IInv, TypeOK
    <2> QED
      BY <1>0, <1>5, <2>1 DEF vars, table, locals
  <1> QED
    BY <1>1, <1>2, <1>3, <1>4, <1>5 DEF Next

\* The inductive invariant holds in every reachable state.
LEMMA Invariance == Spec => []IInv
  BY InitIInv, NextIInv, PTL DEF Spec

\* The pending table and the callers' locals keep their types.
THEOREM RequestTypeCorrect == Spec => []TypeOK
  <1>1. IInv => TypeOK
    BY DEF IInv
  <1> QED
    BY <1>1, Invariance, PTL

\* A slot is the exclusive property of the caller that took it.
THEOREM SlotsCorrect == Spec => []OwnSlot
  <1>1. IInv => OwnSlot
    BY DEF IInv
  <1> QED
    BY <1>1, Invariance, PTL

\* No slot is ever lost, on any path through eca_client_mqtt_request.
THEOREM NoLeakCorrect == Spec => []NoSlotLeak
  <1>1. IInv => NoSlotLeak
    BY DEF IInv
  <1> QED
    BY <1>1, Invariance, PTL

\* A call that returns 0 returns the answer to its own request.
THEOREM AnswerCorrect == Spec => []RightAnswer
  <1>1. IInv => RightAnswer
    BY DEF IInv
  <1> QED
    BY <1>1, Invariance, PTL

\* No caller sleeps through its own answer.
THEOREM WakeCorrect == Spec => []NoMissedAnswer
  <1>1. IInv => NoMissedAnswer
    BY DEF IInv
  <1> QED
    BY <1>1, Invariance, PTL

\* A caller is turned away only while others hold every slot.
THEOREM BusyCorrect == Spec => BusyOnlyWhenFull
  <1> DEFINE Full(c) == \A s \in Slots :
                 \E d \in Callers \ {c} : InCall(d) /\ slot[d] = s
             Step == \A c \in Callers :
                 result'[c] = "busy" /\ result[c] # "busy" => Full(c)
  <1>1. IInv /\ [Next]_vars => [Step]_vars
    <2> SUFFICES ASSUME IInv, Next, NEW c \in Callers,
                        result'[c] = "busy", result[c] # "busy"
                 PROVE  Full(c)
      OBVIOUS
    <2>t. result \in [Callers -> Outcomes]
      BY DEF IInv, TypeOK
    <2>1. \A d \in Callers : \A o :
            Release(d, o) => o = "busy" \/ result'[c] # "busy"
      BY <2>t DEF Release
    <2>2. SlotsFull(c)
      <3>1. ~LinkChanges
        BY DEF LinkChanges, locals
      <3>2. \A r \in RequestIds : ~HandleResponse(r)
        BY DEF HandleResponse
      <3>3. \A d \in Callers : ~DeadlinePasses(d)
        BY DEF DeadlinePasses
      <3>4. PICK d \in Callers : Request(d)
        BY <3>1, <3>2, <3>3 DEF Next
      <3>5. ~Allocate(d) /\ ~Publish(d) /\ ~PublishFails(d) /\ ~NotConnected(d)
            /\ ~Sleep(d) /\ ~Wake(d)
        BY DEF Allocate, Publish, PublishFails, NotConnected, Sleep, Wake
      <3>6. ~TimedOut(d) /\ ~Answered(d) /\ ~WaitFails(d) /\ ~GiveUp(d)
        BY <2>1 DEF TimedOut, Answered, WaitFails, GiveUp
      <3>7. SlotsFull(d)
        BY <3>4, <3>5, <3>6 DEF Request
      <3>8. d = c
        BY <2>t, <3>7 DEF SlotsFull
      <3> QED
        BY <3>7, <3>8
    <2>3. \A s \in Slots : pending[s].active
      BY <2>2 DEF SlotsFull, FreeSlots
    <2> QED
      BY <2>2, <2>3 DEF SlotsFull, IInv, NoSlotLeak, InCall
  <1> QED
    BY <1>1, Invariance, PTL DEF Spec, BusyOnlyWhenFull
=============================================================================
