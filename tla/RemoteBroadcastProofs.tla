------------------------ MODULE RemoteBroadcastProofs ------------------------
(***************************************************************************)
(* Proofs about RemoteBroadcast, for rings of any size and any number of   *)
(* submitters and broadcasts.                                              *)
(*                                                                         *)
(* First the ring as a data structure: dropping the oldest entry is Tail,  *)
(* storing one is Append, and pushing is "append and keep the newest".     *)
(* Then the state machine, whose steps only push to and drop from rings.   *)
(***************************************************************************)
EXTENDS RemoteBroadcast, TLAPS

-----------------------------------------------------------------------------
\* Arithmetic of ring indices: what a % N is for the arguments the ring
\* applies it to.

\* An index that has not reached the end of the ring stays what it is.
LEMMA ModBelow ==
    ASSUME NEW N \in Nat \ {0}, NEW a \in Nat, a < N
    PROVE  a % N = a
  OBVIOUS

\* An index past the end wraps once.
LEMMA ModOnce ==
    ASSUME NEW N \in Nat \ {0}, NEW a \in Nat, N <= a, a < 2 * N
    PROVE  a % N = a - N
  OBVIOUS

\* The cursor step (i + 1) % N of every ring.
LEMMA CursorStep ==
    ASSUME NEW N \in Nat \ {0}, NEW i \in 0 .. N - 1
    PROVE  /\ (i + 1) % N \in 0 .. N - 1
           /\ (i + 1) % N = IF i + 1 = N THEN 0 ELSE i + 1
  BY ModBelow, ModOnce

\* The k-th slot after cursor r, for k up to the ring's size.
LEMMA SlotAfter ==
    ASSUME NEW N \in Nat \ {0}, NEW r \in 0 .. N - 1, NEW k \in 0 .. N
    PROVE  /\ (r + k) % N \in 0 .. N - 1
           /\ (r + k) % N = IF r + k < N THEN r + k ELSE r + k - N
<1>1. CASE r + k < N
  BY <1>1, ModBelow
<1>2. CASE r + k >= N
  <2>1. r + k \in Nat /\ N <= r + k /\ r + k < 2 * N
    BY <1>2
  <2>2. (r + k) % N = (r + k) - N
    BY <2>1, ModOnce
  <2>3. QED
    BY <1>2, <2>1, <2>2
<1>3. QED
  BY <1>1, <1>2

\* Moving the cursor on by one shifts every slot by one.
LEMMA SlotShift ==
    ASSUME NEW N \in Nat \ {0}, NEW r \in 0 .. N - 1, NEW k \in 0 .. N - 1
    PROVE  (((r + 1) % N) + k) % N = (r + (k + 1)) % N
<1> DEFINE q == (r + 1) % N
<1>1. q \in 0 .. N - 1 /\ q = IF r + 1 = N THEN 0 ELSE r + 1
  BY CursorStep
<1>0. k \in 0 .. N /\ k + 1 \in 0 .. N
  OBVIOUS
<1>2. (q + k) % N = IF q + k < N THEN q + k ELSE q + k - N
  BY Zenon, <1>0, <1>1, SlotAfter
<1>3. (r + (k + 1)) % N = IF r + (k + 1) < N THEN r + (k + 1)
                                            ELSE r + (k + 1) - N
  BY Zenon, <1>0, SlotAfter
<1>4. QED
  BY <1>1, <1>2, <1>3

\* The slot after the k-th one is the (k+1)-st.
LEMMA SlotNext ==
    ASSUME NEW N \in Nat \ {0}, NEW r \in 0 .. N - 1, NEW k \in 0 .. N - 1
    PROVE  (((r + k) % N) + 1) % N = (r + (k + 1)) % N
<1> DEFINE q == (r + k) % N
<1>0. k \in 0 .. N /\ k + 1 \in 0 .. N
  OBVIOUS
<1>1. q \in 0 .. N - 1 /\ q = IF r + k < N THEN r + k ELSE r + k - N
  BY Zenon, <1>0, SlotAfter
<1>2. (q + 1) % N = IF q + 1 = N THEN 0 ELSE q + 1
  BY <1>1, CursorStep
<1>3. (r + (k + 1)) % N = IF r + (k + 1) < N THEN r + (k + 1)
                                            ELSE r + (k + 1) - N
  BY Zenon, <1>0, SlotAfter
<1>4. QED
  BY <1>1, <1>2, <1>3

\* Fewer than N slots apart are different slots.
LEMMA SlotsDiffer ==
    ASSUME NEW N \in Nat \ {0}, NEW r \in 0 .. N - 1,
           NEW j \in 0 .. N - 1, NEW k \in 0 .. N - 1, j # k
    PROVE  (r + j) % N # (r + k) % N
<1>0. j \in 0 .. N /\ k \in 0 .. N
  OBVIOUS
<1>1. (r + j) % N = IF r + j < N THEN r + j ELSE r + j - N
  BY Zenon, <1>0, SlotAfter
<1>2. (r + k) % N = IF r + k < N THEN r + k ELSE r + k - N
  BY Zenon, <1>0, SlotAfter
<1>3. QED
  BY <1>1, <1>2

-----------------------------------------------------------------------------
USE BroadcastAssumption, NullAssumption

\* The invariant of one ring.
RingOK(r) ==
    /\ r \in Ring
    /\ r.write_index = RingIx(r, r.count)
    /\ \A i \in Slots :
         r.items[i] # NULL <=> \E k \in 0 .. r.count - 1 : i = RingIx(r, k)

\* The k-th entry lies in a slot of the ring.
LEMMA IxInSlots ==
    ASSUME NEW r \in Ring, NEW k \in 0 .. QueueSize
    PROVE  RingIx(r, k) \in Slots
  BY SlotAfter DEF Ring, RingIx, Slots

\* Entries fewer than QueueSize apart lie in different slots.
LEMMA IxDiffer ==
    ASSUME NEW r \in Ring, NEW j \in 0 .. QueueSize - 1,
           NEW k \in 0 .. QueueSize - 1, j # k
    PROVE  RingIx(r, j) # RingIx(r, k)
  BY SlotsDiffer DEF Ring, RingIx, Slots

\* The contents of a ring are a sequence of broadcasts.
LEMMA ContentsSeq ==
    ASSUME NEW r, RingOK(r)
    PROVE  /\ Contents(r) \in Seq(Items)
           /\ Len(Contents(r)) = r.count
           /\ \A k \in 1 .. r.count :
                Contents(r)[k] = r.items[RingIx(r, k - 1)]
  <1>1. r.count \in 0 .. QueueSize /\ r.count \in Nat
    BY DEF RingOK, Ring
  <1>2. ASSUME NEW k \in 1 .. r.count
        PROVE  r.items[RingIx(r, k - 1)] \in Items
    <2>1. k - 1 \in 0 .. r.count - 1 /\ k - 1 \in 0 .. QueueSize
      BY <1>1
    <2>2. RingIx(r, k - 1) \in Slots
      BY <2>1, IxInSlots DEF RingOK
    <2>3. r.items[RingIx(r, k - 1)] # NULL
      BY <2>1, <2>2 DEF RingOK
    <2> QED
      BY <2>2, <2>3 DEF RingOK, Ring
  <1> QED
    BY <1>1, <1>2 DEF Contents

\* An empty ring is sound and holds nothing.
LEMMA EmptyRingOK == RingOK(EmptyRing) /\ Contents(EmptyRing) = <<>>
  <1>1. 0 \in Slots
    BY DEF Slots
  <1>2. EmptyRing \in Ring
    BY <1>1 DEF EmptyRing, Ring
  <1>3. EmptyRing.count = 0 /\ EmptyRing.read_index = 0
        /\ EmptyRing.write_index = 0
        /\ \A i \in Slots : EmptyRing.items[i] = NULL
    BY DEF EmptyRing
  <1>4. RingIx(EmptyRing, 0) = 0
    BY <1>3, ModBelow DEF RingIx
  <1>5. RingOK(EmptyRing)
    BY <1>2, <1>3, <1>4 DEF RingOK
  <1> QED
    BY <1>3, <1>5 DEF Contents

\* Dropping the oldest entry: the ring stays sound and loses its head.
LEMMA DropOldestOK ==
    ASSUME NEW r, RingOK(r), r.count > 0
    PROVE  /\ RingOK(DropOldest(r))
           /\ DropOldest(r).count = r.count - 1
           /\ Contents(r) # <<>>
           /\ Contents(DropOldest(r)) = Tail(Contents(r))
  <1> DEFINE d == DropOldest(r)
  <1>1. /\ r \in Ring /\ r.items \in [Slots -> Items \cup {NULL}]
        /\ r.read_index \in Slots /\ r.write_index \in Slots
        /\ r.count \in 1 .. QueueSize
        /\ r.read_index \in 0 .. QueueSize - 1
    BY DEF RingOK, Ring, Slots
  <1>2. /\ d.items = [r.items EXCEPT ![r.read_index] = NULL]
        /\ d.read_index = (r.read_index + 1) % QueueSize
        /\ d.write_index = r.write_index
        /\ d.count = r.count - 1
    BY <1>1 DEF DropOldest, Ring
  <1>3. d \in Ring
    <2>1. (r.read_index + 1) % QueueSize \in Slots
      BY <1>1, CursorStep DEF Slots
    <2>2. /\ [r.items EXCEPT ![r.read_index] = NULL]
                \in [Slots -> Items \cup {NULL}]
          /\ r.count - 1 \in 0 .. QueueSize
      BY <1>1
    <2> QED
      BY <1>1, <2>1, <2>2 DEF DropOldest, Ring
  <1> HIDE DEF d
  <1>4. \A k \in 0 .. QueueSize - 1 : RingIx(d, k) = RingIx(r, k + 1)
    BY <1>1, <1>2, SlotShift DEF RingIx
  <1>5. RingIx(r, 0) = r.read_index
    BY <1>1, ModBelow DEF RingIx
  <1>6. d.write_index = RingIx(d, d.count)
    <2>1. r.count - 1 \in 0 .. QueueSize - 1 /\ (r.count - 1) + 1 = r.count
      BY <1>1
    <2> QED
      BY <1>2, <1>4, <2>1 DEF RingOK
  <1>7. ASSUME NEW i \in Slots
        PROVE  d.items[i] # NULL <=> \E k \in 0 .. d.count - 1 : i = RingIx(d, k)
    <2>1. ASSUME d.items[i] # NULL
          PROVE  \E k \in 0 .. d.count - 1 : i = RingIx(d, k)
      <3>1. i # r.read_index /\ r.items[i] # NULL
        BY <1>1, <1>2, <2>1
      <3>2. PICK k \in 0 .. r.count - 1 : i = RingIx(r, k)
        BY <3>1 DEF RingOK
      <3>3. k # 0
        BY <1>5, <3>1, <3>2
      <3>4. /\ k - 1 \in 0 .. d.count - 1 /\ k - 1 \in 0 .. QueueSize - 1
            /\ (k - 1) + 1 = k
        BY <1>1, <1>2, <3>2, <3>3
      <3>5. RingIx(d, k - 1) = i
        BY <1>4, <3>2, <3>4
      <3> QED
        BY <3>4, <3>5
    <2>2. ASSUME NEW k \in 0 .. d.count - 1, i = RingIx(d, k)
          PROVE  d.items[i] # NULL
      <3>1. k \in 0 .. QueueSize - 1 /\ k + 1 \in 0 .. r.count - 1
            /\ k + 1 \in 0 .. QueueSize - 1 /\ k + 1 # 0
        BY <1>1, <1>2
      <3>2. i = RingIx(r, k + 1)
        BY <1>4, <2>2, <3>1
      <3>3. r.items[i] # NULL
        BY <3>1, <3>2 DEF RingOK
      <3>4. 0 \in 0 .. QueueSize - 1
        OBVIOUS
      <3>5. RingIx(r, k + 1) # RingIx(r, 0)
        BY Zenon, <1>1, <3>1, <3>4, IxDiffer
      <3>6. i # r.read_index
        BY <1>5, <3>2, <3>5
      <3> QED
        BY <1>1, <1>2, <3>3, <3>6
    <2> QED
      BY <2>1, <2>2
  <1>8. RingOK(d)
    BY <1>3, <1>6, <1>7 DEF RingOK
  <1>9. /\ Contents(r) \in Seq(Items) /\ Len(Contents(r)) = r.count
        /\ Contents(d) \in Seq(Items) /\ Len(Contents(d)) = r.count - 1
        /\ \A k \in 1 .. r.count :
             Contents(r)[k] = r.items[RingIx(r, k - 1)]
        /\ \A k \in 1 .. r.count - 1 :
             Contents(d)[k] = d.items[RingIx(d, k - 1)]
    BY <1>2, <1>8, ContentsSeq
  <1>10. ASSUME NEW k \in 1 .. r.count - 1
         PROVE  Contents(d)[k] = Contents(r)[k + 1]
    <2>1. /\ k - 1 \in 0 .. QueueSize - 1 /\ k + 1 \in 1 .. r.count
          /\ (k - 1) + 1 = k /\ (k + 1) - 1 = k
          /\ k \in 0 .. QueueSize - 1 /\ k # 0 /\ 0 \in 0 .. QueueSize - 1
          /\ k \in 0 .. QueueSize
      BY <1>1
    <2>2. RingIx(d, k - 1) = RingIx(r, k)
      BY <1>4, <2>1
    <2>3. RingIx(r, k) \in Slots /\ RingIx(r, k) # RingIx(r, 0)
      BY <1>1, <2>1, IxInSlots, IxDiffer
    <2>4. d.items[RingIx(r, k)] = r.items[RingIx(r, k)]
      BY <1>1, <1>2, <1>5, <2>3
    <2>5. Contents(r)[k + 1] = r.items[RingIx(r, k)]
      BY <1>9, <2>1
    <2> QED
      BY <1>9, <2>2, <2>4, <2>5
  <1>11. Contents(d) = Tail(Contents(r))
    BY <1>1, <1>9, <1>10
  <1>12. Contents(r) # <<>>
    BY <1>1, <1>9
  <1> QED
    BY <1>2, <1>8, <1>11, <1>12 DEF d

\* Storing an entry in a ring that is not full appends it.
LEMMA StoreOK ==
    ASSUME NEW r, RingOK(r), r.count < QueueSize, NEW b \in Items
    PROVE  /\ RingOK(Store(r, b))
           /\ Contents(Store(r, b)) = Append(Contents(r), b)
  <1> DEFINE d == Store(r, b)
  <1>1. /\ r \in Ring /\ r.items \in [Slots -> Items \cup {NULL}]
        /\ r.read_index \in Slots /\ r.write_index \in Slots
        /\ r.count \in 0 .. QueueSize - 1 /\ r.count \in 0 .. QueueSize
        /\ r.read_index \in 0 .. QueueSize - 1
        /\ r.write_index \in 0 .. QueueSize - 1
        /\ r.write_index = RingIx(r, r.count)
    BY DEF RingOK, Ring, Slots
  <1>2. /\ d.items = [r.items EXCEPT ![r.write_index] = b]
        /\ d.read_index = r.read_index
        /\ d.write_index = (r.write_index + 1) % QueueSize
        /\ d.count = r.count + 1
    BY <1>1 DEF Store, Ring
  <1>3. d \in Ring
    <2>1. (r.write_index + 1) % QueueSize \in Slots
      BY <1>1, CursorStep DEF Slots
    <2>2. /\ [r.items EXCEPT ![r.write_index] = b]
                \in [Slots -> Items \cup {NULL}]
          /\ r.count + 1 \in 0 .. QueueSize
      BY <1>1
    <2> QED
      BY <1>1, <2>1, <2>2 DEF Store, Ring
  <1> HIDE DEF d
  <1>4. \A k : RingIx(d, k) = RingIx(r, k)
    BY <1>2 DEF RingIx
  <1>5. d.write_index = RingIx(d, d.count)
    <2>1. (((r.read_index + r.count) % QueueSize) + 1) % QueueSize
             = (r.read_index + (r.count + 1)) % QueueSize
      BY <1>1, SlotNext
    <2> QED
      BY <1>1, <1>2, <2>1 DEF RingIx
  <1>6. \A k \in 0 .. r.count - 1 : RingIx(r, k) # r.write_index
    <2> SUFFICES ASSUME NEW k \in 0 .. r.count - 1
                 PROVE  RingIx(r, k) # RingIx(r, r.count)
      BY <1>1
    <2>1. k \in 0 .. QueueSize - 1 /\ k # r.count
      BY <1>1
    <2> QED
      BY <1>1, <2>1, IxDiffer
  <1>7. ASSUME NEW i \in Slots
        PROVE  d.items[i] # NULL <=> \E k \in 0 .. d.count - 1 : i = RingIx(d, k)
    <2>1. CASE i = r.write_index
      <3>1. d.items[i] # NULL
        BY <1>1, <1>2, <2>1
      <3>2. r.count \in 0 .. d.count - 1 /\ i = RingIx(d, r.count)
        BY <1>1, <1>2, <1>4, <2>1
      <3> QED
        BY <3>1, <3>2
    <2>2. CASE i # r.write_index
      <3>1. d.items[i] = r.items[i]
        BY <1>1, <1>2, <2>2
      <3>2. \A k \in 0 .. d.count - 1 :
              i = RingIx(r, k) => k \in 0 .. r.count - 1
        BY <1>1, <1>2, <2>2
      <3>3. \A k \in 0 .. r.count - 1 : k \in 0 .. d.count - 1
        BY <1>1, <1>2
      <3> QED
        BY <1>4, <3>1, <3>2, <3>3 DEF RingOK
    <2> QED
      BY <2>1, <2>2
  <1>8. RingOK(d)
    BY <1>3, <1>5, <1>7 DEF RingOK
  <1>9. /\ Contents(r) \in Seq(Items) /\ Len(Contents(r)) = r.count
        /\ Contents(d) \in Seq(Items) /\ Len(Contents(d)) = r.count + 1
        /\ \A k \in 1 .. r.count :
             Contents(r)[k] = r.items[RingIx(r, k - 1)]
        /\ \A k \in 1 .. r.count + 1 :
             Contents(d)[k] = d.items[RingIx(r, k - 1)]
    <2>1. /\ Contents(d) \in Seq(Items) /\ Len(Contents(d)) = d.count
          /\ \A k \in 1 .. d.count :
               Contents(d)[k] = d.items[RingIx(d, k - 1)]
      BY Zenon, <1>8, ContentsSeq
    <2>2. /\ Contents(r) \in Seq(Items) /\ Len(Contents(r)) = r.count
          /\ \A k \in 1 .. r.count :
               Contents(r)[k] = r.items[RingIx(r, k - 1)]
      BY Zenon, ContentsSeq
    <2> QED
      BY Zenon, <1>2, <1>4, <2>1, <2>2
  <1>10. ASSUME NEW k \in 1 .. r.count
         PROVE  Contents(d)[k] = Contents(r)[k]
    <2>1. k - 1 \in 0 .. r.count - 1 /\ k - 1 \in 0 .. QueueSize
          /\ k \in 1 .. r.count + 1
      BY <1>1
    <2>2. RingIx(r, k - 1) \in Slots /\ RingIx(r, k - 1) # r.write_index
      BY <1>1, <1>6, <2>1, IxInSlots
    <2> QED
      BY <1>1, <1>2, <1>9, <2>1, <2>2
  <1>11. Contents(d)[r.count + 1] = b
    <2>1. r.count + 1 \in 1 .. r.count + 1 /\ (r.count + 1) - 1 = r.count
      BY <1>1
    <2> QED
      BY <1>1, <1>2, <1>9, <2>1
  <1>12. Contents(d) = Append(Contents(r), b)
    BY <1>1, <1>9, <1>10, <1>11
  <1> QED
    BY <1>8, <1>12 DEF d

\* Pushing appends the entry and keeps the newest QueueSize.
LEMMA PushOK ==
    ASSUME NEW r, RingOK(r), NEW b \in Items
    PROVE  /\ RingOK(Push(r, b))
           /\ Contents(Push(r, b)) = Service!Newest(Append(Contents(r), b))
  <1>1. r.count \in 0 .. QueueSize
    BY DEF RingOK, Ring
  <1>2. /\ Contents(r) \in Seq(Items) /\ Len(Contents(r)) = r.count
        /\ Len(Append(Contents(r), b)) = r.count + 1
    BY ContentsSeq
  <1>3. CASE r.count < QueueSize
    <2>1. Push(r, b) = Store(r, b)
      BY <1>1, <1>3 DEF Push
    <2> QED
      BY <1>1, <1>2, <1>3, <2>1, StoreOK DEF Service!Newest
  <1>4. CASE r.count = QueueSize
    <2>1. Push(r, b) = Store(DropOldest(r), b)
      BY <1>4 DEF Push
    <2>2. /\ RingOK(DropOldest(r))
          /\ DropOldest(r).count = r.count - 1
          /\ Contents(r) # <<>>
          /\ Contents(DropOldest(r)) = Tail(Contents(r))
      BY <1>1, <1>4, DropOldestOK
    <2>3. /\ RingOK(Store(DropOldest(r), b))
          /\ Contents(Store(DropOldest(r), b)) = Append(Tail(Contents(r)), b)
      BY <1>1, <1>4, <2>2, StoreOK
    <2>4. Append(Tail(Contents(r)), b) = Tail(Append(Contents(r), b))
      BY <1>2, <2>2
    <2> QED
      BY <1>1, <1>2, <1>4, <2>1, <2>3, <2>4 DEF Service!Newest
  <1> QED
    BY <1>1, <1>3, <1>4
-----------------------------------------------------------------------------
(***************************************************************************)
(* The state machine.                                                      *)
(***************************************************************************)
RingsOK == \A q \in Queues : RingOK(queues[q])

\* What keeps a plan from being lost: before the observer is there, nothing
\* has been handed to it; afterwards a plan that is not pending is on the
\* screen, or in the hands of the poll that is about to put it there.
PlanInv ==
    /\ ~handler => /\ ~pending
                   /\ ui = "idle"
                   /\ latest = NoPlan
                   /\ shown = NoPlan
                   /\ \A s \in Submitters : pc[s] = "idle"
    /\ ~pending /\ ui = "idle" => shown = latest
    /\ ~pending /\ ui = "show" => ui_text = latest

IInv == TypeOK /\ RingsOK /\ PlanInv

\* A step that leaves the rings alone keeps them sound.
LEMMA RingsUnchanged ==
    ASSUME RingsOK, UNCHANGED queues
    PROVE  RingsOK'
  BY DEF RingsOK, RingOK, RingIx

\* What submitting a broadcast does to the rings.
LEMMA SubmitRings ==
    ASSUME TypeOK, RingsOK, NEW s \in Submitters, NEW kind \in Kinds,
           Submit(s, kind)
    PROVE  /\ queues' \in [Queues -> Ring]
           /\ RingsOK'
           /\ \E b \in Items : Service!Deliver(b)
  <1> DEFINE b == [seq |-> submitted + 1, kind |-> kind]
  <1>1. b \in Items
    BY DEF Submit, TypeOK, Texts, Items
  <1>2. PICK reached \in SUBSET Targets(b) :
          queues' = [q \in Queues |-> IF q \in reached THEN Push(queues[q], b)
                                      ELSE queues[q]]
    BY Zenon DEF Submit
  <1> HIDE DEF b
  <1>3. ASSUME NEW q \in Queues
        PROVE  /\ RingOK(queues'[q])
               /\ Contents(queues'[q]) =
                    IF q \in reached
                    THEN Service!Newest(Append(Contents(queues[q]), b))
                    ELSE Contents(queues[q])
    <2>1. RingOK(queues[q])
      BY DEF RingsOK
    <2>2. CASE q \in reached
      <3>1. queues'[q] = Push(queues[q], b)
        BY Zenon, <1>2, <2>2
      <3> QED
        BY Zenon, <1>1, <2>1, <2>2, <3>1, PushOK
    <2>3. CASE q \notin reached
      <3>1. queues'[q] = queues[q]
        BY Zenon, <1>2, <2>3
      <3> QED
        BY Zenon, <2>1, <2>3, <3>1
    <2> QED
      BY <2>2, <2>3
  <1>4. queues' \in [Queues -> Ring]
    <2>1. \A q \in Queues : queues'[q] \in Ring
      BY Zenon, <1>3 DEF RingOK
    <2>2. queues' = [q \in Queues |-> queues'[q]]
      BY Zenon, <1>2
    <2> QED
      BY Zenon, <2>1, <2>2
  <1>5. RingsOK'
    BY <1>3 DEF RingsOK, RingOK, RingIx
  <1>6. Service!Deliver(b)
    <2>1. Inbox' = [q \in Queues |-> Contents(queues'[q])]
      BY DEF Inbox, Contents, RingIx
    <2>2. \A q \in Queues : Inbox[q] = Contents(queues[q])
      BY Zenon DEF Inbox
    <2>3. ASSUME NEW q \in Queues
          PROVE  Contents(queues'[q]) =
                   IF q \in reached THEN Service!Newest(Append(Inbox[q], b))
                   ELSE Inbox[q]
      BY Zenon, <1>3, <2>2
    <2>4. Inbox' = [q \in Queues |->
                      IF q \in reached THEN Service!Newest(Append(Inbox[q], b))
                      ELSE Inbox[q]]
      BY Zenon, <2>1, <2>3
    <2> QED
      BY Zenon, <2>4 DEF Service!Deliver
  <1> QED
    BY Zenon, <1>1, <1>4, <1>5, <1>6

\* What a reader does to the ring it pops.
LEMMA PopRings ==
    ASSUME TypeOK, RingsOK, NEW q \in Queues, Pop(q)
    PROVE  /\ queues' \in [Queues -> Ring]
           /\ RingsOK'
           /\ Service!Fetch(q)
  <1>1. /\ RingOK(queues[q]) /\ queues[q].count > 0
        /\ queues' = [queues EXCEPT ![q] = DropOldest(queues[q])]
        /\ queues \in [Queues -> Ring]
    BY DEF RingsOK, Pop, TypeOK
  <1>2. /\ RingOK(DropOldest(queues[q]))
        /\ Contents(queues[q]) # <<>>
        /\ Contents(DropOldest(queues[q])) = Tail(Contents(queues[q]))
    BY <1>1, DropOldestOK
  <1>3. DropOldest(queues[q]) \in Ring
    BY Zenon, <1>2 DEF RingOK
  <1>4. queues' \in [Queues -> Ring]
    BY Zenon, <1>1, <1>3
  <1>5. /\ queues'[q] = DropOldest(queues[q])
        /\ \A p \in Queues : p # q => queues'[p] = queues[p]
    BY Zenon, <1>1
  <1>6. \A p \in Queues : RingOK(queues'[p])
    BY Zenon, <1>2, <1>5 DEF RingsOK
  <1>7. RingsOK'
    BY <1>6 DEF RingsOK, RingOK, RingIx
  <1>8. Service!Fetch(q)
    <2>1. Inbox' = [p \in Queues |-> Contents(queues'[p])]
      BY DEF Inbox, Contents, RingIx
    <2>2. \A p \in Queues : Inbox[p] = Contents(queues[p])
      BY Zenon DEF Inbox
    <2>3. Inbox[q] # <<>>
      BY Zenon, <1>2, <2>2
    <2>4. Inbox = [p \in Queues |-> Contents(queues[p])]
      BY Zenon DEF Inbox
    <2>5. /\ Contents(queues'[q]) = Tail(Inbox[q])
          /\ \A p \in Queues : p # q => Contents(queues'[p]) = Inbox[p]
      BY Zenon, <1>2, <1>5, <2>2
    <2>6. Inbox' = [Inbox EXCEPT ![q] = Tail(Inbox[q])]
      BY <2>1, <2>4, <2>5
    <2> QED
      BY <2>3, <2>6 DEF Service!Fetch
  <1> QED
    BY Zenon, <1>4, <1>7, <1>8

\* Three empty rings.
LEMMA InvInit == Init => IInv
  <1> SUFFICES ASSUME Init PROVE IInv
    OBVIOUS
  <1>1. TypeOK
    <2>1. EmptyRing \in Ring
      BY Zenon, EmptyRingOK DEF RingOK
    <2>2. NoPlan \in Texts /\ 0 \in Texts
      BY DEF Texts, NoPlan
    <2> QED
      BY Zenon, <2>1, <2>2 DEF Init, TypeOK
  <1>2. RingsOK
    BY EmptyRingOK DEF Init, RingsOK
  <1>3. PlanInv
    BY DEF Init, PlanInv
  <1> QED
    BY <1>1, <1>2, <1>3 DEF IInv

\* Every step keeps the invariant.
LEMMA InvNext == IInv /\ [Next]_vars => IInv'
  <1> SUFFICES ASSUME TypeOK, RingsOK, PlanInv, [Next]_vars
               PROVE  IInv'
    BY DEF IInv
  <1>1. CASE ObserverInit
    <2>1. TypeOK'
      BY <1>1 DEF ObserverInit, TypeOK, Texts, NoPlan, screen
    <2>2. RingsOK'
      BY <1>1, RingsUnchanged DEF ObserverInit
    <2>3. PlanInv'
      BY <1>1 DEF ObserverInit, PlanInv, screen
    <2> QED
      BY <2>1, <2>2, <2>3 DEF IInv
  <1>2. ASSUME NEW s \in Submitters, OnPlan(s)
        PROVE  IInv'
    <2>1. TypeOK'
      BY <1>2 DEF OnPlan, TypeOK, screen
    <2>2. RingsOK'
      BY <1>2, RingsUnchanged DEF OnPlan
    <2>3. PlanInv'
      BY <1>2 DEF OnPlan, PlanInv, screen
    <2> QED
      BY <2>1, <2>2, <2>3 DEF IInv
  <1>3. ASSUME NEW s \in Submitters, NEW kind \in Kinds, Submit(s, kind)
        PROVE  IInv'
    <2>1. queues' \in [Queues -> Ring] /\ RingsOK'
      BY Zenon, <1>3, SubmitRings
    <2>2. /\ submitted' \in Texts
          /\ pc' \in [Submitters -> {"idle", "handler"}]
          /\ job' \in [Submitters -> Texts]
      BY <1>3 DEF Submit, TypeOK, Texts
    <2>3. TypeOK'
      BY <1>3, <2>1, <2>2 DEF Submit, TypeOK, observer, screen
    <2>4. PlanInv'
      BY <1>3 DEF Submit, TypeOK, PlanInv, observer, screen
    <2> QED
      BY <2>1, <2>3, <2>4 DEF IInv
  <1>4. ASSUME NEW q \in Queues, Pop(q)
        PROVE  IInv'
    <2>1. queues' \in [Queues -> Ring] /\ RingsOK'
      BY Zenon, <1>4, PopRings
    <2>2. TypeOK'
      BY <1>4, <2>1 DEF Pop, TypeOK, observer, screen
    <2>3. PlanInv'
      BY <1>4 DEF Pop, PlanInv, observer, screen
    <2> QED
      BY <2>1, <2>2, <2>3 DEF IInv
  <1>5. CASE PollTakes
    <2>1. TypeOK'
      BY <1>5 DEF PollTakes, TypeOK
    <2>2. RingsOK'
      BY <1>5, RingsUnchanged DEF PollTakes
    <2>3. PlanInv'
      BY <1>5 DEF PollTakes, PlanInv
    <2> QED
      BY <2>1, <2>2, <2>3 DEF IInv
  <1>6. CASE PollShows
    <2>1. TypeOK'
      BY <1>6 DEF PollShows, TypeOK, observer
    <2>2. RingsOK'
      BY <1>6, RingsUnchanged DEF PollShows
    <2>3. PlanInv'
      BY <1>6 DEF PollShows, PlanInv, observer
    <2> QED
      BY <2>1, <2>2, <2>3 DEF IInv
  <1>7. CASE UNCHANGED vars
    <2>1. TypeOK'
      BY <1>7 DEF vars, TypeOK, observer, screen
    <2>2. RingsOK'
      BY <1>7, RingsUnchanged DEF vars
    <2>3. PlanInv'
      BY <1>7 DEF vars, PlanInv, observer, screen
    <2> QED
      BY <2>1, <2>2, <2>3 DEF IInv
  <1> QED
    BY Zenon, <1>1, <1>2, <1>3, <1>4, <1>5, <1>6, <1>7 DEF Next

\* The invariant holds in every behaviour of the broadcasts.
LEMMA InvAlways == Spec => []IInv
  BY InvInit, InvNext, PTL DEF Spec

\* The cursors of the three rings never leave their arrays.
THEOREM BroadcastTypeCorrect == Spec => []TypeOK
  <1>1. IInv => TypeOK
    BY DEF IInv
  <1> QED
    BY <1>1, InvAlways, PTL

\* Every allocated entry lies between the cursors and every slot between
\* them holds one: nothing is freed twice, leaked or followed when NULL.
THEOREM RingsCorrect == Spec => []NothingDangles
  <1>1. IInv => NothingDangles
    BY Zenon DEF IInv, RingsOK, RingOK, NothingDangles
  <1> QED
    BY <1>1, InvAlways, PTL

\* A plan handed to the observer is pending, being shown, or shown.
THEOREM PlanCorrect == Spec => []NoPlanLost
  <1>1. IInv => NoPlanLost
    BY DEF IInv, PlanInv, NoPlanLost
  <1> QED
    BY <1>1, InvAlways, PTL

\* Rings of any size implement queues that keep the newest broadcasts.
THEOREM BroadcastRefinement == Spec => KeepsNewest
  <1>1. Init => Service!InboxInit
    <2> SUFFICES ASSUME Init PROVE Service!InboxInit
      OBVIOUS
    <2>1. \A q \in Queues : queues[q] = EmptyRing
      BY Zenon DEF Init
    <2>2. \A q \in Queues : Contents(queues[q]) = <<>>
      BY Zenon, <2>1, EmptyRingOK
    <2> QED
      BY <2>2 DEF Service!InboxInit, Inbox
  <1>2. IInv /\ [Next]_vars => [Service!InboxNext]_Inbox
    <2> SUFFICES ASSUME TypeOK, RingsOK, [Next]_vars
                 PROVE  [Service!InboxNext]_Inbox
      BY DEF IInv
    <2>1. CASE UNCHANGED queues
      BY <2>1 DEF Inbox, Contents, RingIx
    <2>2. ASSUME NEW s \in Submitters, NEW kind \in Kinds, Submit(s, kind)
          PROVE  Service!InboxNext
      BY Zenon, <2>2, SubmitRings DEF Service!InboxNext
    <2>3. ASSUME NEW q \in Queues, Pop(q)
          PROVE  Service!InboxNext
      BY Zenon, <2>3, PopRings DEF Service!InboxNext
    <2>4. \/ UNCHANGED queues
          \/ \E s \in Submitters : \E kind \in Kinds : Submit(s, kind)
          \/ \E q \in Queues : Pop(q)
      BY DEF Next, ObserverInit, OnPlan, PollTakes, PollShows, vars
    <2> QED
      BY Zenon, <2>1, <2>2, <2>3, <2>4
  <1> QED
    BY <1>1, <1>2, InvAlways, PTL DEF Spec, KeepsNewest, Service!InboxSpec
=============================================================================
