----------------------- MODULE CommandDispatcherProofs -----------------------
(***************************************************************************)
(* Theorems about CommandDispatcher, for every ring size, every set of     *)
(* commands and every set of device ids.                                   *)
(***************************************************************************)
EXTENDS CommandDispatcher, TLAPS

-----------------------------------------------------------------------------
\* Arithmetic of ring indices: what a % N is for the arguments the rings
\* apply it to.

\* An index that has not reached the end of the ring stays what it is.
LEMMA ModBelow ==
    ASSUME NEW N \in Nat \ {0}, NEW a \in Nat, a < N
    PROVE  a % N = a
  OBVIOUS

\* An index past the end wraps once.
LEMMA ModOnce ==
    ASSUME NEW N \in Nat \ {0}, NEW a \in Nat, N <= a, a < 2 * N
    PROVE  a % N = a - N
  OBVIOUS

\* The cursor step (i + 1) % N of every ring.
LEMMA CursorStep ==
    ASSUME NEW N \in Nat \ {0}, NEW i \in 0 .. N - 1
    PROVE  /\ (i + 1) % N \in 0 .. N - 1
           /\ (i + 1) % N = IF i + 1 = N THEN 0 ELSE i + 1
  BY ModBelow, ModOnce

\* The k-th slot after cursor r, for k up to the ring's size.
LEMMA SlotAfter ==
    ASSUME NEW N \in Nat \ {0}, NEW r \in 0 .. N - 1, NEW k \in 0 .. N
    PROVE  /\ (r + k) % N \in 0 .. N - 1
           /\ (r + k) % N = IF r + k < N THEN r + k ELSE r + k - N
<1>1. CASE r + k < N
  BY <1>1, ModBelow
<1>2. CASE r + k >= N
  <2>1. r + k \in Nat /\ N <= r + k /\ r + k < 2 * N
    BY <1>2
  <2>2. (r + k) % N = (r + k) - N
    BY <2>1, ModOnce
  <2>3. QED
    BY <1>2, <2>1, <2>2
<1>3. QED
  BY <1>1, <1>2

\* Moving the cursor on by one shifts every slot by one.
LEMMA SlotShift ==
    ASSUME NEW N \in Nat \ {0}, NEW r \in 0 .. N - 1, NEW k \in 0 .. N - 1
    PROVE  (((r + 1) % N) + k) % N = (r + (k + 1)) % N
<1> DEFINE q == (r + 1) % N
<1>1. q \in 0 .. N - 1 /\ q = IF r + 1 = N THEN 0 ELSE r + 1
  BY CursorStep
<1>0. k \in 0 .. N /\ k + 1 \in 0 .. N
  OBVIOUS
<1>2. (q + k) % N = IF q + k < N THEN q + k ELSE q + k - N
  BY Zenon, <1>0, <1>1, SlotAfter
<1>3. (r + (k + 1)) % N = IF r + (k + 1) < N THEN r + (k + 1)
                                            ELSE r + (k + 1) - N
  BY Zenon, <1>0, SlotAfter
<1>4. QED
  BY <1>1, <1>2, <1>3

\* The slot after the k-th one is the (k+1)-st.
LEMMA SlotNext ==
    ASSUME NEW N \in Nat \ {0}, NEW r \in 0 .. N - 1, NEW k \in 0 .. N - 1
    PROVE  (((r + k) % N) + 1) % N = (r + (k + 1)) % N
<1> DEFINE q == (r + k) % N
<1>0. k \in 0 .. N /\ k + 1 \in 0 .. N
  OBVIOUS
<1>1. q \in 0 .. N - 1 /\ q = IF r + k < N THEN r + k ELSE r + k - N
  BY Zenon, <1>0, SlotAfter
<1>2. (q + 1) % N = IF q + 1 = N THEN 0 ELSE q + 1
  BY <1>1, CursorStep
<1>3. (r + (k + 1)) % N = IF r + (k + 1) < N THEN r + (k + 1)
                                            ELSE r + (k + 1) - N
  BY Zenon, <1>0, SlotAfter
<1>4. QED
  BY <1>1, <1>2, <1>3

\* Fewer than N slots apart are different slots.
LEMMA SlotsDiffer ==
    ASSUME NEW N \in Nat \ {0}, NEW r \in 0 .. N - 1,
           NEW j \in 0 .. N - 1, NEW k \in 0 .. N - 1, j # k
    PROVE  (r + j) % N # (r + k) % N
<1>0. j \in 0 .. N /\ k \in 0 .. N
  OBVIOUS
<1>1. (r + j) % N = IF r + j < N THEN r + j ELSE r + j - N
  BY Zenon, <1>0, SlotAfter
<1>2. (r + k) % N = IF r + k < N THEN r + k ELSE r + k - N
  BY Zenon, <1>0, SlotAfter
<1>3. QED
  BY <1>1, <1>2

-----------------------------------------------------------------------------
\* Types of what the rings are indexed by, used throughout.
LEMMA IndexFacts ==
    /\ QueueSize \in Nat \ {0} /\ HandledSize \in Nat \ {0}
    /\ 0 \in Slots /\ 0 \in HandledIx
    /\ \A i \in Slots : (i + 1) % QueueSize \in Slots
    /\ \A i \in HandledIx : (i + 1) % HandledSize \in HandledIx
    /\ \A m \in Messages : m.id \in Ids /\ m.type \in Types
    /\ Stored \in [Ids -> Ids]
  BY SizeAssumption, IdAssumption, MessageAssumption, CursorStep
     DEF Slots, HandledIx, MessageType

\* A dispatcher that was just initialised: everything is empty.
LEMMA InitIInv == Init => IInv
<1> SUFFICES ASSUME Init PROVE IInv
  OBVIOUS
<1> USE IndexFacts, MessageAssumption DEF Init
<1>1. TypeOK
  <2>1. ZeroEntry \in [id : Ids, status : Statuses]
    BY DEF ZeroEntry, Statuses
  <2>2. queue \in [Slots -> Messages \cup {NoMessage}]
    BY IndexFacts
  <2>3. handled \in [HandledIx -> [id : Ids, status : Statuses]]
    BY IndexFacts, <2>1
  <2>4. execs \in [Ids -> 0 .. 2]
    BY IndexFacts
  <2>5. age \in [Ids -> 0 .. HandledSize]
    BY IndexFacts
  <2>6. /\ initialized \in BOOLEAN /\ running \in BOOLEAN
        /\ stopping \in BOOLEAN
        /\ device_id \in OwnIds \cup {EmptyDevice}
        /\ job \in Messages \cup {NoMessage}
        /\ pc \in PCs /\ verdict \in Statuses
    BY DEF PCs, Statuses
  <2>7. /\ read_index \in Slots /\ write_index \in Slots
        /\ count \in 0 .. QueueSize
        /\ handled_index \in HandledIx /\ acks \in Nat
    BY DEF PCs, Statuses
  <2>8. QED
    BY Zenon, <2>2, <2>3, <2>4, <2>5, <2>6, <2>7 DEF TypeOK
<1>2. Phases
  BY DEF Phases, Busy
<1>3. RingInv
  BY ModBelow DEF RingInv
<1>4. Memory
  BY DEF Memory, ZeroEntry
<1>5. QED
  BY <1>1, <1>2, <1>3, <1>4 DEF IInv

-----------------------------------------------------------------------------
\* Every action keeps the types.
LEMMA TypeStep == IInv /\ Next => TypeOK'
<1> SUFFICES ASSUME IInv, Next PROVE TypeOK'
  OBVIOUS
<1> USE IndexFacts, MessageAssumption
    DEF IInv, TypeOK, queueVars, handledVars, history, PCs, Statuses
<1>1. ASSUME NEW d \in OwnIds, Start(d) PROVE TypeOK'
  BY <1>1 DEF Start
<1>2. ASSUME NEW d \in OwnIds, UpdateDeviceId(d) PROVE TypeOK'
  BY <1>2 DEF UpdateDeviceId
<1>3. ASSUME NEW m \in Messages, Enqueue(m) PROVE TypeOK'
  <2>1. count # QueueSize
    BY <1>3 DEF Enqueue, EnqueueResult
  <2>2. QED
    BY <1>3, <2>1 DEF Enqueue, Signal
<1>4. CASE PopWaits
  BY <1>4 DEF PopWaits
<1>5. CASE PopTakes
  BY <1>5 DEF PopTakes
<1>6. CASE PopExits
  BY <1>6 DEF PopExits
<1>7. CASE CheckDevice
  BY <1>7 DEF CheckDevice, Done
<1>8. CASE Screen
  BY <1>8 DEF Screen
<1>9. CASE Handle
  <2>1. job.id \in Ids
    BY <1>9 DEF Handle, Phases, Busy
  <2>2. execs' \in [Ids -> 0 .. 2]
    BY <1>9, <2>1 DEF Handle
  <2>3. QED
    BY <1>9, <2>2 DEF Handle
<1>10. CASE Ack
  BY <1>10 DEF Ack
<1>11. CASE Reack
  BY <1>11 DEF Reack
<1>12. CASE Speak
  BY <1>12 DEF Speak
<1>13. CASE Mark
  <2>1. job.id \in Ids
    BY <1>13 DEF Mark, Phases, Busy
  <2>2. age' \in [Ids -> 0 .. HandledSize]
    BY <1>13 DEF Mark, MarkHandled
  <2>3. handled' \in [HandledIx -> [id : Ids, status : Statuses]]
    BY <1>13, <2>1 DEF Mark, MarkHandled
  <2>4. QED
    BY <1>13, <2>2, <2>3 DEF Mark, MarkHandled
<1>14. CASE Return
  BY <1>14 DEF Return, Done
<1>15. CASE StopBegin
  BY <1>15 DEF StopBegin, Signal
<1>16. ASSUME Zero PROVE TypeOK'
  <2>1. ZeroEntry \in [id : Ids, status : Statuses]
    BY DEF ZeroEntry
  <2>2. queue' \in [Slots -> Messages \cup {NoMessage}]
    BY <1>16 DEF Zero
  <2>3. handled' \in [HandledIx -> [id : Ids, status : Statuses]]
    BY <1>16, <2>1 DEF Zero
  <2>4. execs' \in [Ids -> 0 .. 2]
    BY <1>16 DEF Zero
  <2>5. age' \in [Ids -> 0 .. HandledSize]
    BY <1>16 DEF Zero
  <2>6. /\ initialized' \in BOOLEAN /\ running' \in BOOLEAN
        /\ stopping' \in BOOLEAN
        /\ device_id' \in OwnIds \cup {EmptyDevice}
        /\ job' \in Messages \cup {NoMessage}
        /\ pc' \in PCs /\ verdict' \in Statuses
    BY <1>16 DEF Zero
  <2>7. /\ read_index' \in Slots /\ write_index' \in Slots
        /\ count' \in 0 .. QueueSize
        /\ handled_index' \in HandledIx /\ acks' \in Nat
    BY <1>16 DEF Zero
  <2>8. QED
    BY <2>2, <2>3, <2>4, <2>5, <2>6, <2>7
<1>17. QED
  BY <1>1, <1>2, <1>3, <1>4, <1>5, <1>6, <1>7, <1>8, <1>9, <1>10, <1>11,
     <1>12, <1>13, <1>14, <1>15, <1>16
     DEF Next, DispatcherThread, StopEnd, PowerLoss

-----------------------------------------------------------------------------
\* The slot the thread pops from, while the ring is not empty, holds a
\* payload; and a Zero step empties the ring.
LEMMA PopSlot == IInv /\ count > 0 => queue[read_index] \in Messages
<1> SUFFICES ASSUME IInv, count > 0 PROVE queue[read_index] \in Messages
  OBVIOUS
<1>0. QueueSize \in Nat \ {0} /\ read_index \in 0 .. QueueSize - 1
  BY IndexFacts DEF IInv, TypeOK, Slots
<1>1. RingIx(0) = read_index
  BY <1>0, ModBelow DEF RingIx
<1>2. 0 \in 0 .. count - 1
  BY DEF IInv, TypeOK
<1>3. QED
  BY <1>1, <1>2 DEF IInv, RingInv

\* Each step keeps program counter, job and flags together.
LEMMA PhasesStep == IInv /\ Next => Phases'
<1> SUFFICES ASSUME IInv, Next PROVE Phases'
  OBVIOUS
<1> USE MessageAssumption
    DEF IInv, Phases, Busy, queueVars, handledVars, history
<1>1. ASSUME NEW d \in OwnIds, Start(d) PROVE Phases'
  BY <1>1 DEF Start
<1>2. ASSUME NEW d \in OwnIds, UpdateDeviceId(d) PROVE Phases'
  BY <1>2 DEF UpdateDeviceId
<1>3. ASSUME NEW m \in Messages, Enqueue(m) PROVE Phases'
  <2>1. running
    BY <1>3 DEF Enqueue, EnqueueResult
  <2>2. QED
    BY <1>3, <2>1 DEF Enqueue, Signal
<1>4. CASE PopWaits
  BY <1>4 DEF PopWaits
<1>5. CASE PopTakes
  <2>1. job' \in Messages
    BY <1>5, PopSlot DEF PopTakes
  <2>2. QED
    BY <1>5, <2>1 DEF PopTakes
<1>6. CASE PopExits
  BY <1>6 DEF PopExits
<1>7. CASE CheckDevice
  BY <1>7 DEF CheckDevice, Done
<1>8. CASE Screen
  BY <1>8 DEF Screen
<1>9. CASE Handle
  BY <1>9 DEF Handle
<1>10. CASE Ack
  BY <1>10 DEF Ack
<1>11. CASE Reack
  BY <1>11 DEF Reack
<1>12. CASE Speak
  BY <1>12 DEF Speak
<1>13. CASE Mark
  BY <1>13 DEF Mark, MarkHandled
<1>14. CASE Return
  BY <1>14 DEF Return, Done
<1>15. CASE StopBegin
  BY <1>15 DEF StopBegin, Signal
<1>16. ASSUME Zero PROVE Phases'
  BY <1>16 DEF Zero
<1>17. QED
  BY <1>1, <1>2, <1>3, <1>4, <1>5, <1>6, <1>7, <1>8, <1>9, <1>10, <1>11,
     <1>12, <1>13, <1>14, <1>15, <1>16
     DEF Next, DispatcherThread, StopEnd, PowerLoss

-----------------------------------------------------------------------------
\* Only enqueue, pop and a reset move the ring.
LEMMA RingStep == IInv /\ Next => RingInv'
<1> SUFFICES ASSUME IInv, Next PROVE RingInv'
  OBVIOUS
<1>0. /\ QueueSize \in Nat \ {0}
      /\ read_index \in 0 .. QueueSize - 1
      /\ write_index \in 0 .. QueueSize - 1
      /\ count \in 0 .. QueueSize
  BY IndexFacts DEF IInv, TypeOK, Slots
<1>1. ASSUME NEW m \in Messages, Enqueue(m) PROVE RingInv'
  <2>1. count \in 0 .. QueueSize - 1
    BY <1>0, <1>1 DEF Enqueue, EnqueueResult
  <2>2. write_index' = (read_index' + count') % QueueSize
    BY <1>0, <1>1, <2>1, SlotNext DEF IInv, RingInv, Enqueue
  <2>3. ASSUME NEW k \in 0 .. count' - 1 PROVE queue'[RingIx(k)'] \in Messages
    <3>1. RingIx(k)' = RingIx(k) /\ RingIx(k) \in 0 .. QueueSize - 1
      BY <1>0, <1>1, <2>1, <2>3, SlotAfter DEF RingIx, Enqueue
    <3>2. CASE k = count
      BY <1>1, <3>1, <3>2 DEF IInv, TypeOK, Slots, RingInv, RingIx, Enqueue
    <3>3. CASE k # count
      <4>1. k \in 0 .. count - 1
        BY <1>0, <1>1, <2>1, <2>3, <3>3 DEF Enqueue
      <4>2. RingIx(k) # write_index
        <5>1. k \in 0 .. QueueSize - 1 /\ k # count
          BY <1>0, <4>1
        <5>2. (read_index + k) % QueueSize # (read_index + count) % QueueSize
          BY Zenon, <1>0, <2>1, <5>1, SlotsDiffer
        <5>3. QED
          BY <5>2 DEF IInv, RingInv, RingIx
      <4>3. queue'[RingIx(k)] = queue[RingIx(k)]
        BY <1>1, <3>1, <4>2 DEF IInv, TypeOK, Slots, Enqueue
      <4>4. QED
        BY <3>1, <4>1, <4>3 DEF IInv, RingInv
    <3>4. QED
      BY <3>2, <3>3
  <2>4. QED
    BY <2>2, <2>3 DEF RingInv
<1>2. CASE PopTakes
  <2>1. count \in 1 .. QueueSize
    BY <1>0, <1>2 DEF PopTakes
  <2>2. (read_index' + count') % QueueSize = (read_index + count) % QueueSize
    <3>1. count - 1 \in 0 .. QueueSize - 1 /\ (count - 1) + 1 = count
      BY <1>0, <2>1
    <3>2. (((read_index + 1) % QueueSize) + (count - 1)) % QueueSize
             = (read_index + ((count - 1) + 1)) % QueueSize
      BY <1>0, <3>1, SlotShift
    <3>3. QED
      BY <1>2, <3>1, <3>2 DEF PopTakes
  <2>3. ASSUME NEW k \in 0 .. count' - 1 PROVE queue'[RingIx(k)'] \in Messages
    <3>1. k \in 0 .. QueueSize - 1 /\ k + 1 \in 0 .. count - 1
      BY <1>0, <1>2, <2>1, <2>3 DEF PopTakes
    <3>2. RingIx(k)' = RingIx(k + 1)
      BY <1>0, <1>2, <3>1, SlotShift DEF RingIx, PopTakes
    <3>3. QED
      BY <1>2, <3>1, <3>2 DEF IInv, RingInv, PopTakes
  <2>4. QED
    BY <1>2, <2>2, <2>3 DEF IInv, RingInv, PopTakes
<1>3. ASSUME Zero PROVE RingInv'
  BY <1>0, <1>3, ModBelow DEF Zero, RingInv
<1>4. CASE UNCHANGED queueVars
  BY <1>4 DEF IInv, RingInv, RingIx, queueVars
<1>5. QED
  BY <1>1, <1>2, <1>3, <1>4
     DEF Next, DispatcherThread, StopEnd, PowerLoss, Start, UpdateDeviceId,
         PopWaits, PopExits, CheckDevice, Screen, Handle, Ack, Reack, Speak,
         Mark, Return, StopBegin

-----------------------------------------------------------------------------
\* mark_handled writes the oldest slot: every younger id is one mark older
\* and still where it was.
LEMMA MarkRemembers ==
    ASSUME IInv, NEW id \in Ids, NEW status \in Statuses,
           MarkHandled(id, status)
    PROVE  (\A c \in Ids : age[c] < HandledSize =>
               \E i \in HandledIx :
                  handled[i].id = Stored[c] /\ Distance(i) = age[c])'
<1>0. /\ HandledSize \in Nat \ {0}
      /\ handled_index \in 0 .. HandledSize - 1
      /\ handled_index' = IF handled_index + 1 = HandledSize
                          THEN 0 ELSE handled_index + 1
      /\ age \in [Ids -> 0 .. HandledSize]
  BY IndexFacts, CursorStep DEF IInv, TypeOK, HandledIx, MarkHandled
<1>1. /\ handled'[handled_index] = [id |-> Stored[id], status |-> status]
      /\ \A i \in HandledIx \ {handled_index} : handled'[i] = handled[i]
  BY DEF IInv, TypeOK, MarkHandled
<1>2. SUFFICES ASSUME NEW c \in Ids, age'[c] < HandledSize
               PROVE  \E i \in HandledIx :
                         handled'[i].id = Stored[c] /\ Distance(i)' = age'[c]
  OBVIOUS
<1>3. CASE c = id
  <2>1. age'[c] = 0
    BY <1>3 DEF MarkHandled
  <2>2. PICK h \in HandledIx : h = handled_index
    BY <1>0 DEF HandledIx
  <2>3. Distance(h)' = 0
    BY <1>0, <2>2 DEF Distance, HandledIx
  <2>4. handled'[h].id = Stored[c]
    BY <1>1, <1>3, <2>2
  <2>5. QED
    BY <2>1, <2>3, <2>4
<1>4. CASE c # id
  <2>1. age[c] < HandledSize - 1 /\ age'[c] = age[c] + 1
    BY <1>0, <1>2, <1>4 DEF MarkHandled
  <2>2. age[c] < HandledSize
    BY <1>0, <2>1
  <2>3. PICK i \in HandledIx :
           handled[i].id = Stored[c] /\ Distance(i) = age[c]
    BY <2>2 DEF IInv, Memory
  <2>4. i # handled_index
    BY <1>0, <2>1, <2>3 DEF Distance
  <2>5. Distance(i)' = Distance(i) + 1
    BY <1>0, <2>3, <2>4 DEF Distance, HandledIx
  <2>6. QED
    BY <1>1, <2>1, <2>3, <2>4, <2>5
<1>5. QED
  BY <1>3, <1>4

\* Only a mark writes the handled ring; a power loss and a stop empty it.
LEMMA MemoryStep == IInv /\ Next => Memory'
<1> SUFFICES ASSUME IInv, Next PROVE Memory'
  OBVIOUS
<1>1. CASE Screen
  <2>1. UNCHANGED <<handled, handled_index, execs, age, job>>
    BY <1>1 DEF Screen, handledVars, history
  <2>2. /\ pc' \in {"ack", "reack", "handle"}
        /\ pc' = "ack" => verdict' # "success"
        /\ pc' = "handle" => FindHandled(job.id) = {}
    BY <1>1 DEF Screen
  <2>3. pc' = "reack" /\ verdict' = "success" => TookEffect(job.id)
    BY <1>1 DEF Screen, IInv, Memory, FindHandled, FirstHandled
  <2>4. QED
    BY <2>1, <2>2, <2>3 DEF IInv, Memory, FindHandled, Distance, TookEffect
<1>2. CASE Handle
  <2>1. job.id \in Ids /\ execs \in [Ids -> 0 .. 2]
    BY <1>2, IndexFacts DEF IInv, TypeOK, Phases, Busy, Handle
  <2>2. \A c \in Ids : execs[c] > 0 => execs'[c] > 0
    BY <1>2, <2>1 DEF Handle
  <2>3. verdict' = "success" => execs'[job.id] > 0
    BY <1>2, <2>1 DEF Handle
  <2>4. \A id \in Ids : TookEffect(id) => TookEffect(id)'
    BY <2>2 DEF TookEffect
  <2>5. \A i \in HandledIx : handled[i].id \in Ids
    BY DEF IInv, TypeOK
  <2>6. pc' = "ack" /\ job' = job /\ UNCHANGED <<handled, handled_index, age>>
    BY <1>2 DEF Handle, handledVars
  <2>7. QED
    BY <2>2, <2>3, <2>4, <2>5, <2>6 DEF IInv, Memory, Distance
<1>3. CASE Mark
  <2>1. job.id \in Ids /\ verdict \in Statuses /\ MarkHandled(job.id, verdict)
    BY <1>3, IndexFacts DEF IInv, TypeOK, Phases, Busy, Mark
  <2>2. \A i \in HandledIx : handled'[i].status = "success" =>
            TookEffect(handled[i].id)'
    <3>1. verdict = "success" => TookEffect(Stored[job.id])
      BY <1>3, <2>1 DEF IInv, Memory, Mark, TookEffect
    <3>2. \A i \in HandledIx :
             handled'[i] = IF i = handled_index
                           THEN [id |-> Stored[job.id], status |-> verdict]
                           ELSE handled[i]
      BY <2>1 DEF IInv, TypeOK, MarkHandled
    <3>3. QED
      BY <1>3, <3>1, <3>2 DEF IInv, Memory, Mark, TookEffect
  <2>3. pc' = "return"
    BY <1>3 DEF Mark
  <2>4. QED
    BY <2>1, <2>2, <2>3, MarkRemembers DEF Memory
<1>4. ASSUME Zero PROVE Memory'
  <2>1. \A c \in Ids : age'[c] = HandledSize
    BY <1>4 DEF Zero
  <2>2. \A i \in HandledIx : handled'[i].status = "none"
    BY <1>4 DEF Zero, ZeroEntry
  <2>3. pc' = "off"
    BY <1>4 DEF Zero
  <2>4. QED
    BY <2>1, <2>2, <2>3, IndexFacts DEF Memory
<1>5. ASSUME UNCHANGED <<handled, handled_index, execs, age>>,
             \/ pc' \notin {"handle", "ack", "reack", "speak", "mark"}
             \/ UNCHANGED <<pc, job, verdict>>
             \/ /\ pc \in {"ack", "speak"} /\ UNCHANGED <<job, verdict>>
                /\ pc' \notin {"handle", "reack"}
      PROVE  Memory'
  BY <1>5 DEF IInv, Memory, FindHandled, Distance, TookEffect
<1>6. QED
  BY <1>1, <1>2, <1>3, <1>4, <1>5
     DEF Next, DispatcherThread, StopEnd, PowerLoss, Start, UpdateDeviceId,
         Enqueue, PopWaits, PopTakes, PopExits, CheckDevice, Done, Ack, Reack,
         Speak, Return, StopBegin, Signal, queueVars, handledVars, history

-----------------------------------------------------------------------------
\* The invariant is inductive.
LEMMA IInvStep == IInv /\ [Next]_vars => IInv'
<1> SUFFICES ASSUME IInv, [Next]_vars PROVE IInv'
  OBVIOUS
<1>1. CASE Next
  BY <1>1, TypeStep, PhasesStep, RingStep, MemoryStep DEF IInv
<1>2. CASE UNCHANGED vars
  BY <1>2 DEF IInv, TypeOK, Phases, RingInv, RingIx, Memory, FindHandled,
              Distance, TookEffect, vars, queueVars, handledVars, history
<1>3. QED
  BY <1>1, <1>2

\* The invariant holds in every behaviour of the dispatcher.
THEOREM Inductive == Spec => []IInv
  BY InitIInv, IInvStep, PTL DEF Spec

\* Every reachable state of g_dispatcher, its rings and its thread is well
\* typed: indices stay inside their arrays whatever the server sends.
THEOREM TypeCorrect == Spec => []TypeOK
<1>1. IInv => TypeOK
  BY DEF IInv
<1>2. QED
  BY <1>1, Inductive, PTL

\* No signal of enqueue or stop is lost.
THEOREM WakeupCorrect == Spec => []NoLostWakeup
<1>1. IInv => NoLostWakeup
  BY DEF IInv, Phases, NoLostWakeup
<1>2. QED
  BY <1>1, Inductive, PTL

\* The thread that stop joins has served everything it had accepted.
THEOREM StopCorrect == Spec => []StopDrains
<1>1. IInv => StopDrains
  BY DEF IInv, Phases, Busy, StopDrains
<1>2. QED
  BY <1>1, Inductive, PTL

\* "success" is acknowledged only for a command that took effect, and again
\* only for an id under which such a command is stored.
THEOREM AckCorrect == Spec => []TruthfulAck
<1>1. IInv => TruthfulAck
  BY DEF IInv, Memory, TruthfulAck
<1>2. QED
  BY <1>1, Inductive, PTL

\* The handled ring remembers what is stored of the ids of the last
\* HandledSize marks.
THEOREM WindowCorrect == Spec => []WindowRemembers
<1>1. IInv => WindowRemembers
  BY DEF IInv, Memory, WindowRemembers, FindHandled
<1>2. QED
  BY <1>1, Inductive, PTL

\* A redelivered command whose id fits into an entry takes effect again only
\* once it has left the window.
THEOREM AtMostOnceCorrect == Spec => AtMostOncePerWindow
<1>1. IInv /\ [Next]_vars =>
         [pc = "handle" /\ verdict' = "success" /\ Stored[job.id] = job.id =>
             execs[job.id] = 0 \/ age[job.id] = HandledSize]_vars
  <2> SUFFICES ASSUME IInv, pc = "handle", Stored[job.id] = job.id
               PROVE  age[job.id] = HandledSize
    OBVIOUS
  <2>1. job.id \in Ids /\ FindHandled(job.id) = {}
    BY IndexFacts DEF IInv, Phases, Busy, Memory
  <2>2. ~(age[job.id] < HandledSize)
    BY <2>1 DEF IInv, Memory, FindHandled
  <2>3. QED
    BY <2>1, <2>2, IndexFacts DEF IInv, TypeOK
<1>2. QED
  BY <1>1, Inductive, PTL DEF Spec, AtMostOncePerWindow

-----------------------------------------------------------------------------
(***************************************************************************)
(* The dispatcher implements CommandService: the ring between its cursors  *)
(* is the queue of the service.                                            *)
(***************************************************************************)
RingHoldsPending ==
    /\ Pending \in Seq(Messages)
    /\ Len(Pending) = count
    /\ \A k \in 1 .. count : Pending[k] = queue[RingIx(k - 1)]

\* Between its cursors the ring is a sequence of commands.
LEMMA PendingIsSeq == IInv => RingHoldsPending
<1> SUFFICES ASSUME IInv PROVE RingHoldsPending
  OBVIOUS
<1>1. count \in Nat
  BY IndexFacts DEF IInv, TypeOK
<1>2. \A k \in 1 .. count : queue[RingIx(k - 1)] \in Messages
  <2> SUFFICES ASSUME NEW k \in 1 .. count
               PROVE  queue[RingIx(k - 1)] \in Messages
    OBVIOUS
  <2>1. k - 1 \in 0 .. count - 1
    BY <1>1
  <2>2. QED
    BY <2>1 DEF IInv, RingInv
<1>3. QED
  BY <1>1, <1>2 DEF RingHoldsPending, Pending

\* The same of the next state.
LEMMA PendingIsSeqNext == IInv' => RingHoldsPending'
  BY PendingIsSeq, PTL

\* Storing at the write cursor appends to that sequence.
LEMMA EnqueueAppends ==
    ASSUME IInv, IInv', NEW m \in Messages, Enqueue(m)
    PROVE  Pending' = Append(Pending, m) /\ Len(Pending) < QueueSize
<1>1. /\ Pending \in Seq(Messages) /\ Len(Pending) = count
      /\ Pending' \in Seq(Messages) /\ Len(Pending') = count'
      /\ \A k \in 1 .. count : Pending[k] = queue[RingIx(k - 1)]
      /\ \A k \in 1 .. count' : Pending'[k] = queue'[RingIx(k - 1)']
  BY PendingIsSeq, PendingIsSeqNext DEF RingHoldsPending
<1>2. /\ QueueSize \in Nat \ {0}
      /\ read_index \in 0 .. QueueSize - 1
      /\ write_index \in 0 .. QueueSize - 1
      /\ queue \in [0 .. QueueSize - 1 -> Messages \cup {NoMessage}]
      /\ count \in 0 .. QueueSize - 1 /\ count' = count + 1
  <2>1. count \in 0 .. QueueSize /\ count # QueueSize
    BY DEF IInv, TypeOK, Enqueue, EnqueueResult
  <2>2. QED
    BY <2>1, IndexFacts DEF IInv, TypeOK, Slots, Enqueue
<1>3. ASSUME NEW k \in 1 .. count
      PROVE  Pending'[k] = Pending[k]
  <2>1. k - 1 \in 0 .. QueueSize - 1 /\ k - 1 # count /\ k \in 1 .. count'
    BY <1>2
  <2>2. (read_index + (k - 1)) % QueueSize # (read_index + count) % QueueSize
    BY Zenon, <1>2, <2>1, SlotsDiffer
  <2>3. RingIx(k - 1) # write_index /\ RingIx(k - 1)' = RingIx(k - 1)
    BY <2>2 DEF IInv, RingInv, RingIx, Enqueue
  <2>4. queue'[RingIx(k - 1)] = queue[RingIx(k - 1)]
    BY <1>2, <2>1, <2>3, SlotAfter DEF RingIx, Enqueue
  <2>5. QED
    BY <1>1, <2>1, <2>3, <2>4
<1>4. Pending'[count + 1] = m
  <2>1. count + 1 \in 1 .. count' /\ (count + 1) - 1 = count
    BY <1>2
  <2>2. PICK n \in 1 .. count' : n = count + 1
    BY <2>1
  <2>3. RingIx(n - 1)' = write_index
    BY <1>2, <2>2 DEF IInv, RingInv, RingIx, Enqueue
  <2>4. Pending'[n] = queue'[write_index]
    BY <1>1, <2>3
  <2>5. QED
    BY <1>2, <2>2, <2>4 DEF Enqueue
<1>5. QED
  BY <1>1, <1>2, <1>3, <1>4

\* Taking from the read cursor takes the head of that sequence.
LEMMA PopTakesHead ==
    ASSUME IInv, IInv', PopTakes
    PROVE  /\ Pending # <<>>
           /\ job' = Head(Pending)
           /\ Pending' = Tail(Pending)
<1>1. /\ Pending \in Seq(Messages) /\ Len(Pending) = count
      /\ Pending' \in Seq(Messages) /\ Len(Pending') = count'
      /\ \A k \in 1 .. count : Pending[k] = queue[RingIx(k - 1)]
      /\ \A k \in 1 .. count' : Pending'[k] = queue'[RingIx(k - 1)']
  BY PendingIsSeq, PendingIsSeqNext DEF RingHoldsPending
<1>2. /\ QueueSize \in Nat \ {0}
      /\ read_index \in 0 .. QueueSize - 1
      /\ count \in 1 .. QueueSize /\ count' = count - 1
      /\ queue' = queue /\ job' = queue[read_index]
      /\ read_index' = (read_index + 1) % QueueSize
  BY IndexFacts DEF IInv, TypeOK, Slots, PopTakes
<1>3. job' = Pending[1]
  <2>1. RingIx(1 - 1) = read_index
    BY <1>2, ModBelow DEF RingIx
  <2>2. QED
    BY <1>1, <1>2, <2>1
<1>4. ASSUME NEW k \in 1 .. count'
      PROVE  Pending'[k] = Pending[k + 1]
  <2>1. k - 1 \in 0 .. QueueSize - 1 /\ k + 1 \in 1 .. count
        /\ (k - 1) + 1 = (k + 1) - 1
    BY <1>2
  <2>2. (((read_index + 1) % QueueSize) + (k - 1)) % QueueSize
           = (read_index + ((k - 1) + 1)) % QueueSize
    BY Zenon, <1>2, <2>1, SlotShift
  <2>3. RingIx(k - 1)' = RingIx((k + 1) - 1)
    BY <1>2, <2>1, <2>2 DEF RingIx
  <2>4. Pending'[k] = queue[RingIx(k - 1)'] /\ Pending[k + 1] = queue[RingIx((k + 1) - 1)]
    BY <1>1, <1>2, <2>1
  <2>5. QED
    BY <2>3, <2>4
<1>5. QED
  BY <1>1, <1>2, <1>3, <1>4

\* While the ring does not move, neither does the queue it stands for.
LEMMA PendingUnchanged ==
    ASSUME UNCHANGED queueVars PROVE Pending' = Pending
  BY DEF queueVars, Pending, RingIx

\* A count of zero is the empty sequence.
LEMMA PendingEmpty == count = 0 => Pending = <<>>
  BY DEF Pending

\* The same of the next state.
LEMMA PendingEmptyNext == count' = 0 => Pending' = <<>>
  BY DEF Pending

Answered == job # NoMessage /\ acks > 0

\* Each step of the dispatcher is a step of the service, or none.
LEMMA StepSimulates ==
    ASSUME IInv, IInv', [Next]_vars
    PROVE  [Service!ServiceNext]_(Service!svars)
<1> DEFINE Same == UNCHANGED <<running, Pending, job>> /\ (Answered' = Answered)
<1>0. Same => UNCHANGED Service!svars
  BY DEF Service!svars, Answered
<1> USE DEF queueVars, handledVars, history
<1>1. ASSUME NEW d \in OwnIds, Start(d)
      PROVE  Service!Open \/ Same
  <2>1. /\ ~running /\ count = 0 /\ job = NoMessage /\ Pending' = Pending
        /\ job' = job /\ acks' = acks
    BY <1>1, PendingUnchanged DEF IInv, Phases, Busy, Start
  <2>2. Pending = <<>>
    BY <2>1, PendingEmpty
  <2>3. running' = TRUE \/ running' = running
    BY <1>1 DEF Start
  <2>4. QED
    BY <2>1, <2>2, <2>3 DEF Service!Open, Answered
<1>2. ASSUME NEW m \in Messages, Enqueue(m) PROVE Service!Accept
  <2>1. running /\ running' = running /\ job' = job /\ acks' = acks
    BY <1>2 DEF Enqueue, EnqueueResult
  <2>2. QED
    BY <1>2, <2>1, EnqueueAppends DEF Service!Accept
<1>3. CASE PopTakes
  <2>1. job = NoMessage /\ acks' = 0 /\ running' = running
    BY <1>3 DEF IInv, Phases, Busy, PopTakes
  <2>2. QED
    BY <1>3, <2>1, PopTakesHead DEF Service!Serve, Service!ServiceNext
<1>4. ASSUME job # NoMessage, job' = NoMessage,
             UNCHANGED <<running, queue, read_index, write_index, count>>
      PROVE  Service!Finish
  BY <1>4, PendingUnchanged DEF Service!Finish
<1>5. ASSUME job # NoMessage, acks = 0, acks' = 1, job' = job,
             UNCHANGED <<running, queue, read_index, write_index, count>>
      PROVE  Service!Answer
  BY <1>5, PendingUnchanged DEF Service!Answer
<1>6. ASSUME UNCHANGED <<running, queue, read_index, write_index, count, job, acks>>
      PROVE  Same
  BY <1>6, PendingUnchanged DEF Answered
<1>7. CASE CheckDevice
  <2>1. job # NoMessage
    BY <1>7, MessageAssumption DEF IInv, Phases, Busy, CheckDevice
  <2>2. QED
    BY <1>4, <1>6, <1>7, <2>1, <1>0 DEF CheckDevice, Done, Service!ServiceNext
<1>8. CASE Ack \/ Reack
  <2>1. job # NoMessage /\ acks = 0
    BY <1>8, MessageAssumption DEF IInv, Phases, Busy, Ack, Reack
  <2>2. Service!Answer
    BY <1>5, <1>8, <2>1 DEF Ack, Reack
  <2>3. QED
    BY <2>2 DEF Service!ServiceNext
<1>9. CASE Return
  <2>1. job # NoMessage
    BY <1>9, MessageAssumption DEF IInv, Phases, Busy, Return
  <2>2. Service!Finish
    BY <1>4, <1>9, <2>1 DEF Return, Done
  <2>3. QED
    BY <2>2 DEF Service!ServiceNext
<1>10. CASE StopBegin
  <2>1. running /\ running' = FALSE /\ job' = job /\ acks' = acks
    BY <1>10 DEF IInv, Phases, StopBegin
  <2>2. Service!Close
    BY <1>10, <2>1, PendingUnchanged DEF Service!Close, StopBegin
  <2>3. QED
    BY <2>2 DEF Service!ServiceNext
<1>11. ASSUME Zero PROVE Service!PowerLoss
  BY <1>11, PendingEmptyNext DEF Zero, Service!PowerLoss
<1>12. ASSUME \/ \E d \in OwnIds : UpdateDeviceId(d)
              \/ PopWaits \/ PopExits \/ Screen \/ Handle \/ Speak \/ Mark
              \/ UNCHANGED vars
       PROVE  Same
  <2>1. UNCHANGED <<running, queue, read_index, write_index, count, job, acks>>
    BY <1>12 DEF UpdateDeviceId, PopWaits, PopExits, Screen, Handle, Speak,
                 Mark, vars
  <2>2. QED
    BY <1>6, <2>1
<1>13. QED
  BY <1>0, <1>1, <1>2, <1>3, <1>7, <1>8, <1>9, <1>10, <1>11, <1>12
     DEF Next, DispatcherThread, StopEnd, PowerLoss, Service!ServiceNext

\* The dispatcher, rings and thread and all, implements the bounded
\* first-in first-out service of CommandService: accepted commands are
\* served in order, each answered at most once.
THEOREM Refinement == Spec => ImplementsService
<1>1. Init => Service!ServiceInit
  BY PendingEmpty DEF Init, Service!ServiceInit
<1>2. IInv /\ IInv' /\ [Next]_vars => [Service!ServiceNext]_(Service!svars)
  BY StepSimulates
<1>3. QED
  BY <1>1, <1>2, Inductive, PTL DEF Spec, ImplementsService, Service!ServiceSafety
=============================================================================
