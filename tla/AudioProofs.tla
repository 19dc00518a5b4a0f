---------------------------- MODULE AudioProofs ----------------------------
(***************************************************************************)
(* Proofs about the two parts that share the loudspeaker.                  *)
(*                                                                         *)
(* AudioFocus, for any number of processes, slots and events: the count of *)
(* requests, the callbacks of the living, and what a player is told.       *)
(*                                                                         *)
(* VoiceChannel, for any number of speakers: the types, that the playback  *)
(* is open once and registered only while it is, that the recording thread *)
(* never reads a closed capture, and that a channel at rest has left       *)
(* nothing open.                                                           *)
(***************************************************************************)
EXTENDS AudioFocus, VoiceChannel, FiniteSetTheorems, TLAPS

-----------------------------------------------------------------------------
(***************************************************************************)
(* The audio focus service.  Its invariant, for a state f of the service,  *)
(* the requests w that its users hold, and the players m that the last     *)
(* change did not reach.                                                   *)
(***************************************************************************)
Changes == {"gain", "loss", "loss transient"}
Known(p) == p \in Pids /\ life[p] # "new"
Plays(p) == "music" \in TypesOf[p]
Listeners == {p \in Pids : Registers[p] # {}}

\* Owner, count and suspended music belong together.
Owned(f) ==
    /\ f.owner = "idle" <=> f.pid = NoPid
    /\ f.ref = 0 <=> f.owner = "idle"
    /\ f.suspended # NoPid => f.owner = "ai" /\ f.suspendedRef > 0
    /\ f.owner # "idle" => Known(f.pid)
    /\ f.owner = "music" => Plays(f.pid)
    /\ f.suspended # NoPid => Plays(f.suspended) /\ Known(f.suspended)

\* Callbacks are those of players, each in a slot of its own process.
Called(f) ==
    /\ \A y \in Types :
         LET slot == f.callback[y]
         IN  /\ slot.change = slot.pid \/ slot.change = NoPid
             /\ slot.lost = slot.pid \/ slot.lost = NoPid
             /\ slot.pid # NoPid => slot.pid \in Listeners /\ Known(slot.pid)
    /\ \A p \in Pids : f.pending[p] # {} => p \in Listeners /\ Known(p)

Queued(q) == \A k \in DOMAIN q : Known(q[k].pid)

Fine(f) ==
    /\ f \in FocusState /\ Len(f.events) <= EventQueue
    /\ Owned(f) /\ Called(f) /\ Queued(f.events)

\* Only a living owner holds requests, and it holds what is counted.
Holds(f, w) ==
    /\ \A p \in Pids : w[p] > 0 => Alive(p) /\ f.owner = "ai" /\ f.pid = p
    /\ f.owner = "ai" /\ Alive(f.pid) => w[f.pid] = f.ref

\* A player that was told to pause is suspended, and its callback is there to
\* tell it to go on.
Pauses(f, p) == Says(batch \o f.events, p, "loss transient")

Hears(f, m) ==
    \A p \in Pids : Alive(p) /\ p \notin m =>
        /\ Pauses(f, p) => f.suspended = p /\ f.callback["music"].pid = p
        /\ f.suspended = p => Pauses(f, p)

\* The processes: one player at a time, and nothing about the unborn.
World ==
    /\ life \in [Pids -> {"new", "alive", "dead"}]
    /\ told \in [Pids -> Changes \cup {"nothing"}]
    /\ batch \in Seq(Event) /\ Len(batch) <= EventQueue /\ Queued(batch)
    /\ \A p, q \in Pids :
         Alive(p) /\ Alive(q) /\ Plays(p) /\ Plays(q) => p = q
    /\ \A p \in Pids : life[p] = "new" => told[p] = "nothing"

FocusInv ==
    /\ World /\ Fine(focus) /\ Holds(focus, wants)
    /\ wants \in [Pids -> 0 .. MaxRef] /\ missed \subseteq Pids
    /\ Hears(focus, missed)

-----------------------------------------------------------------------------
\* An event that process p will hear of.
For(e, p) == e.pid = p /\ Reaches(e)

\* What is said last when one more event is queued.
LEMMA SaysAppend ==
    ASSUME NEW q \in Seq(Event), NEW e \in Event, NEW p, NEW c
    PROVE  Says(Append(q, e), p, c) <=>
             IF For(e, p) THEN c = e.change ELSE Says(q, p, c)
  <1> DEFINE r == Append(q, e)
             n == Len(q) + 1
             old == {k \in DOMAIN q : For(q[k], p)}
             mine == {k \in DOMAIN r : For(r[k], p)}
  <1>1. /\ Len(q) \in Nat /\ DOMAIN q = 1 .. Len(q) /\ DOMAIN r = 1 .. n
        /\ r[n] = e /\ \A k \in 1 .. Len(q) : r[k] = q[k]
    OBVIOUS
  <1>2. Says(q, p, c) <=>
          \/ old = {} /\ told[p] = c
          \/ \E k \in old : q[k].change = c /\ \A j \in old : j <= k
    BY DEF Says, For
  <1>3. Says(r, p, c) <=>
          \/ mine = {} /\ told[p] = c
          \/ \E k \in mine : r[k].change = c /\ \A j \in mine : j <= k
    BY DEF Says, For
  <1> HIDE DEF r
  <1>4. CASE For(e, p)
    <2>1. n \in mine /\ \A k \in mine : k \in Nat /\ k <= n
      BY <1>1, <1>4
    <2>2. Says(r, p, c) => c = e.change
      <3>1. ASSUME NEW k \in mine, r[k].change = c, \A j \in mine : j <= k
            PROVE  c = e.change
        <4>1. k = n
          BY <1>1, <2>1, <3>1
        <4> QED
          BY <1>1, <3>1, <4>1
      <3> QED
        BY <1>3, <2>1, <3>1
    <2>3. c = e.change => Says(r, p, c)
      BY <1>1, <1>3, <2>1
    <2> QED
      BY <1>4, <2>2, <2>3 DEF r
  <1>5. CASE ~For(e, p)
    <2>1. mine = old
      BY <1>1, <1>5
    <2>2. \A k \in old : r[k] = q[k]
      BY <1>1
    <2> QED
      BY <1>2, <1>3, <1>5, <2>1, <2>2 DEF r
  <1> QED
    BY <1>4, <1>5

\* An event that is queued comes after those the worker has copied.
LEMMA BatchAppend ==
    ASSUME NEW b \in Seq(Event), NEW q \in Seq(Event), NEW e \in Event
    PROVE  /\ b \o Append(q, e) = Append(b \o q, e)
           /\ b \o q \in Seq(Event)
  <1> DEFINE x == b \o Append(q, e)
             y == Append(b \o q, e)
  <1>1. b \o q \in Seq(Event) /\ Append(q, e) \in Seq(Event)
    OBVIOUS
  <1>2. /\ x \in Seq(Event) /\ y \in Seq(Event)
        /\ Len(x) = Len(b) + Len(q) + 1 /\ Len(y) = Len(b) + Len(q) + 1
    OBVIOUS
  <1>3. \A k \in 1 .. Len(x) : x[k] = y[k]
    OBVIOUS
  <1> HIDE DEF x, y
  <1>4. x = y
    BY <1>2, <1>3
  <1> QED
    BY <1>1, <1>4 DEF x, y

\* An event for process s is the last word for s and for nobody else.
LEMMA PausesAppend ==
    ASSUME World, NEW f \in FocusState, NEW g \in FocusState, NEW e \in Event,
           g.events = Append(f.events, e), NEW p
    PROVE  Pauses(g, p) <=> IF For(e, p) THEN e.change = "loss transient"
                            ELSE Pauses(f, p)
  <1>1. batch \in Seq(Event) /\ f.events \in Seq(Event)
    BY DEF World, FocusState
  <1>2. batch \o g.events = Append(batch \o f.events, e)
        /\ batch \o f.events \in Seq(Event)
    BY <1>1, BatchAppend
  <1>3. Says(Append(batch \o f.events, e), p, "loss transient") <=>
          IF For(e, p) THEN "loss transient" = e.change
          ELSE Says(batch \o f.events, p, "loss transient")
    BY <1>2, SaysAppend, Zenon
  <1>4. Pauses(g, p) <=> Says(Append(batch \o f.events, e), p, "loss transient")
    BY <1>2, Zenon DEF Pauses
  <1> QED
    BY <1>3, <1>4, Zenon DEF Pauses

-----------------------------------------------------------------------------
\* Field by field, what the helpers do.
LEMMA SetOwnerIs ==
    ASSUME NEW f \in FocusState, NEW o \in Types \cup {"idle"},
           NEW p \in Pids \cup {NoPid}, NEW n \in 0 .. MaxRef
    PROVE  LET g == SetOwner(f, o, p, n)
           IN  /\ g \in FocusState
               /\ g.owner = o /\ g.pid = p /\ g.ref = n
               /\ g.suspended = f.suspended /\ g.suspendedRef = f.suspendedRef
               /\ g.callback = f.callback /\ g.pending = f.pending
               /\ g.events = f.events
  BY DEF FocusState, SetOwner

\* Nobody is suspended any more, and nothing else changes.
LEMMA UnsuspendIs ==
    ASSUME NEW f \in FocusState
    PROVE  LET g == Unsuspend(f)
           IN  /\ g \in FocusState
               /\ g.owner = f.owner /\ g.pid = f.pid /\ g.ref = f.ref
               /\ g.suspended = NoPid /\ g.suspendedRef = 0
               /\ g.callback = f.callback /\ g.pending = f.pending
               /\ g.events = f.events
  <1>1. 0 \in 0 .. MaxRef
    BY FocusAssumption
  <1> QED
    BY <1>1 DEF Unsuspend, FocusState

\* The event for the process in the music slot.
Notice(f, c) ==
    [pid |-> f.callback["music"].pid, change |-> c,
     calls |-> Calls(f.callback["music"])]

\* Which callbacks a slot has.
LEMMA CallsIs ==
    ASSUME NEW slot \in Slot
    PROVE  /\ Calls(slot) \in SUBSET Kinds
           /\ "change" \in Calls(slot) <=> slot.change # NoPid
           /\ "lost" \in Calls(slot) <=> slot.lost # NoPid
           /\ Calls(slot) # {} => "change" \in Calls(slot) \/ "lost" \in Calls(slot)
  BY DEF Calls, Kinds, Slot

\* An event is queued for the process of the music slot if there is one and room.
LEMMA EnqueueIs ==
    ASSUME NEW f \in FocusState, Called(f), Queued(f.events),
           Len(f.events) <= EventQueue, NEW c \in Changes
    PROVE  LET g == Enqueue(f, c)
               s == f.callback["music"].pid
               e == Notice(f, c)
           IN  /\ g \in FocusState /\ Len(g.events) <= EventQueue
               /\ Queued(g.events)
               /\ g.owner = f.owner /\ g.pid = f.pid /\ g.ref = f.ref
               /\ g.suspended = f.suspended /\ g.suspendedRef = f.suspendedRef
               /\ g.callback = f.callback /\ g.pending = f.pending
               /\ CanHear(f) /\ ~QueueFull(f) =>
                    /\ s \in Pids /\ e \in Event /\ e.pid = s /\ e.change = c
                    /\ g.events = Append(f.events, e)
               /\ ~(CanHear(f) /\ ~QueueFull(f)) => g.events = f.events
  <1> DEFINE s == f.callback["music"].pid
             e == Notice(f, c)
             g == Enqueue(f, c)
  <1>1. /\ f.events \in Seq(Event) /\ Len(f.events) \in Nat
        /\ EventQueue \in Nat /\ s \in Pids \cup {NoPid}
    BY FocusAssumption DEF FocusState, Slot, Types
  <1>2. CASE CanHear(f) /\ ~QueueFull(f)
    <2>1. f.callback["music"] \in Slot
      BY DEF FocusState, Types
    <2>2. s \in Pids /\ Known(s) /\ e \in Event
      BY <1>1, <1>2, <2>1, CallsIs
         DEF CanHear, Called, Types, Event, Changes, Notice
    <2>3. g = [f EXCEPT !.events = Append(f.events, e)]
      BY <1>2 DEF Enqueue, Notice
    <2>4. /\ Append(f.events, e) \in Seq(Event)
          /\ Len(Append(f.events, e)) = Len(f.events) + 1
      BY <1>1, <2>2
    <2>5. e.pid = s /\ e.change = c
      BY DEF Notice
    <2> HIDE DEF e
    <2>6. Queued(Append(f.events, e))
      <3> SUFFICES ASSUME NEW k \in DOMAIN Append(f.events, e)
                   PROVE  Known(Append(f.events, e)[k].pid)
        BY DEF Queued
      <3>1. k \in 1 .. Len(f.events) \/ k = Len(f.events) + 1
        BY <1>1, <2>2
      <3>2. ASSUME k \in 1 .. Len(f.events)
            PROVE  Append(f.events, e)[k] = f.events[k] /\ k \in DOMAIN f.events
        BY <1>1, <2>2, <3>2
      <3>3. ASSUME k = Len(f.events) + 1
            PROVE  Append(f.events, e)[k] = e
        BY <1>1, <2>2, <3>3
      <3> QED
        BY <2>2, <2>5, <3>1, <3>2, <3>3 DEF Queued
    <2>7. Len(Append(f.events, e)) <= EventQueue
      BY <1>1, <1>2, <2>4 DEF QueueFull
    <2> QED
      BY <1>2, <2>2, <2>3, <2>4, <2>6, <2>7, <2>5 DEF FocusState, e
  <1>3. CASE ~(CanHear(f) /\ ~QueueFull(f))
    BY <1>3 DEF Enqueue
  <1> QED
    BY <1>2, <1>3

-----------------------------------------------------------------------------
\* Who misses a change when the dead are cleared.
Misses(f, m) ==
    IF DeadOwner(f) /\ f.owner = "ai" /\ Alive(f.suspended)
    THEN AfterGain(f, m) ELSE m

\* pid 0 is no process.
LEMMA NobodyDead == ~Alive(NoPid)
  BY FocusAssumption DEF Alive

\* A state that differs only in owner, count and suspended music.
LEMMA SameCalls ==
    ASSUME NEW f, NEW g \in FocusState, Fine(f), Owned(g),
           g.callback = f.callback, g.pending = f.pending, g.events = f.events
    PROVE  Fine(g)
  <1>1. Called(g)
    BY DEF Fine, Called
  <1>2. Queued(g.events) /\ Len(g.events) <= EventQueue
    BY DEF Fine
  <1> QED
    BY <1>1, <1>2 DEF Fine

\* With nobody suspended nobody may wait for the word to go on.
LEMMA SilentHears ==
    ASSUME NEW f, NEW g, NEW m, Hears(f, m), g.events = f.events,
           g.suspended = NoPid, ~Alive(f.suspended)
    PROVE  Hears(g, m)
  <1> SUFFICES ASSUME NEW p \in Pids, Alive(p), p \notin m
               PROVE  ~Pauses(g, p) /\ g.suspended # p
    BY DEF Hears
  <1>1. Pauses(f, p) => f.suspended = p
    BY DEF Hears
  <1>2. Pauses(g, p) <=> Pauses(f, p)
    BY DEF Pauses
  <1> QED
    BY <1>1, <1>2, NobodyDead

\* Only processes miss a change.
LEMMA GainMisses ==
    ASSUME NEW f \in FocusState, NEW m \in SUBSET Pids
    PROVE  AfterGain(f, m) \subseteq Pids
  <1>1. f.callback["music"].pid \in Pids \cup {NoPid}
    BY DEF FocusState, Types, Slot
  <1> QED
    BY <1>1 DEF AfterGain

\* audio_focus_restore_music_locked: suspended music gets the focus back and hears of it.
LEMMA RestoreMusicKeeps ==
    ASSUME World, NEW f, Fine(f), f.owner = "ai", Alive(f.suspended)
    PROVE  LET g == RestoreMusic(f)
           IN  /\ Fine(g)
               /\ g.owner = "music" /\ g.pid = f.suspended
               /\ g.suspended = NoPid
               /\ g.callback = f.callback /\ g.pending = f.pending
               /\ \A m : Hears(f, m) => Hears(g, AfterGain(f, m))
  <1> DEFINE a == SetOwner(f, "music", f.suspended, f.suspendedRef)
             b == Unsuspend(a)
             g == RestoreMusic(f)
             s == f.callback["music"].pid
             e == Notice(b, "gain")
  <1>1. f \in FocusState /\ f.suspended \in Pids \cup {NoPid}
        /\ f.suspendedRef \in 0 .. MaxRef /\ f.suspended # NoPid
    BY NobodyDead DEF Fine, FocusState
  <1>2. /\ a \in FocusState /\ a.owner = "music" /\ a.pid = f.suspended
        /\ a.ref = f.suspendedRef /\ a.callback = f.callback
        /\ a.pending = f.pending /\ a.events = f.events
    BY <1>1 DEF SetOwner, FocusState, Types
  <1> HIDE DEF a
  <1>3. /\ b \in FocusState /\ b.owner = "music" /\ b.pid = f.suspended
        /\ b.ref = f.suspendedRef /\ b.suspended = NoPid
        /\ b.callback = f.callback
        /\ b.pending = f.pending /\ b.events = f.events
    BY <1>2, UnsuspendIs
  <1> HIDE DEF b
  <1>4. Owned(b)
    BY <1>1, <1>3 DEF Fine, Owned
  <1>5. Fine(b)
    BY <1>3, <1>4, SameCalls DEF Fine
  <1>6. g = Enqueue(b, "gain")
    BY DEF g, RestoreMusic, a, b
  <1> HIDE DEF g
  <1>7. "gain" \in Changes
    BY DEF Changes
  <1>8. /\ g \in FocusState /\ Len(g.events) <= EventQueue /\ Queued(g.events)
        /\ g.owner = b.owner /\ g.pid = b.pid /\ g.ref = b.ref
        /\ g.suspended = b.suspended /\ g.suspendedRef = b.suspendedRef
        /\ g.callback = b.callback /\ g.pending = b.pending
        /\ CanHear(b) /\ ~QueueFull(b) =>
             /\ e \in Event /\ e.pid = b.callback["music"].pid
             /\ e.change = "gain" /\ g.events = Append(b.events, e)
        /\ ~(CanHear(b) /\ ~QueueFull(b)) => g.events = b.events
    BY <1>5, <1>6, <1>7, EnqueueIs DEF Fine
  <1>9. Fine(g)
    BY <1>4, <1>5, <1>8 DEF Fine, Owned, Called
  <1>10. f.callback["music"] \in Slot /\ s \in Pids \cup {NoPid}
    BY <1>1 DEF FocusState, Types, Slot
  <1>11. e.calls = Calls(f.callback["music"])
    BY <1>3 DEF Notice
  <1> HIDE DEF e
  <1>12. ASSUME NEW m, Hears(f, m)
         PROVE  Hears(g, AfterGain(f, m))
    <2> SUFFICES ASSUME NEW p \in Pids, Alive(p), p \notin AfterGain(f, m)
                 PROVE  ~Pauses(g, p)
      BY <1>3, <1>8, NobodyDead DEF Hears
    <2>1. p # s => p \notin m
      BY DEF AfterGain
    <2>2. p # s => ~Pauses(f, p)
      BY <1>12, <2>1 DEF Hears
    <2>3. CASE CanHear(b) /\ ~QueueFull(b)
      <3>1. e \in Event /\ g.events = Append(f.events, e)
            /\ e.pid = s /\ e.change = "gain"
        BY <1>3, <1>8, <2>3
      <3>2. Pauses(g, p) <=> IF For(e, p) THEN e.change = "loss transient"
                             ELSE Pauses(f, p)
        BY <1>1, <1>8, <3>1, PausesAppend, Zenon
      <3>3. CASE p # s
        BY <2>2, <3>1, <3>2, <3>3 DEF For
      <3>4. CASE p = s
        <4>1. f.callback["music"].change # NoPid
          BY <3>4, NobodyDead DEF AfterGain
        <4>2. For(e, p)
          BY <1>10, <1>11, <3>1, <3>4, <4>1, CallsIs DEF For, Reaches
        <4> QED
          BY <3>1, <3>2, <4>2
      <3> QED
        BY <3>3, <3>4
    <2>4. CASE ~(CanHear(b) /\ ~QueueFull(b))
      <3>1. g.events = f.events
        BY <1>3, <1>8, <2>4
      <3>2. Pauses(g, p) <=> Pauses(f, p)
        BY <3>1 DEF Pauses
      <3>3. p # s
        <4> SUFFICES ASSUME p = s PROVE FALSE
          OBVIOUS
        <4>1. f.callback["music"].change # NoPid /\ ~QueueFull(f)
          BY NobodyDead DEF AfterGain
        <4>2. CanHear(b) /\ ~QueueFull(b)
          BY <1>3, <1>10, <4>1, NobodyDead, CallsIs DEF CanHear, QueueFull
        <4> QED
          BY <2>4, <4>2
      <3> QED
        BY <2>2, <3>2, <3>3
    <2> QED
      BY <2>3, <2>4
  <1> QED
    BY <1>3, <1>8, <1>9, <1>12 DEF g

\* A dead owner gives the focus up; only suspended music may miss a change.
LEMMA ReclaimOwnerKeeps ==
    ASSUME World, NEW f, Fine(f), NEW w, Holds(f, w), NEW m
    PROVE  LET g == ReclaimOwner(f)
           IN  /\ Fine(g) /\ Holds(g, w) /\ ~DeadOwner(g)
               /\ Hears(f, m) => Hears(g, Misses(f, m))
  <1> DEFINE g == ReclaimOwner(f)
  <1>1. CASE ~DeadOwner(f)
    <2>1. g = f
      BY <1>1 DEF ReclaimOwner
    <2> QED
      BY <1>1, <2>1 DEF Misses
  <1>2. CASE DeadOwner(f)
    <2>1. \A p \in Pids : ~(w[p] > 0)
      BY <1>2 DEF Holds, DeadOwner
    <2>2. CASE f.owner = "ai" /\ Alive(f.suspended)
      <3>1. g = RestoreMusic(f)
        BY <1>2, <2>2 DEF ReclaimOwner
      <3> HIDE DEF g
      <3>2. /\ Fine(g) /\ g.owner = "music" /\ g.pid = f.suspended
            /\ Hears(f, m) => Hears(g, AfterGain(f, m))
        BY <2>2, <3>1, RestoreMusicKeeps
      <3>3. Holds(g, w)
        BY <2>1, <3>2 DEF Holds
      <3>4. ~DeadOwner(g)
        BY <2>2, <3>2 DEF DeadOwner
      <3> QED
        BY <1>2, <2>2, <3>2, <3>3, <3>4 DEF Misses, g
    <2>3. CASE ~(f.owner = "ai" /\ Alive(f.suspended))
      <3> DEFINE a == SetOwner(f, "idle", NoPid, 0)
      <3>1. g = Unsuspend(a)
        BY <1>2, <2>3 DEF ReclaimOwner
      <3>2. f \in FocusState /\ 0 \in 0 .. MaxRef
        BY FocusAssumption DEF Fine
      <3>3. /\ a \in FocusState /\ a.owner = "idle" /\ a.pid = NoPid
            /\ a.ref = 0 /\ a.callback = f.callback
            /\ a.pending = f.pending /\ a.events = f.events
        BY <3>2 DEF SetOwner, FocusState
      <3> HIDE DEF a, g
      <3>4. /\ g \in FocusState /\ g.owner = "idle" /\ g.pid = NoPid
            /\ g.ref = 0 /\ g.suspended = NoPid /\ g.callback = f.callback
            /\ g.pending = f.pending /\ g.events = f.events
        BY <3>1, <3>3, UnsuspendIs
      <3>5. Owned(g)
        BY <3>4 DEF Owned
      <3>6. Fine(g)
        BY <3>4, <3>5, SameCalls
      <3>7. Holds(g, w) /\ ~DeadOwner(g)
        BY <2>1, <3>4 DEF Holds, DeadOwner
      <3>8. ~Alive(f.suspended)
        BY <2>3, NobodyDead DEF Fine, Owned
      <3>9. Misses(f, m) = m
        BY <2>3 DEF Misses
      <3> QED
        BY <3>4, <3>6, <3>7, <3>8, <3>9, SilentHears DEF g
    <2> QED
      BY <2>2, <2>3
  <1> QED
    BY <1>1, <1>2

\* A dead player is no longer suspended.
LEMMA ReclaimSuspendedKeeps ==
    ASSUME World, NEW f, Fine(f), NEW w, Holds(f, w), ~DeadOwner(f), NEW m
    PROVE  LET g == ReclaimSuspended(f)
           IN  /\ Fine(g) /\ Holds(g, w) /\ ~DeadOwner(g)
               /\ g.suspended # NoPid => Alive(g.suspended)
               /\ Hears(f, m) => Hears(g, m)
  <1> DEFINE g == ReclaimSuspended(f)
  <1>1. CASE Alive(f.suspended)
    <2>1. g = f
      BY <1>1 DEF ReclaimSuspended
    <2> QED
      BY <1>1, <2>1
  <1>2. CASE ~Alive(f.suspended)
    <2>1. g = Unsuspend(f) /\ f \in FocusState
      BY <1>2 DEF ReclaimSuspended, Fine
    <2> HIDE DEF g
    <2>2. /\ g \in FocusState
          /\ g.owner = f.owner /\ g.pid = f.pid /\ g.ref = f.ref
          /\ g.suspended = NoPid
          /\ g.callback = f.callback /\ g.pending = f.pending
          /\ g.events = f.events
      BY <2>1, UnsuspendIs
    <2>3. Owned(g)
      BY <2>2 DEF Fine, Owned
    <2>4. Fine(g)
      BY <2>2, <2>3, SameCalls
    <2>5. Holds(g, w) /\ ~DeadOwner(g)
      BY <2>2 DEF Holds, DeadOwner
    <2> QED
      BY <1>2, <2>2, <2>4, <2>5, SilentHears DEF g
  <1> QED
    BY <1>1, <1>2

\* The callbacks of the dead go.
LEMMA ReclaimSlotsIs ==
    ASSUME NEW f, Fine(f)
    PROVE  LET g == ReclaimSlots(f)
           IN  /\ g \in FocusState
               /\ g.owner = f.owner /\ g.pid = f.pid /\ g.ref = f.ref
               /\ g.suspended = f.suspended /\ g.suspendedRef = f.suspendedRef
               /\ \A y \in Types :
                    g.callback[y] = IF Alive(f.callback[y].pid)
                                    THEN f.callback[y] ELSE EmptySlot
               /\ \A p \in Pids :
                    g.pending[p] = IF Alive(p) THEN f.pending[p] ELSE {}
               /\ g.events = f.events
  <1> DEFINE c == [y \in Types |-> IF Alive(f.callback[y].pid)
                                   THEN f.callback[y] ELSE EmptySlot]
             n == [p \in Pids |-> IF Alive(p) THEN f.pending[p] ELSE {}]
             g == ReclaimSlots(f)
  <1>1. f \in FocusState /\ f.callback \in [Types -> Slot]
        /\ f.pending \in [Pids -> SUBSET Kinds]
    BY DEF Fine, FocusState
  <1>2. EmptySlot \in Slot
    BY DEF EmptySlot, Slot
  <1>3. c \in [Types -> Slot]
    BY <1>1, <1>2
  <1>4. n \in [Pids -> SUBSET Kinds]
    BY <1>1
  <1>5. \A y \in Types : c[y] = IF Alive(f.callback[y].pid)
                                THEN f.callback[y] ELSE EmptySlot
    OBVIOUS
  <1>6. \A p \in Pids : n[p] = IF Alive(p) THEN f.pending[p] ELSE {}
    OBVIOUS
  <1>7. g = [f EXCEPT !.callback = c, !.pending = n]
    BY DEF ReclaimSlots
  <1> HIDE DEF c, n, g
  <1>8. /\ g \in FocusState /\ g.callback = c /\ g.pending = n
        /\ g.owner = f.owner /\ g.pid = f.pid /\ g.ref = f.ref
        /\ g.suspended = f.suspended /\ g.suspendedRef = f.suspendedRef
        /\ g.events = f.events
    BY <1>1, <1>3, <1>4, <1>7 DEF FocusState
  <1> QED
    BY <1>5, <1>6, <1>8 DEF g

\* After clearing, everything is of the living.
Living(f) ==
    /\ ~DeadOwner(f)
    /\ f.suspended # NoPid => Alive(f.suspended)
    /\ \A y \in Types : f.callback[y].pid # NoPid => Alive(f.callback[y].pid)

\* Clearing the callbacks of the dead takes nothing from the living.
LEMMA ReclaimSlotsKeeps ==
    ASSUME World, NEW f, Fine(f), NEW w, Holds(f, w), NEW m, ~DeadOwner(f),
           f.suspended # NoPid => Alive(f.suspended)
    PROVE  LET g == ReclaimSlots(f)
           IN  /\ Fine(g) /\ Holds(g, w) /\ Living(g)
               /\ Hears(f, m) => Hears(g, m)
  <1> DEFINE g == ReclaimSlots(f)
  <1>1. /\ g \in FocusState
        /\ g.owner = f.owner /\ g.pid = f.pid /\ g.ref = f.ref
        /\ g.suspended = f.suspended /\ g.suspendedRef = f.suspendedRef
        /\ \A y \in Types :
             g.callback[y] = IF Alive(f.callback[y].pid)
                             THEN f.callback[y] ELSE EmptySlot
        /\ \A p \in Pids :
             g.pending[p] = IF Alive(p) THEN f.pending[p] ELSE {}
        /\ g.events = f.events
    BY ReclaimSlotsIs
  <1> HIDE DEF g
  <1>2. Owned(g)
    BY <1>1 DEF Fine, Owned
  <1>3. Called(g)
    BY <1>1 DEF Fine, Called, EmptySlot
  <1>4. Fine(g)
    BY <1>1, <1>2, <1>3 DEF Fine
  <1>5. Holds(g, w)
    BY <1>1 DEF Holds
  <1>6. Living(g)
    BY <1>1 DEF Living, DeadOwner, EmptySlot
  <1>7. ASSUME Hears(f, m) PROVE Hears(g, m)
    <2>1. \A p : Pauses(g, p) <=> Pauses(f, p)
      BY <1>1 DEF Pauses
    <2>2. "music" \in Types
      BY DEF Types
    <2> QED
      BY <1>1, <1>7, <2>1, <2>2 DEF Hears
  <1> QED
    BY <1>4, <1>5, <1>6, <1>7 DEF g

\* audio_focus_clear_dead_slots_locked: what every call does first.
LEMMA ClearKeeps ==
    ASSUME World, NEW f, Fine(f), NEW w, Holds(f, w), NEW m
    PROVE  LET g == ClearDead(f)
           IN  /\ Fine(g) /\ Holds(g, w) /\ Living(g)
               /\ Hears(f, m) => Hears(g, Misses(f, m))
  <1> DEFINE a == ReclaimOwner(f)
             b == ReclaimSuspended(a)
  <1>1. /\ Fine(a) /\ Holds(a, w) /\ ~DeadOwner(a)
        /\ Hears(f, m) => Hears(a, Misses(f, m))
    BY ReclaimOwnerKeeps
  <1> HIDE DEF a
  <1>2. /\ Fine(b) /\ Holds(b, w) /\ ~DeadOwner(b)
        /\ b.suspended # NoPid => Alive(b.suspended)
        /\ Hears(a, Misses(f, m)) => Hears(b, Misses(f, m))
    BY <1>1, ReclaimSuspendedKeeps
  <1> HIDE DEF b
  <1>3. LET g == ReclaimSlots(b)
        IN  /\ Fine(g) /\ Holds(g, w) /\ Living(g)
            /\ Hears(b, Misses(f, m)) => Hears(g, Misses(f, m))
    BY <1>2, ReclaimSlotsKeeps
  <1>4. ClearDead(f) = ReclaimSlots(b)
    BY DEF ClearDead, a, b
  <1> QED
    BY <1>1, <1>2, <1>3, <1>4

\* Callbacks kept for later move into the slot of the type that is asked for:
\* the music slot keeps its player, there being only one.
LEMMA AssignKeeps ==
    ASSUME World, NEW f, Fine(f), Living(f), NEW w, Holds(f, w), NEW m,
           NEW p \in Pids, Alive(p), NEW type \in Types, type \in TypesOf[p]
    PROVE  LET g == AssignPending(f, p, type)
           IN  /\ Fine(g) /\ Holds(g, w) /\ Living(g)
               /\ g.owner = f.owner /\ g.pid = f.pid /\ g.ref = f.ref
               /\ g.suspended = f.suspended /\ g.suspendedRef = f.suspendedRef
               /\ g.events = f.events
               /\ f.pending[p] = {} => g = f
               /\ g.pending[p] = {}
               /\ Hears(f, m) => Hears(g, m)
  <1> DEFINE g == AssignPending(f, p, type)
             slot == [pid |-> p,
                      change |-> IF "change" \in f.pending[p] THEN p ELSE NoPid,
                      lost   |-> IF "lost" \in f.pending[p] THEN p ELSE NoPid]
             c == [f.callback EXCEPT ![type] = slot]
             n == [f.pending EXCEPT ![p] = {}]
  <1>1. CASE f.pending[p] = {}
    <2>1. g = f
      BY <1>1 DEF AssignPending
    <2> QED
      BY <1>1, <2>1
  <1>2. CASE f.pending[p] # {}
    <2>1. f \in FocusState /\ f.callback \in [Types -> Slot]
          /\ f.pending \in [Pids -> SUBSET Kinds]
      BY DEF Fine, FocusState
    <2>2. slot \in Slot
      BY DEF Slot
    <2>3. /\ slot.pid = p
          /\ slot.change = p \/ slot.change = NoPid
          /\ slot.lost = p \/ slot.lost = NoPid
      OBVIOUS
    <2>4. g = [f EXCEPT !.callback = [f.callback EXCEPT ![type] = slot],
                        !.pending = [f.pending EXCEPT ![p] = {}]]
      BY <1>2 DEF AssignPending
    <2> HIDE DEF slot
    <2>5. /\ c \in [Types -> Slot]
          /\ \A y \in Types : c[y] = IF y = type THEN slot ELSE f.callback[y]
      BY <2>1, <2>2
    <2>6. /\ n \in [Pids -> SUBSET Kinds]
          /\ \A q \in Pids : n[q] = IF q = p THEN {} ELSE f.pending[q]
      BY <2>1
    <2>7. g = [f EXCEPT !.callback = c, !.pending = n]
      BY <2>4
    <2> HIDE DEF c, n, g
    <2>8. /\ g \in FocusState /\ g.callback = c /\ g.pending = n
          /\ g.owner = f.owner /\ g.pid = f.pid /\ g.ref = f.ref
          /\ g.suspended = f.suspended /\ g.suspendedRef = f.suspendedRef
          /\ g.events = f.events
      BY <2>1, <2>5, <2>6, <2>7 DEF FocusState
    <2>9. p \in Listeners /\ Known(p) /\ Plays(p)
      BY <1>2, FocusAssumption DEF Fine, Called, Plays, Listeners
    <2>10. Owned(g)
      BY <2>8 DEF Fine, Owned
    <2>11. Called(g)
      BY <2>3, <2>5, <2>6, <2>8, <2>9 DEF Fine, Called
    <2>12. Fine(g)
      BY <2>8, <2>10, <2>11 DEF Fine
    <2>13. Holds(g, w)
      BY <2>8 DEF Holds
    <2>14. Living(g)
      BY <2>3, <2>5, <2>8 DEF Living, DeadOwner
    <2>15. ASSUME Hears(f, m) PROVE Hears(g, m)
      <3>1. \A q : Pauses(g, q) <=> Pauses(f, q)
        BY <2>8 DEF Pauses
      <3> SUFFICES ASSUME NEW q \in Pids, Alive(q), q \notin m, Pauses(f, q)
                   PROVE  g.callback["music"].pid = q
        BY <2>8, <2>15, <3>1 DEF Hears
      <3>2. f.suspended = q /\ f.callback["music"].pid = q
        BY <2>15 DEF Hears
      <3>3. Plays(q)
        BY <3>2, FocusAssumption DEF Fine, Owned
      <3>4. p = q
        BY <2>9, <3>3 DEF World
      <3> QED
        BY <2>3, <2>5, <2>8, <3>2, <3>4 DEF Types
    <2> QED
      BY <1>2, <2>6, <2>8, <2>12, <2>13, <2>14, <2>15 DEF g
  <1> QED
    BY <1>1, <1>2

-----------------------------------------------------------------------------
\* Players are told of the same things.
LEMMA SameHears ==
    ASSUME NEW f, NEW g, NEW m, Hears(f, m), g.events = f.events,
           g.suspended = f.suspended, g.callback = f.callback
    PROVE  Hears(g, m)
  <1>1. \A p : Pauses(g, p) <=> Pauses(f, p)
    BY DEF Pauses
  <1> QED
    BY <1>1 DEF Hears

\* What a call has to show.
LEMMA CallKeeps ==
    ASSUME FocusInv, UNCHANGED <<life, batch, told>>,
           Fine(focus'), Holds(focus', wants'),
           wants' \in [Pids -> 0 .. MaxRef], missed' \subseteq Pids,
           Hears(focus', missed')
    PROVE  FocusInv'
  <1>1. \A p : Alive(p)' <=> Alive(p)
    BY DEF Alive
  <1>2. \A p : Known(p)' <=> Known(p)
    BY DEF Known
  <1>3. World'
    BY <1>1, <1>2 DEF FocusInv, World, Queued, Known, Alive
  <1>4. Fine(focus)'
    <2>1. Owned(focus)'
      BY <1>2 DEF Fine, Owned
    <2>2. Called(focus)'
      BY <1>2 DEF Fine, Called
    <2>3. Queued(focus.events)'
      BY <1>2 DEF Fine, Queued
    <2> QED
      BY <2>1, <2>2, <2>3 DEF Fine
  <1>5. Holds(focus, wants)'
    BY <1>1 DEF Holds
  <1>6. Hears(focus, missed)'
    <2>1. \A p : Pauses(focus, p)' <=> Pauses(focus', p)
      BY DEF Pauses, Says
    <2> QED
      BY <1>1, <2>1 DEF Hears
  <1> QED
    BY <1>3, <1>4, <1>5, <1>6 DEF FocusInv

\* The state a call starts from.
LEMMA ClearedFine ==
    ASSUME FocusInv
    PROVE  /\ Fine(Cleared) /\ Holds(Cleared, wants) /\ Living(Cleared)
           /\ Missed \subseteq Pids
           /\ Hears(Cleared, Missed)
  <1>1. LET g == ClearDead(focus)
        IN  /\ Fine(g) /\ Holds(g, wants) /\ Living(g)
            /\ Hears(focus, missed) => Hears(g, Misses(focus, missed))
    BY ClearKeeps DEF FocusInv
  <1>2. Missed = Misses(focus, missed)
    BY DEF Missed, Misses
  <1>3. Missed \subseteq Pids
    BY <1>2, GainMisses DEF Misses, FocusInv, Fine
  <1> QED
    BY <1>1, <1>2, <1>3 DEF Cleared, FocusInv

\* The state a request decides in.
LEMMA RequestedFine ==
    ASSUME FocusInv, NEW p \in Pids, NEW type \in Types, Uses(p, type)
    PROVE  LET f == AssignPending(Cleared, p, type)
           IN  /\ Fine(f) /\ Holds(f, wants) /\ Living(f)
               /\ f.pending[p] = {}
               /\ Missed \subseteq Pids
               /\ Hears(f, Missed)
  <1>1. /\ Fine(Cleared) /\ Holds(Cleared, wants) /\ Living(Cleared)
        /\ Missed \subseteq Pids /\ Hears(Cleared, Missed)
    BY ClearedFine
  <1> QED
    BY <1>1, AssignKeeps DEF FocusInv, Uses

\* One request more.
LEMMA GrantedIs ==
    ASSUME FocusInv, NEW p \in Pids, NEW type \in Types, Granted(p, type),
           type = "ai" => wants[p] < MaxRef
    PROVE  /\ wants' \in [Pids -> 0 .. MaxRef]
           /\ \A q \in Pids : wants'[q] = IF q = p /\ type = "ai"
                                          THEN wants[q] + 1 ELSE wants[q]
  <1>1. wants \in [Pids -> 0 .. MaxRef] /\ MaxRef \in Nat
    BY FocusAssumption DEF FocusInv
  <1>2. wants[p] \in 0 .. MaxRef
    BY <1>1
  <1>3. CASE type = "ai"
    <2>1. wants' = [wants EXCEPT ![p] = wants[p] + 1] /\ wants[p] + 1 \in 0 .. MaxRef
      BY <1>1, <1>2, <1>3 DEF Granted
    <2> QED
      BY <1>1, <1>3, <2>1
  <1>4. CASE type # "ai"
    <2>1. wants' = [wants EXCEPT ![p] = wants[p]]
      BY <1>4 DEF Granted
    <2> QED
      BY <1>1, <1>4, <2>1
  <1> QED
    BY <1>3, <1>4

\* One request less.
LEMMA ReleasedIs ==
    ASSUME FocusInv, NEW p \in Pids, NEW type \in Types, Released(p, type)
    PROVE  /\ wants' \in [Pids -> 0 .. MaxRef]
           /\ \A q \in Pids : wants'[q] = IF q = p /\ type = "ai" /\ wants[q] > 0
                                          THEN wants[q] - 1 ELSE wants[q]
  <1>1. wants \in [Pids -> 0 .. MaxRef] /\ MaxRef \in Nat
    BY FocusAssumption DEF FocusInv
  <1>2. wants[p] \in 0 .. MaxRef
    BY <1>1
  <1>3. CASE type = "ai" /\ wants[p] > 0
    <2>1. wants' = [wants EXCEPT ![p] = wants[p] - 1] /\ wants[p] - 1 \in 0 .. MaxRef
      BY <1>1, <1>2, <1>3 DEF Released
    <2> QED
      BY <1>1, <1>3, <2>1
  <1>4. CASE ~(type = "ai" /\ wants[p] > 0)
    <2>1. wants' = [wants EXCEPT ![p] = wants[p]]
      BY <1>4 DEF Released
    <2> QED
      BY <1>1, <1>4, <2>1
  <1> QED
    BY <1>3, <1>4

-----------------------------------------------------------------------------
\* audio_focus_request_ex with the focus idle.
LEMMA RequestIdleKeeps ==
    ASSUME FocusInv, NEW p \in Pids, NEW type \in Types, RequestIdle(p, type)
    PROVE  FocusInv'
  <1> DEFINE f == AssignPending(Cleared, p, type)
  <1>1. /\ Uses(p, type) /\ f.owner = "idle"
        /\ focus' = SetOwner(f, type, p, 1) /\ Granted(p, type)
        /\ missed' = Missed
        /\ UNCHANGED <<life, batch, told>>
    BY DEF RequestIdle
  <1>2. /\ Fine(f) /\ Holds(f, wants) /\ Living(f)
        /\ Missed \subseteq Pids /\ Hears(f, Missed)
    BY <1>1, RequestedFine
  <1> HIDE DEF f
  <1>3. f \in FocusState /\ 1 \in 0 .. MaxRef
    BY <1>2, FocusAssumption DEF Fine
  <1>4. /\ focus' \in FocusState
        /\ focus'.owner = type /\ focus'.pid = p /\ focus'.ref = 1
        /\ focus'.suspended = f.suspended
        /\ focus'.suspendedRef = f.suspendedRef
        /\ focus'.callback = f.callback /\ focus'.pending = f.pending
        /\ focus'.events = f.events
    BY <1>1, <1>3, SetOwnerIs
  <1>5. p # NoPid /\ type # "idle" /\ Known(p)
    BY <1>1, FocusAssumption DEF Types, Uses, Alive, Known
  <1>6. f.suspended = NoPid
    BY <1>1, <1>2 DEF Fine, Owned
  <1>7. Owned(focus')
    BY <1>1, <1>4, <1>5, <1>6 DEF Owned, Uses, Plays
  <1>8. Fine(focus')
    BY <1>2, <1>4, <1>7, SameCalls
  <1>9. \A q \in Pids : wants[q] \in 0 .. MaxRef /\ wants[q] = 0
    BY <1>1, <1>2, FocusAssumption DEF FocusInv, Holds
  <1>10. /\ wants' \in [Pids -> 0 .. MaxRef]
         /\ \A q \in Pids : wants'[q] = IF q = p /\ type = "ai"
                                        THEN wants[q] + 1 ELSE wants[q]
    BY <1>1, <1>9, GrantedIs, FocusAssumption
  <1>11. Holds(focus', wants')
    BY <1>1, <1>4, <1>9, <1>10 DEF Holds, Uses
  <1>12. Hears(focus', missed')
    BY <1>1, <1>2, <1>4, SameHears
  <1> QED
    BY <1>1, <1>8, <1>10, <1>11, <1>12, CallKeeps, ClearedFine DEF FocusInv

\* ... by the process that has it.
LEMMA RequestAgainKeeps ==
    ASSUME FocusInv, NEW p \in Pids, NEW type \in Types, RequestAgain(p, type)
    PROVE  FocusInv'
  <1> DEFINE f == AssignPending(Cleared, p, type)
  <1>1. /\ Uses(p, type) /\ f.ref < MaxRef /\ f.owner = type /\ f.pid = p
        /\ focus' = [f EXCEPT !.ref = f.ref + 1] /\ Granted(p, type)
        /\ missed' = Missed
        /\ UNCHANGED <<life, batch, told>>
    BY DEF RequestAgain
  <1>2. /\ Fine(f) /\ Holds(f, wants) /\ Living(f)
        /\ Missed \subseteq Pids /\ Hears(f, Missed)
    BY <1>1, RequestedFine
  <1> HIDE DEF f
  <1>3. f \in FocusState /\ f.ref \in 0 .. MaxRef /\ MaxRef \in Nat
    BY <1>2, FocusAssumption DEF Fine, FocusState
  <1>4. f.ref + 1 \in 0 .. MaxRef /\ f.ref + 1 # 0 /\ f.ref \in Nat
    BY <1>1, <1>3
  <1>5. /\ focus' \in FocusState
        /\ focus'.owner = type /\ focus'.pid = p /\ focus'.ref = f.ref + 1
        /\ focus'.suspended = f.suspended
        /\ focus'.suspendedRef = f.suspendedRef
        /\ focus'.callback = f.callback /\ focus'.pending = f.pending
        /\ focus'.events = f.events
    BY <1>1, <1>3, <1>4 DEF FocusState
  <1>6. type # "idle"
    BY DEF Types
  <1>7. Owned(focus')
    BY <1>1, <1>2, <1>4, <1>5, <1>6 DEF Fine, Owned
  <1>8. Fine(focus')
    BY <1>2, <1>5, <1>7, SameCalls
  <1>9. type = "ai" => wants[p] = f.ref
    BY <1>1, <1>2 DEF Holds, Uses
  <1>10. /\ wants' \in [Pids -> 0 .. MaxRef]
         /\ \A q \in Pids : wants'[q] = IF q = p /\ type = "ai"
                                        THEN wants[q] + 1 ELSE wants[q]
    BY <1>1, <1>9, GrantedIs
  <1>11. Holds(focus', wants')
    BY <1>1, <1>2, <1>4, <1>5, <1>9, <1>10 DEF Holds, Uses
  <1>12. Hears(focus', missed')
    BY <1>1, <1>2, <1>5, SameHears
  <1> QED
    BY <1>1, <1>8, <1>10, <1>11, <1>12, CallKeeps, ClearedFine DEF FocusInv

\* ... with the focus elsewhere.
LEMMA RequestBusyKeeps ==
    ASSUME FocusInv, NEW p \in Pids, NEW type \in Types, RequestBusy(p, type)
    PROVE  FocusInv'
  <1> DEFINE f == AssignPending(Cleared, p, type)
  <1>1. /\ Uses(p, type) /\ focus' = f
        /\ missed' = Missed
        /\ UNCHANGED <<life, batch, told, wants>>
    BY DEF RequestBusy
  <1>2. /\ Fine(f) /\ Holds(f, wants)
        /\ Missed \subseteq Pids /\ Hears(f, Missed)
    BY <1>1, RequestedFine
  <1> HIDE DEF f
  <1> QED
    BY <1>1, <1>2, CallKeeps, ClearedFine DEF FocusInv

\* ... by an assistant while music has it: the one player is told through the
\* music slot, and only if it left a callback there.
LEMMA PreemptKeeps ==
    ASSUME FocusInv, NEW p \in Pids, NEW transient \in BOOLEAN,
           Preempt(p, transient)
    PROVE  FocusInv'
  <1> DEFINE f == AssignPending(Cleared, p, "ai")
             a == IF transient
                  THEN [f EXCEPT !.suspended = f.pid, !.suspendedRef = f.ref]
                  ELSE Unsuspend(f)
             c == IF transient THEN "loss transient" ELSE "loss"
             g == Enqueue(a, c)
             h == SetOwner(g, "ai", p, 1)
             s == f.callback["music"].pid
             e == Notice(a, c)
  <1>1. /\ Uses(p, "ai") /\ f.owner = "music"
        /\ focus' = AssignPending(h, p, "ai")
        /\ Granted(p, "ai")
        /\ missed' = IF s = f.pid /\ CanHear(f) /\ ~QueueFull(f)
                     THEN Missed \ {f.pid} ELSE Missed \cup {f.pid}
        /\ UNCHANGED <<life, batch, told>>
    BY DEF Preempt
  <1>2. "ai" \in Types /\ "music" \in Types /\ "idle" \notin Types
    BY DEF Types
  <1>3. /\ Fine(f) /\ Holds(f, wants) /\ Living(f) /\ f.pending[p] = {}
        /\ Missed \subseteq Pids /\ Hears(f, Missed)
    BY <1>1, <1>2, RequestedFine
  <1> HIDE DEF f
  <1>4. /\ f \in FocusState /\ f.pid \in Pids \cup {NoPid}
        /\ f.ref \in 0 .. MaxRef /\ 0 \in 0 .. MaxRef /\ 1 \in 0 .. MaxRef
    BY <1>3, FocusAssumption DEF Fine, FocusState
  <1>5. /\ f.suspended = NoPid /\ f.pid # NoPid /\ f.ref # 0
        /\ Alive(f.pid) /\ Plays(f.pid) /\ Known(f.pid) /\ f.pid \in Pids
    BY <1>1, <1>3, <1>4 DEF Fine, Owned, Living, DeadOwner
  <1>6. s # NoPid => s = f.pid
    BY <1>2, <1>3, <1>5, FocusAssumption
       DEF Fine, Called, Living, FocusInv, World, Plays, Alive, Listeners
  <1>7. /\ a \in FocusState /\ a.owner = f.owner /\ a.pid = f.pid
        /\ a.suspended = IF transient THEN f.pid ELSE NoPid
        /\ a.suspendedRef = IF transient THEN f.ref ELSE 0
        /\ a.callback = f.callback /\ a.pending = f.pending
        /\ a.events = f.events
    BY <1>4 DEF Unsuspend, FocusState
  <1>8. c \in Changes
    BY DEF Changes
  <1> HIDE DEF a, c
  <1>9. Called(a) /\ Queued(a.events) /\ Len(a.events) <= EventQueue
    BY <1>3, <1>7 DEF Fine, Called
  <1>10. /\ g \in FocusState /\ Len(g.events) <= EventQueue /\ Queued(g.events)
         /\ g.suspended = a.suspended /\ g.suspendedRef = a.suspendedRef
         /\ g.callback = a.callback /\ g.pending = a.pending
         /\ CanHear(a) /\ ~QueueFull(a) =>
              /\ e \in Event /\ e.pid = a.callback["music"].pid
              /\ e.change = c /\ g.events = Append(a.events, e)
         /\ ~(CanHear(a) /\ ~QueueFull(a)) => g.events = a.events
    BY <1>7, <1>8, <1>9, EnqueueIs
  <1>11. /\ CanHear(f) /\ ~QueueFull(f) =>
              /\ e \in Event /\ e.pid = s /\ e.change = c
              /\ g.events = Append(f.events, e)
         /\ ~(CanHear(f) /\ ~QueueFull(f)) => g.events = f.events
    BY <1>7, <1>10 DEF CanHear, QueueFull
  <1>12. e.calls = Calls(f.callback["music"]) /\ f.callback["music"] \in Slot
    BY <1>2, <1>4, <1>7 DEF Notice, FocusState
  <1> HIDE DEF g, e
  <1>13. /\ h \in FocusState /\ h.owner = "ai" /\ h.pid = p /\ h.ref = 1
         /\ h.suspended = g.suspended /\ h.suspendedRef = g.suspendedRef
         /\ h.callback = g.callback /\ h.pending = g.pending
         /\ h.events = g.events
    BY <1>2, <1>4, <1>10, SetOwnerIs
  <1> HIDE DEF h
  <1>14. focus' = h
    BY <1>1, <1>3, <1>7, <1>10, <1>13 DEF AssignPending
  <1>15. p # NoPid /\ Known(p) /\ Alive(p)
    BY <1>1, FocusAssumption DEF Uses, Alive, Known
  <1>16. f.ref > 0
    BY <1>4, <1>5, FocusAssumption
  <1>17. Owned(h)
    BY <1>5, <1>7, <1>10, <1>13, <1>15, <1>16 DEF Owned
  <1>18. Called(h)
    BY <1>7, <1>9, <1>10, <1>13 DEF Called
  <1>19. Fine(h)
    BY <1>10, <1>13, <1>17, <1>18 DEF Fine
  <1>20. \A q \in Pids : wants[q] \in 0 .. MaxRef /\ wants[q] = 0
    BY <1>1, <1>3, FocusAssumption DEF FocusInv, Holds
  <1>21. /\ wants' \in [Pids -> 0 .. MaxRef]
         /\ \A q \in Pids : wants'[q] = IF q = p THEN wants[q] + 1 ELSE wants[q]
    BY <1>1, <1>2, <1>20, GrantedIs, FocusAssumption
  <1>22. Holds(h, wants')
    BY <1>13, <1>15, <1>20, <1>21 DEF Holds
  <1>23. missed' \subseteq Pids
    BY <1>1, <1>3, <1>5
  <1>24. Hears(h, missed')
    <2> SUFFICES ASSUME NEW q \in Pids, Alive(q), q \notin missed'
                 PROVE  /\ Pauses(h, q) => h.suspended = q
                                           /\ h.callback["music"].pid = q
                        /\ h.suspended = q => Pauses(h, q)
      BY DEF Hears
    <2>1. q # f.pid => q \notin Missed
      BY <1>1
    <2>2. q # f.pid => ~Pauses(f, q)
      BY <1>3, <1>5, <2>1, NobodyDead DEF Hears
    <2>3. q = f.pid => s = f.pid /\ CanHear(f) /\ ~QueueFull(f)
      BY <1>1
    <2>4. h.suspended = IF transient THEN f.pid ELSE NoPid
      BY <1>7, <1>10, <1>13
    <2>5. CASE CanHear(f) /\ ~QueueFull(f)
      <3>1. e \in Event /\ e.pid = s /\ e.change = c
            /\ h.events = Append(f.events, e)
        BY <1>11, <1>13, <2>5
      <3>2. World /\ f \in FocusState /\ h \in FocusState
        BY <1>4, <1>13 DEF FocusInv
      <3>3. Pauses(h, q) <=> IF For(e, q) THEN e.change = "loss transient"
                             ELSE Pauses(f, q)
        BY <3>1, <3>2, PausesAppend, Zenon
      <3>4. s = f.pid /\ h.callback["music"].pid = s
        BY <1>6, <1>7, <1>10, <1>13, <2>5 DEF CanHear
      <3>5. Reaches(e)
        BY <1>12, <2>5, <3>1, CallsIs DEF CanHear, Reaches, c
      <3>6. Pauses(h, q) <=> IF s = q THEN transient ELSE Pauses(f, q)
        BY <3>1, <3>3, <3>5 DEF For, c
      <3> QED
        BY <2>2, <2>4, <3>4, <3>6, NobodyDead
    <2>6. CASE ~(CanHear(f) /\ ~QueueFull(f))
      <3>1. h.events = f.events
        BY <1>11, <1>13, <2>6
      <3>2. q # f.pid /\ ~Pauses(h, q)
        BY <2>2, <2>3, <2>6, <3>1 DEF Pauses
      <3> QED
        BY <2>4, <3>2, NobodyDead
    <2> QED
      BY <2>5, <2>6
  <1> QED
    BY <1>1, <1>14, <1>19, <1>21, <1>22, <1>23, <1>24, CallKeeps

\* audio_focus_release by a process that does not have the focus.
LEMMA ReleaseNothingKeeps ==
    ASSUME FocusInv, NEW p \in Pids, NEW type \in Types,
           ReleaseNothing(p, type)
    PROVE  FocusInv'
  <1>1. /\ Cleared.owner # type \/ Cleared.pid # p
        /\ focus' = Cleared /\ Released(p, type)
        /\ missed' = Missed
        /\ UNCHANGED <<life, batch, told>>
    BY DEF ReleaseNothing
  <1>2. /\ Fine(focus') /\ Holds(focus', wants)
        /\ Missed \subseteq Pids
        /\ Hears(focus', Missed)
    BY <1>1, ClearedFine
  <1>3. /\ wants' \in [Pids -> 0 .. MaxRef]
        /\ \A q \in Pids : wants'[q] = IF q = p /\ type = "ai" /\ wants[q] > 0
                                       THEN wants[q] - 1 ELSE wants[q]
    BY <1>1, ReleasedIs
  <1>4. type = "ai" => ~(wants[p] > 0)
    BY <1>1, <1>2 DEF Holds
  <1>5. \A q \in Pids : wants'[q] = wants[q]
    BY <1>3, <1>4
  <1>6. Holds(focus', wants')
    BY <1>2, <1>5 DEF Holds, Alive
  <1> QED
    BY <1>1, <1>2, <1>3, <1>6, CallKeeps DEF FocusInv

\* ... one of several times.
LEMMA ReleaseOneKeeps ==
    ASSUME FocusInv, NEW p \in Pids, NEW type \in Types, ReleaseOne(p, type)
    PROVE  FocusInv'
  <1> DEFINE f == Cleared
  <1>1. /\ Uses(p, type) /\ f.owner = type /\ f.pid = p /\ f.ref > 1
        /\ focus' = [f EXCEPT !.ref = f.ref - 1] /\ Released(p, type)
        /\ missed' = Missed
        /\ UNCHANGED <<life, batch, told>>
    BY DEF ReleaseOne
  <1>2. /\ Fine(f) /\ Holds(f, wants)
        /\ Missed \subseteq Pids
        /\ Missed \subseteq Pids /\ Hears(f, Missed)
    BY ClearedFine
  <1> HIDE DEF f
  <1>3. f \in FocusState /\ f.ref \in 0 .. MaxRef /\ MaxRef \in Nat
    BY <1>2, FocusAssumption DEF Fine, FocusState
  <1>4. f.ref - 1 \in 0 .. MaxRef /\ f.ref - 1 # 0 /\ f.ref \in Nat
    BY <1>1, <1>3
  <1>5. /\ focus' \in FocusState
        /\ focus'.owner = type /\ focus'.pid = p /\ focus'.ref = f.ref - 1
        /\ focus'.suspended = f.suspended
        /\ focus'.suspendedRef = f.suspendedRef
        /\ focus'.callback = f.callback /\ focus'.pending = f.pending
        /\ focus'.events = f.events
    BY <1>1, <1>3, <1>4 DEF FocusState
  <1>6. type # "idle"
    BY DEF Types
  <1>7. Owned(focus')
    BY <1>1, <1>2, <1>4, <1>5, <1>6 DEF Fine, Owned
  <1>8. Fine(focus')
    BY <1>2, <1>5, <1>7, SameCalls
  <1>9. type = "ai" => wants[p] = f.ref
    BY <1>1, <1>2 DEF Holds, Uses
  <1>10. /\ wants' \in [Pids -> 0 .. MaxRef]
         /\ \A q \in Pids : wants'[q] = IF q = p /\ type = "ai" /\ wants[q] > 0
                                        THEN wants[q] - 1 ELSE wants[q]
    BY <1>1, ReleasedIs
  <1>11. Holds(focus', wants')
    BY <1>1, <1>2, <1>4, <1>5, <1>9, <1>10 DEF Holds, Uses
  <1>12. Hears(focus', missed')
    BY <1>1, <1>2, <1>5, SameHears
  <1> QED
    BY <1>1, <1>2, <1>8, <1>10, <1>11, <1>12, CallKeeps DEF FocusInv

\* ... for the last time.
LEMMA ReleaseLastKeeps ==
    ASSUME FocusInv, NEW p \in Pids, NEW type \in Types, ReleaseLast(p, type)
    PROVE  FocusInv'
  <1> DEFINE f == Cleared
             restores == type = "ai" /\ Alive(f.suspended)
  <1>1. /\ Uses(p, type) /\ f.owner = type /\ f.pid = p /\ f.ref <= 1
        /\ focus' = IF restores THEN RestoreMusic(f)
                    ELSE Unsuspend(SetOwner(f, "idle", NoPid, 0))
        /\ Released(p, type)
        /\ missed' = IF restores THEN AfterGain(f, Missed) ELSE Missed
        /\ UNCHANGED <<life, batch, told>>
    BY DEF ReleaseLast
  <1>2. /\ Fine(f) /\ Holds(f, wants)
        /\ Missed \subseteq Pids
        /\ Missed \subseteq Pids /\ Hears(f, Missed)
    BY ClearedFine
  <1> HIDE DEF f
  <1>3. f \in FocusState /\ f.ref \in 0 .. MaxRef /\ MaxRef \in Nat
        /\ 0 \in 0 .. MaxRef
    BY <1>2, FocusAssumption DEF Fine, FocusState
  <1>4. type = "ai" => wants[p] = f.ref
    BY <1>1, <1>2 DEF Holds, Uses
  <1>5. /\ wants' \in [Pids -> 0 .. MaxRef]
        /\ \A q \in Pids : wants'[q] = IF q = p /\ type = "ai" /\ wants[q] > 0
                                       THEN wants[q] - 1 ELSE wants[q]
    BY <1>1, ReleasedIs
  <1>6. \A q \in Pids : wants[q] \in 0 .. MaxRef
                        /\ (wants[q] > 0 => q = p /\ type = "ai")
    BY <1>1, <1>2 DEF Holds, FocusInv
  <1>7. \A q \in Pids : ~(wants'[q] > 0)
    BY <1>1, <1>3, <1>4, <1>5, <1>6
  <1>8. CASE restores
    <2>1. /\ Fine(focus') /\ focus'.owner = "music"
          /\ \A m : Hears(f, m) => Hears(focus', AfterGain(f, m))
      BY <1>1, <1>2, <1>8, RestoreMusicKeeps DEF FocusInv
    <2>2. Holds(focus', wants')
      BY <1>7, <2>1 DEF Holds
    <2>3. Hears(focus', missed') /\ missed' \subseteq Pids
      BY <1>1, <1>2, <1>3, <1>8, <2>1, GainMisses
    <2> QED
      BY <1>1, <1>2, <1>5, <2>1, <2>2, <2>3, CallKeeps DEF FocusInv
  <1>9. CASE ~restores
    <2> DEFINE a == SetOwner(f, "idle", NoPid, 0)
    <2>1. /\ a \in FocusState /\ a.owner = "idle" /\ a.pid = NoPid
          /\ a.ref = 0 /\ a.callback = f.callback
          /\ a.pending = f.pending /\ a.events = f.events
      BY <1>3 DEF SetOwner, FocusState
    <2>2. focus' = Unsuspend(a)
      BY <1>1, <1>9
    <2> HIDE DEF a
    <2>3. /\ focus' \in FocusState /\ focus'.owner = "idle"
          /\ focus'.pid = NoPid /\ focus'.ref = 0
          /\ focus'.suspended = NoPid /\ focus'.callback = f.callback
          /\ focus'.pending = f.pending /\ focus'.events = f.events
      BY <2>1, <2>2, UnsuspendIs
    <2>4. Owned(focus')
      BY <2>3 DEF Owned
    <2>5. Fine(focus')
      BY <1>2, <2>3, <2>4, SameCalls
    <2>6. Holds(focus', wants')
      BY <1>7, <2>3 DEF Holds
    <2>7. ~Alive(f.suspended)
      BY <1>1, <1>2, <1>9, NobodyDead DEF Fine, Owned
    <2>8. Hears(focus', missed')
      BY <1>1, <1>2, <1>9, <2>3, <2>7, SilentHears
    <2> QED
      BY <1>1, <1>2, <1>5, <1>9, <2>5, <2>6, <2>8, CallKeeps DEF FocusInv
  <1> QED
    BY <1>8, <1>9

\* audio_focus_get_owner.
LEMMA GetOwnerKeeps ==
    ASSUME FocusInv, NEW p \in Pids, GetOwner(p)
    PROVE  FocusInv'
  BY ClearedFine, CallKeeps DEF GetOwner, FocusInv

\* audio_focus_register_change_cb and audio_focus_register_lost_cb: a slot the
\* callback goes into is empty or of the process that registers, since both
\* are living players.
LEMMA RegisterCallbackKeeps ==
    ASSUME FocusInv, NEW p \in Pids, NEW kind \in Kinds,
           RegisterCallback(p, kind)
    PROVE  FocusInv'
  <1> DEFINE f == Cleared
             owns == f.owner # "idle" /\ f.pid = p
             type == IF owns THEN f.owner ELSE FirstSlot(f, p)
             slot == Filled(f.callback[type], p, kind)
             c == [f.callback EXCEPT ![type] = slot]
             n == [f.pending EXCEPT ![p] = f.pending[p] \cup {kind}]
  <1>1. /\ Alive(p) /\ kind \in Registers[p]
        /\ focus' =
             IF owns \/ SlotsOf(f, p) # {}
             THEN [f EXCEPT !.callback = c]
             ELSE IF p \in HasPending(f) \/ Cardinality(HasPending(f)) < PendingSlots
             THEN [f EXCEPT !.pending = n]
             ELSE f
        /\ missed' = Missed
        /\ UNCHANGED <<life, batch, told, wants>>
    BY DEF RegisterCallback
  <1>2. /\ Fine(f) /\ Holds(f, wants) /\ Living(f)
        /\ Missed \subseteq Pids
        /\ Missed \subseteq Pids /\ Hears(f, Missed)
    BY ClearedFine
  <1> HIDE DEF f
  <1>3. /\ f \in FocusState /\ f.callback \in [Types -> Slot]
        /\ f.pending \in [Pids -> SUBSET Kinds]
        /\ f.owner \in Types \cup {"idle"}
    BY <1>2 DEF Fine, FocusState
  <1>4. p # NoPid /\ Known(p) /\ Plays(p) /\ p \in Listeners
    BY <1>1, FocusAssumption DEF Alive, Known, Plays, Listeners
  <1>5. \A y \in Types : f.callback[y].pid = p \/ f.callback[y].pid = NoPid
    BY <1>1, <1>2, <1>4, FocusAssumption
       DEF Fine, Called, Living, FocusInv, World, Plays, Alive, Listeners
  <1>6. CASE owns \/ SlotsOf(f, p) # {}
    <2>1. type \in Types
      BY <1>3 DEF Types, FirstSlot
    <2>2. /\ f.callback[type] \in Slot
          /\ f.callback[type].change \in {p, NoPid}
          /\ f.callback[type].lost \in {p, NoPid}
      BY <1>2, <1>3, <1>5, <2>1 DEF Fine, Called
    <2> HIDE DEF type
    <2>3. /\ slot \in Slot /\ slot.pid = p
          /\ slot.change = p \/ slot.change = NoPid
          /\ slot.lost = p \/ slot.lost = NoPid
      BY <2>2 DEF Filled, Slot
    <2> HIDE DEF slot
    <2>4. /\ c \in [Types -> Slot]
          /\ \A y \in Types : c[y] = IF y = type THEN slot ELSE f.callback[y]
      BY <1>3, <2>1, <2>3
    <2>5. focus' = [f EXCEPT !.callback = c]
      BY <1>1, <1>6
    <2> HIDE DEF c
    <2>6. /\ focus' \in FocusState /\ focus'.callback = c
          /\ focus'.owner = f.owner /\ focus'.pid = f.pid
          /\ focus'.ref = f.ref /\ focus'.suspended = f.suspended
          /\ focus'.suspendedRef = f.suspendedRef
          /\ focus'.pending = f.pending /\ focus'.events = f.events
      BY <1>3, <2>4, <2>5 DEF FocusState
    <2>7. Owned(focus')
      BY <1>2, <2>6 DEF Fine, Owned
    <2>8. Called(focus')
      BY <1>1, <1>2, <1>4, <2>3, <2>4, <2>6 DEF Fine, Called
    <2>9. Fine(focus')
      BY <1>2, <2>6, <2>7, <2>8 DEF Fine
    <2>10. Holds(focus', wants')
      BY <1>1, <1>2, <2>6 DEF Holds
    <2>11. Hears(focus', missed')
      <3>1. \A q : Pauses(focus', q) <=> Pauses(f, q)
        BY <2>6 DEF Pauses
      <3> SUFFICES ASSUME NEW q \in Pids, Alive(q), q \notin Missed,
                          Pauses(f, q)
                   PROVE  focus'.callback["music"].pid = q
        BY <1>1, <1>2, <2>6, <3>1 DEF Hears
      <3>2. f.callback["music"].pid = q /\ q # NoPid
        BY <1>2, FocusAssumption DEF Hears
      <3>3. p = q
        BY <1>5, <3>2 DEF Types
      <3> QED
        BY <2>3, <2>4, <2>6, <3>2, <3>3 DEF Types
    <2> QED
      BY <1>1, <1>2, <2>9, <2>10, <2>11, CallKeeps DEF FocusInv
  <1>7. CASE /\ ~(owns \/ SlotsOf(f, p) # {})
             /\ p \in HasPending(f) \/ Cardinality(HasPending(f)) < PendingSlots
    <2>1. /\ n \in [Pids -> SUBSET Kinds]
          /\ \A q \in Pids : q # p => n[q] = f.pending[q]
      BY <1>3
    <2>2. focus' = [f EXCEPT !.pending = n]
      BY <1>1, <1>7
    <2> HIDE DEF n
    <2>3. /\ focus' \in FocusState /\ focus'.callback = f.callback
          /\ focus'.owner = f.owner /\ focus'.pid = f.pid
          /\ focus'.ref = f.ref /\ focus'.suspended = f.suspended
          /\ focus'.suspendedRef = f.suspendedRef
          /\ focus'.pending = n /\ focus'.events = f.events
      BY <1>3, <2>1, <2>2 DEF FocusState
    <2>4. Owned(focus')
      BY <1>2, <2>3 DEF Fine, Owned
    <2>5. Called(focus')
      BY <1>1, <1>2, <1>4, <2>1, <2>3 DEF Fine, Called
    <2>6. Fine(focus')
      BY <1>2, <2>3, <2>4, <2>5 DEF Fine
    <2>7. Holds(focus', wants')
      BY <1>1, <1>2, <2>3 DEF Holds
    <2>8. Hears(focus', missed')
      BY <1>1, <1>2, <2>3, SameHears
    <2> QED
      BY <1>1, <1>2, <2>6, <2>7, <2>8, CallKeeps DEF FocusInv
  <1>8. CASE focus' = f
    BY <1>1, <1>2, <1>8, CallKeeps DEF FocusInv
  <1> QED
    BY <1>1, <1>6, <1>7, <1>8

-----------------------------------------------------------------------------
\* The last word for process p that was told t before.
Word(t, queued, p, change) ==
    LET mine == {k \in DOMAIN queued : For(queued[k], p)}
    IN  \/ mine = {} /\ t = change
        \/ \E k \in mine : queued[k].change = change /\ \A j \in mine : j <= k

\* What a player is told last, in a state f of the service.
LEMMA PausesIsWord ==
    ASSUME NEW f, NEW p
    PROVE  Pauses(f, p) <=> Word(told[p], batch \o f.events, p, "loss transient")
  BY DEF Pauses, Says, Word, For

\* ... and in the next state.
LEMMA PausesIsWordNext ==
    ASSUME NEW p
    PROVE  Pauses(focus, p)' <=>
             Word(told'[p], batch' \o focus'.events, p, "loss transient")
  BY DEF Pauses, Says, Word, For

\* audio_focus_drain_events takes the queue over as it stands.
LEMMA DrainKeeps ==
    ASSUME FocusInv, Drain
    PROVE  FocusInv'
  <1> DEFINE f == Cleared
  <1>1. /\ batch = <<>> /\ batch' = f.events
        /\ focus' = [f EXCEPT !.events = <<>>]
        /\ missed' = Missed
        /\ UNCHANGED <<life, told, wants>>
    BY DEF Drain
  <1>2. /\ Fine(f) /\ Holds(f, wants)
        /\ Missed \subseteq Pids
        /\ Missed \subseteq Pids /\ Hears(f, Missed)
    BY ClearedFine
  <1> HIDE DEF f
  <1>3. /\ f \in FocusState /\ f.events \in Seq(Event)
        /\ <<>> \in Seq(Event) /\ Len(<<>>) = 0 /\ DOMAIN <<>> = {}
    BY <1>2 DEF Fine, FocusState
  <1>4. /\ focus' \in FocusState /\ focus'.callback = f.callback
        /\ focus'.owner = f.owner /\ focus'.pid = f.pid
        /\ focus'.ref = f.ref /\ focus'.suspended = f.suspended
        /\ focus'.suspendedRef = f.suspendedRef
        /\ focus'.pending = f.pending /\ focus'.events = <<>>
    BY <1>1, <1>3 DEF FocusState
  <1>5. \A p : Alive(p)' <=> Alive(p)
    BY <1>1 DEF Alive
  <1>6. \A p : Known(p)' <=> Known(p)
    BY <1>1 DEF Known
  <1>7. World'
    <2>1. Queued(batch)' /\ batch' \in Seq(Event) /\ Len(batch') <= EventQueue
      BY <1>1, <1>2, <1>3, <1>6 DEF Fine, Queued
    <2> QED
      BY <1>1, <1>5, <2>1 DEF FocusInv, World
  <1>8. Owned(focus)'
    BY <1>2, <1>4, <1>6 DEF Fine, Owned
  <1>9. Called(focus)'
    BY <1>2, <1>4, <1>6 DEF Fine, Called
  <1>10. Queued(focus.events)' /\ Len(focus'.events) <= EventQueue
    BY <1>3, <1>4, FocusAssumption DEF Queued
  <1>11. Fine(focus)'
    BY <1>4, <1>8, <1>9, <1>10 DEF Fine
  <1>12. Holds(focus, wants)'
    BY <1>1, <1>2, <1>4, <1>5 DEF Holds
  <1>13. Hears(focus, missed)'
    <2>1. batch \o f.events = f.events /\ batch' \o focus'.events = f.events
          /\ told' = told
      BY <1>1, <1>3, <1>4
    <2>2. ASSUME NEW p PROVE Pauses(focus, p)' <=> Pauses(f, p)
      <3>1. Pauses(f, p) <=> Word(told[p], f.events, p, "loss transient")
        BY <2>1, PausesIsWord
      <3>2. Pauses(focus, p)' <=> Word(told[p], f.events, p, "loss transient")
        BY <2>1, PausesIsWordNext
      <3> QED
        BY <3>1, <3>2
    <2> QED
      BY <1>1, <1>2, <1>4, <1>5, <2>2 DEF Hears
  <1> QED
    BY <1>1, <1>2, <1>7, <1>11, <1>12, <1>13 DEF FocusInv

\* What is said last stays the same when the first event is told.
LEMMA WordTail ==
    ASSUME NEW q \in Seq(Event), q # <<>>, NEW p \in Pids, NEW c,
           NEW t, NEW u, u = IF For(Head(q), p) THEN Head(q).change ELSE t
    PROVE  Word(u, Tail(q), p, c) <=> Word(t, q, p, c)
  <1> DEFINE r == Tail(q)
             n == Len(q)
             old == {k \in DOMAIN q : For(q[k], p)}
             mine == {k \in DOMAIN r : For(r[k], p)}
  <1>1. /\ n \in Nat /\ n > 0 /\ DOMAIN q = 1 .. n
        /\ DOMAIN r = 1 .. (n - 1) /\ Head(q) = q[1]
        /\ \A k \in 1 .. (n - 1) : r[k] = q[k + 1]
    OBVIOUS
  <1>2. Word(t, q, p, c) <=>
          \/ old = {} /\ t = c
          \/ \E k \in old : q[k].change = c /\ \A j \in old : j <= k
    BY DEF Word
  <1>3. Word(u, r, p, c) <=>
          \/ mine = {} /\ u = c
          \/ \E k \in mine : r[k].change = c /\ \A j \in mine : j <= k
    BY DEF Word
  <1> HIDE DEF r, n
  <1>4. \A k \in mine : k \in Nat /\ k > 0 /\ k + 1 \in old /\ q[k + 1] = r[k]
    BY <1>1
  <1>5. \A k \in old : k \in Nat /\ (k = 1 \/ (k - 1 \in mine /\ q[k] = r[k - 1]))
    BY <1>1
  <1>6. CASE mine = {}
    <2>1. \A k \in old : k = 1
      BY <1>5, <1>6
    <2>2. old = {} <=> ~For(q[1], p)
      <3>1. For(q[1], p) => 1 \in old
        BY <1>1
      <3>2. 1 \in old => For(q[1], p)
        OBVIOUS
      <3> QED
        BY <2>1, <3>1, <3>2
    <2>3. old = {} \/ old = {1}
      BY <2>1
    <2>4. Word(u, r, p, c) <=> u = c
      BY <1>3, <1>6
    <2>5. CASE old = {}
      BY <1>1, <1>2, <2>2, <2>4, <2>5 DEF r
    <2>6. CASE old = {1}
      BY <1>1, <1>2, <2>2, <2>4, <2>6 DEF r
    <2> QED
      BY <2>3, <2>5, <2>6
  <1>7. CASE mine # {}
    <2>1. old # {}
      BY <1>4, <1>7
    <2>2. ASSUME NEW k \in mine, r[k].change = c, \A j \in mine : j <= k
          PROVE  \E i \in old : q[i].change = c /\ \A j \in old : j <= i
      <3>1. k \in Nat /\ k + 1 \in old /\ q[k + 1].change = c
        BY <1>4, <2>2
      <3>2. ASSUME NEW j \in old PROVE j <= k + 1
        BY <1>5, <2>2, <3>1, <3>2
      <3> QED
        BY <3>1, <3>2
    <2>3. ASSUME NEW i \in old, q[i].change = c, \A j \in old : j <= i
          PROVE  \E k \in mine : r[k].change = c /\ \A j \in mine : j <= k
      <3>1. i # 1
        BY <1>4, <1>7, <2>3
      <3>2. i \in Nat /\ i - 1 \in mine /\ r[i - 1].change = c
        BY <1>5, <2>3, <3>1
      <3>3. ASSUME NEW j \in mine PROVE j <= i - 1
        BY <1>4, <2>3, <3>2, <3>3
      <3> QED
        BY <3>2, <3>3
    <2> QED
      BY <1>2, <1>3, <1>7, <2>1, <2>2, <2>3 DEF r
  <1> QED
    BY <1>6, <1>7

\* The queue without its first event.
LEMMA TailConcat ==
    ASSUME NEW b \in Seq(Event), b # <<>>, NEW q \in Seq(Event)
    PROVE  /\ b \o q \in Seq(Event) /\ b \o q # <<>>
           /\ Head(b \o q) = Head(b) /\ Tail(b \o q) = Tail(b) \o q
  <1> DEFINE r == b \o q
             x == Tail(r)
             y == Tail(b) \o q
  <1>1. /\ Len(b) \in Nat /\ Len(b) > 0 /\ Len(q) \in Nat
        /\ Head(b) = b[1] /\ Tail(b) \in Seq(Event)
        /\ Len(Tail(b)) = Len(b) - 1
    OBVIOUS
  <1>2. r \in Seq(Event) /\ Len(r) = Len(b) + Len(q) /\ r[1] = b[1]
    BY <1>1
  <1>3. y \in Seq(Event) /\ Len(y) = Len(b) + Len(q) - 1
    BY <1>1
  <1>4. \A k \in 1 .. (Len(b) + Len(q) - 1) : y[k] = r[k + 1]
    BY <1>1
  <1> HIDE DEF r, y
  <1>5. /\ r # <<>> /\ Head(r) = r[1] /\ x \in Seq(Event)
        /\ Len(x) = Len(b) + Len(q) - 1
        /\ \A k \in 1 .. (Len(b) + Len(q) - 1) : x[k] = r[k + 1]
    BY <1>1, <1>2
  <1> HIDE DEF x
  <1>6. x = y
    BY <1>3, <1>4, <1>5
  <1> QED
    BY <1>1, <1>2, <1>5, <1>6 DEF r, x, y

\* The worker tells the next event.
LEMMA TellKeeps ==
    ASSUME FocusInv, Tell
    PROVE  FocusInv'
  <1> DEFINE e == Head(batch)
  <1>1. /\ batch # <<>> /\ batch' = Tail(batch)
        /\ told' = IF Alive(e.pid) /\ Reaches(e) THEN [told EXCEPT ![e.pid] = e.change]
                   ELSE told
        /\ UNCHANGED <<focus, life, wants, missed>>
    BY DEF Tell
  <1>2. /\ batch \in Seq(Event) /\ Len(batch) <= EventQueue /\ Queued(batch)
        /\ told \in [Pids -> Changes \cup {"nothing"}]
        /\ focus.events \in Seq(Event)
    BY DEF FocusInv, World, Fine, FocusState
  <1>3. /\ e = batch[1] /\ 1 \in DOMAIN batch /\ e \in Event
        /\ Tail(batch) \in Seq(Event) /\ Len(Tail(batch)) = Len(batch) - 1
        /\ Len(batch) \in Nat
        /\ \A k \in DOMAIN Tail(batch) :
             k + 1 \in DOMAIN batch /\ Tail(batch)[k] = batch[k + 1]
    BY <1>1, <1>2
  <1> HIDE DEF e
  <1>4. e.pid \in Pids /\ e.change \in Changes /\ Known(e.pid)
    BY <1>2, <1>3 DEF Event, Changes, Queued
  <1>5. \A p : Alive(p)' <=> Alive(p)
    BY <1>1 DEF Alive
  <1>6. \A p : Known(p)' <=> Known(p)
    BY <1>1 DEF Known
  <1>7. World'
    <2>1. Queued(batch)' /\ batch' \in Seq(Event)
      BY <1>1, <1>2, <1>3, <1>6 DEF Queued
    <2>2. Len(batch') <= EventQueue
      BY <1>1, <1>2, <1>3, FocusAssumption
    <2>3. told' \in [Pids -> Changes \cup {"nothing"}]
      BY <1>1, <1>2, <1>4
    <2>4. \A p \in Pids : life[p] = "new" => told'[p] = "nothing"
      BY <1>1, <1>2, <1>4 DEF FocusInv, World, Alive
    <2> QED
      BY <1>1, <1>5, <2>1, <2>2, <2>3, <2>4 DEF FocusInv, World
  <1>8. Fine(focus)'
    <2>1. focus' = focus
      BY <1>1
    <2> QED
      BY <1>6, <2>1 DEF FocusInv, Fine, Owned, Called, Queued
  <1>9. Holds(focus, wants)'
    BY <1>1, <1>5 DEF FocusInv, Holds
  <1>10. Hears(focus, missed)'
    <2>1. Hears(focus, missed) /\ focus' = focus /\ missed' = missed
      BY <1>1 DEF FocusInv
    <2>2. LET q == batch \o focus.events
          IN  /\ q \in Seq(Event) /\ q # <<>> /\ Head(q) = e
              /\ Tail(q) = batch' \o focus'.events
      BY <1>1, <1>2, <2>1, TailConcat, Zenon DEF e
    <2>3. ASSUME NEW p \in Pids, Alive(p)
          PROVE  Pauses(focus, p)' <=> Pauses(focus, p)
      <3>1. told'[p] = IF For(e, p) THEN e.change ELSE told[p]
        BY <1>1, <1>2, <1>4, <2>3 DEF For
      <3> DEFINE q == batch \o focus.events
      <3>2. q \in Seq(Event) /\ q # <<>> /\ Head(q) = e
            /\ Tail(q) = batch' \o focus'.events
        BY <2>2
      <3>3. Pauses(focus, p) <=> Word(told[p], q, p, "loss transient")
        BY PausesIsWord
      <3> HIDE DEF q
      <3>4. Word(told'[p], Tail(q), p, "loss transient")
              <=> Word(told[p], q, p, "loss transient")
        BY <3>1, <3>2, WordTail, Zenon
      <3>5. Pauses(focus, p)' <=> Word(told'[p], Tail(q), p, "loss transient")
        BY <3>2, PausesIsWordNext, Zenon
      <3> QED
        BY <3>3, <3>4, <3>5
    <2> QED
      BY <1>5, <2>1, <2>3 DEF Hears
  <1> QED
    BY <1>1, <1>7, <1>8, <1>9, <1>10 DEF FocusInv

\* A process starts: nothing was queued for it or is of it.
LEMMA BornKeeps ==
    ASSUME FocusInv, NEW p \in Pids, Born(p)
    PROVE  FocusInv'
  <1>1. /\ life[p] = "new" /\ life' = [life EXCEPT ![p] = "alive"]
        /\ Plays(p) => \A q \in Pids : Alive(q) => ~Plays(q)
        /\ UNCHANGED <<focus, batch, told, wants, missed>>
    BY DEF Born, Plays
  <1>2. /\ life \in [Pids -> {"new", "alive", "dead"}]
        /\ focus' = focus /\ batch' = batch /\ told' = told /\ wants' = wants
        /\ missed' = missed
    BY <1>1 DEF FocusInv, World
  <1>3. ~Alive(p) /\ ~Known(p) /\ Alive(p)'
    BY <1>1, <1>2 DEF Alive, Known
  <1>4. \A q : q # p => (Alive(q)' <=> Alive(q))
    BY <1>1, <1>2 DEF Alive
  <1>5. \A q : Known(q) => Known(q)'
    BY <1>1, <1>2 DEF Known
  <1>6. World'
    <2>1. life' \in [Pids -> {"new", "alive", "dead"}]
      BY <1>1, <1>2
    <2>2. Queued(batch)'
      BY <1>2, <1>5 DEF FocusInv, World, Queued
    <2>3. \A q, r \in Pids :
            Alive(q)' /\ Alive(r)' /\ Plays(q) /\ Plays(r) => q = r
      BY <1>1, <1>3, <1>4 DEF FocusInv, World
    <2>4. \A q \in Pids : life'[q] = "new" => told'[q] = "nothing"
      BY <1>1, <1>2 DEF FocusInv, World
    <2> QED
      BY <1>2, <2>1, <2>2, <2>3, <2>4 DEF FocusInv, World, Plays
  <1>7. Fine(focus)'
    <2>1. Owned(focus)'
      BY <1>2, <1>5 DEF FocusInv, Fine, Owned, Plays
    <2>2. Called(focus)'
      BY <1>2, <1>5 DEF FocusInv, Fine, Called
    <2>3. Queued(focus.events)'
      BY <1>2, <1>5 DEF FocusInv, Fine, Queued
    <2> QED
      BY <1>2, <2>1, <2>2, <2>3 DEF FocusInv, Fine
  <1>8. Holds(focus, wants)'
    <2>1. focus.owner = "ai" => focus.pid # p
      BY <1>3 DEF FocusInv, Fine, Owned
    <2> QED
      BY <1>2, <1>3, <1>4, <2>1 DEF FocusInv, Holds
  <1>9. Hears(focus, missed)'
    <2>1. ASSUME NEW q PROVE Pauses(focus, q)' <=> Pauses(focus, q)
      BY <1>2, PausesIsWord, PausesIsWordNext
    <2>2. ~Pauses(focus, p)
      <3> DEFINE r == batch \o focus.events
      <3>1. /\ batch \in Seq(Event) /\ focus.events \in Seq(Event)
            /\ Queued(batch) /\ Queued(focus.events) /\ told[p] = "nothing"
        BY <1>1 DEF FocusInv, World, Fine, FocusState
      <3>2. ASSUME NEW k \in DOMAIN r PROVE r[k].pid # p
        <4>1. CASE k \in 1 .. Len(batch)
          <5>1. r[k] = batch[k] /\ k \in DOMAIN batch
            BY <3>1, <4>1
          <5> QED
            BY <1>3, <3>1, <5>1 DEF Queued
        <4>2. CASE k \notin 1 .. Len(batch)
          <5>1. r[k] = focus.events[k - Len(batch)]
                /\ k - Len(batch) \in DOMAIN focus.events
            BY <3>1, <3>2, <4>2
          <5> QED
            BY <1>3, <3>1, <5>1 DEF Queued
        <4> QED
          BY <4>1, <4>2
      <3> HIDE DEF r
      <3>3. {k \in DOMAIN r : r[k].pid = p /\ Reaches(r[k])} = {}
        BY <3>2
      <3>4. ~Says(r, p, "loss transient")
        BY <3>1, <3>3 DEF Says
      <3> QED
        BY <3>4 DEF Pauses, r
    <2>3. focus.suspended # p
      BY <1>3, FocusAssumption DEF FocusInv, Fine, Owned
    <2> QED
      BY <1>2, <1>4, <2>1, <2>2, <2>3 DEF FocusInv, Hears
  <1> QED
    BY <1>2, <1>6, <1>7, <1>8, <1>9 DEF FocusInv

\* A process ends, and its requests with it.
LEMMA DiesKeeps ==
    ASSUME FocusInv, NEW p \in Pids, Dies(p)
    PROVE  FocusInv'
  <1>1. /\ Alive(p) /\ life' = [life EXCEPT ![p] = "dead"]
        /\ wants' = [wants EXCEPT ![p] = 0]
        /\ told' = [told EXCEPT ![p] = "nothing"]
        /\ missed' = missed \ {p}
        /\ focus' = focus /\ batch' = batch
    BY DEF Dies
  <1>2. /\ life \in [Pids -> {"new", "alive", "dead"}]
        /\ told \in [Pids -> Changes \cup {"nothing"}]
        /\ wants \in [Pids -> 0 .. MaxRef] /\ 0 \in 0 .. MaxRef
    BY FocusAssumption DEF FocusInv, World
  <1>3. ~Alive(p)' /\ \A q : q # p => (Alive(q)' <=> Alive(q))
    BY <1>1, <1>2 DEF Alive
  <1>4. \A q : Known(q)' <=> Known(q)
    BY <1>1, <1>2 DEF Known, Alive
  <1>5. World'
    <2>1. life' \in [Pids -> {"new", "alive", "dead"}]
      BY <1>1, <1>2
    <2>2. told' \in [Pids -> Changes \cup {"nothing"}]
      BY <1>1, <1>2
    <2>3. Queued(batch)'
      BY <1>1, <1>4 DEF FocusInv, World, Queued
    <2>4. \A q, r \in Pids :
            Alive(q)' /\ Alive(r)' /\ Plays(q) /\ Plays(r) => q = r
      BY <1>3 DEF FocusInv, World
    <2>5. \A q \in Pids : life'[q] = "new" => told'[q] = "nothing"
      BY <1>1, <1>2 DEF FocusInv, World
    <2> QED
      BY <1>1, <2>1, <2>2, <2>3, <2>4, <2>5 DEF FocusInv, World, Plays
  <1>6. Fine(focus)'
    <2>1. Owned(focus)'
      BY <1>1, <1>4 DEF FocusInv, Fine, Owned, Plays
    <2>2. Called(focus)'
      BY <1>1, <1>4 DEF FocusInv, Fine, Called
    <2>3. Queued(focus.events)'
      BY <1>1, <1>4 DEF FocusInv, Fine, Queued
    <2> QED
      BY <1>1, <2>1, <2>2, <2>3 DEF FocusInv, Fine
  <1>7. /\ wants' \in [Pids -> 0 .. MaxRef] /\ ~(wants'[p] > 0)
        /\ \A q \in Pids : q # p => wants'[q] = wants[q]
    BY <1>1, <1>2
  <1>8. Holds(focus, wants)'
    <2>1. \A q \in Pids : wants'[q] > 0 =>
              Alive(q)' /\ focus.owner = "ai" /\ focus.pid = q
      BY <1>3, <1>7 DEF FocusInv, Holds
    <2>2. focus.owner = "ai" /\ Alive(focus.pid)'
            => wants'[focus.pid] = focus.ref
      BY <1>1, <1>3, <1>7 DEF FocusInv, Holds, Alive
    <2> QED
      BY <1>1, <2>1, <2>2 DEF Holds
  <1>9. Hears(focus, missed)'
    <2>1. \A q \in Pids : q # p => told'[q] = told[q]
      BY <1>1, <1>2
    <2>2. ASSUME NEW q \in Pids, q # p
          PROVE  Pauses(focus, q)' <=> Pauses(focus, q)
      <3>1. told'[q] = told[q]
        BY <2>1, <2>2
      <3> QED
        BY <1>1, <3>1, PausesIsWord, PausesIsWordNext
    <2> QED
      BY <1>1, <1>3, <2>2 DEF FocusInv, Hears
  <1> QED
    BY <1>1, <1>5, <1>6, <1>7, <1>8, <1>9 DEF FocusInv

-----------------------------------------------------------------------------
\* The service starts idle, with no process and no event.
LEMMA FocusInitInv == FocusInit => FocusInv
  <1> SUFFICES ASSUME FocusInit PROVE FocusInv
    OBVIOUS
  <1>1. /\ focus.owner = "idle" /\ focus.pid = NoPid /\ focus.ref = 0
        /\ focus.suspended = NoPid /\ focus.suspendedRef = 0
        /\ focus.callback = [y \in Types |-> EmptySlot]
        /\ focus.pending = [p \in Pids |-> {}] /\ focus.events = <<>>
        /\ focus = [owner |-> "idle", pid |-> NoPid, ref |-> 0,
                    suspended |-> NoPid, suspendedRef |-> 0,
                    callback |-> [y \in Types |-> EmptySlot],
                    pending |-> [p \in Pids |-> {}], events |-> <<>>]
        /\ batch = <<>>
    BY DEF FocusInit
  <1>2. /\ <<>> \in Seq(Event) /\ Len(<<>>) = 0 /\ Queued(<<>>)
        /\ 0 \in 0 .. MaxRef /\ EventQueue \in Nat
    BY FocusAssumption DEF Queued
  <1>3. [y \in Types |-> EmptySlot] \in [Types -> Slot]
    BY DEF EmptySlot, Slot
  <1>4. [p \in Pids |-> {}] \in [Pids -> SUBSET Kinds]
    OBVIOUS
  <1>5. focus \in FocusState
    BY <1>1, <1>2, <1>3, <1>4 DEF FocusState
  <1>6. Owned(focus)
    BY <1>1 DEF Owned
  <1>7. Called(focus)
    BY <1>1 DEF Called, EmptySlot
  <1>8. Fine(focus)
    BY <1>1, <1>2, <1>5, <1>6, <1>7 DEF Fine
  <1>9. \A p \in Pids : life[p] = "new" /\ told[p] = "nothing" /\ wants[p] = 0
    BY DEF FocusInit
  <1>10. World
    <2>1. life \in [Pids -> {"new", "alive", "dead"}]
      BY DEF FocusInit
    <2>2. told \in [Pids -> Changes \cup {"nothing"}]
      BY DEF FocusInit
    <2> QED
      BY <1>1, <1>2, <1>9, <2>1, <2>2 DEF World, Alive
  <1>11. Holds(focus, wants)
    BY <1>1, <1>9 DEF Holds
  <1>12. Hears(focus, missed)
    BY <1>9 DEF Hears, Alive
  <1>13. wants \in [Pids -> 0 .. MaxRef]
    BY <1>2 DEF FocusInit
  <1> QED
    BY <1>8, <1>10, <1>11, <1>12, <1>13 DEF FocusInv, FocusInit

\* Every call, every step of the worker and every birth or death keeps the invariant.
LEMMA FocusNextInv == FocusInv /\ [FocusNext]_focusVars => FocusInv'
  <1> SUFFICES ASSUME FocusInv, [FocusNext]_focusVars PROVE FocusInv'
    OBVIOUS
  <1>1. CASE Worker
    BY <1>1, DrainKeeps, TellKeeps DEF Worker
  <1>2. ASSUME NEW p \in Pids, Born(p) \/ Dies(p) \/ GetOwner(p)
        PROVE  FocusInv'
    BY <1>2, BornKeeps, DiesKeeps, GetOwnerKeeps
  <1>3. ASSUME NEW p \in Pids, NEW kind \in Kinds, RegisterCallback(p, kind)
        PROVE  FocusInv'
    BY <1>3, RegisterCallbackKeeps
  <1>4. ASSUME NEW p \in Pids, NEW type \in Types, Request(p, type)
        PROVE  FocusInv'
    BY <1>4, RequestIdleKeeps, RequestAgainKeeps, RequestBusyKeeps, PreemptKeeps
       DEF Request
  <1>5. ASSUME NEW p \in Pids, NEW type \in Types, Release(p, type)
        PROVE  FocusInv'
    BY <1>5, ReleaseNothingKeeps, ReleaseOneKeeps, ReleaseLastKeeps
       DEF Release
  <1>6. CASE UNCHANGED focusVars
    <2>1. /\ focus' = focus /\ life' = life /\ batch' = batch /\ told' = told
          /\ wants' = wants /\ missed' = missed
      BY <1>6 DEF focusVars
    <2> QED
      BY <2>1, CallKeeps DEF FocusInv
  <1> QED
    BY <1>1, <1>2, <1>3, <1>4, <1>5, <1>6 DEF FocusNext

\* The invariant of the audio focus service holds whatever its users, the
\* worker and the deaths of processes do.
THEOREM FocusInvariant == FocusSpec => []FocusInv
  BY FocusInitInv, FocusNextInv, PTL DEF FocusSpec

\* Every variable keeps its type, and neither the queue of events nor what the
\* worker copied from it exceeds AUDIO_FOCUS_EVENT_QUEUE.
THEOREM FocusTypeCorrect == FocusSpec => []FocusTypeOK
  <1>1. FocusInv => FocusTypeOK
    BY DEF FocusInv, World, Fine, FocusTypeOK, Changes
  <1> QED
    BY <1>1, FocusInvariant, PTL

\* A living assistant that asked more often than it released has the focus, as
\* often as it asked: audio_focus_request_ex and audio_focus_release count
\* alike, and clearing the dead takes nothing from the living.
THEOREM FocusCounted == FocusSpec => []Counted
  <1>1. ASSUME FocusInv PROVE Counted
    <2>1. /\ focus.owner = "idle" <=> focus.pid = NoPid
          /\ focus.ref = 0 <=> focus.owner = "idle"
          /\ focus.suspended # NoPid => focus.owner = "ai" /\ focus.suspendedRef > 0
      BY <1>1 DEF FocusInv, Fine, Owned
    <2>2. \A p \in Pids :
            wants[p] > 0 => /\ focus.owner = "ai" /\ focus.pid = p
                            /\ focus.ref = wants[p]
      BY <1>1 DEF FocusInv, Holds
    <2> QED
      BY <2>1, <2>2 DEF Counted
  <1> QED
    BY <1>1, FocusInvariant, PTL

\* A slot never mixes callbacks of two processes, so that clearing the slot of
\* a dead process removes all of them.
THEOREM FocusOwnCallbacks == FocusSpec => []OwnCallbacks
  <1>1. FocusInv => OwnCallbacks
    BY DEF FocusInv, Fine, Called, OwnCallbacks
  <1> QED
    BY <1>1, FocusInvariant, PTL

\* A living player was last told to pause exactly when it is suspended, unless
\* the last change did not reach it: without a callback, with only the one for
\* losses when it got the focus back, or with the queue full.
THEOREM FocusInformed == FocusSpec => []Informed
  <1>1. FocusInv => Informed
    BY DEF FocusInv, Hears, Pauses, Informed
  <1> QED
    BY <1>1, FocusInvariant, PTL

-----------------------------------------------------------------------------
(***************************************************************************)
(* The voice channel.                                                      *)
(***************************************************************************)
USE ChannelAssumption

RecPCs == {"idle", "await", "retry", "spawn", "ready", "halt", "undo",
           "stop", "join", "close", "finish"}
ThreadPCs == {"none", "boot", "loop", "read", "leave", "abnormal", "exit"}
SpeakPCs == {"idle", "lock", "check", "reset", "stream",
             "open", "register", "failed", "close", "unlock"}

\* The type invariant, one half for the recording and one for the speech.
RecordFlags == stored \in BOOLEAN /\ held \in BOOLEAN /\ starved \in BOOLEAN

RecordTypes ==
    /\ state \in {"idle", "recording", "stopping"}
    /\ cap \in {"null", "open", "started", "stopping", "closed"}
    /\ captures \in Int
    /\ streams \in Int
    /\ ready \in 0 .. 1
    /\ rpc \in RecPCs /\ tpc \in ThreadPCs

SoundTypes ==
    /\ abort \in BOOLEAN
    /\ pb \in Speakers \cup {None} /\ speakLock \in Speakers \cup {None}
    /\ spc \in [Speakers -> SpeakPCs]
    /\ out \in [Speakers -> {"closed", "playing", "stopped"}]

-----------------------------------------------------------------------------
(***************************************************************************)
(* What the place of the poll thread says of the recording, of its capture *)
(* and of the recording thread.                                            *)
(***************************************************************************)
AtRest ==
    rpc \in {"idle", "await", "retry"} =>
        \/ /\ state = "idle" /\ tpc \in {"none", "exit"} /\ ~stored
           /\ ~starved => cap = "null"
        \/ /\ rpc = "idle" /\ state = "recording" /\ cap = "started" /\ ~stored
           /\ tpc \in {"loop", "read", "abnormal"}

Starting ==
    /\ rpc = "spawn" =>
         state = "recording" /\ cap = "open" /\ tpc \in {"none", "exit"}
    /\ rpc = "ready" =>
         /\ cap = "open"
         /\ ready = 0 => tpc = "boot" /\ state = "recording"
         /\ ready = 1 =>
              /\ ~stored
              /\ \/ state = "recording" /\ tpc \in {"loop", "read"}
                 \/ starved /\ state = "idle" /\ tpc = "exit"
    /\ ready = 1 \/ tpc = "boot" => rpc = "ready"

Ending ==
    /\ rpc \in {"halt", "undo"} =>
         /\ state = "idle" /\ tpc \in {"loop", "read", "leave", "exit"}
         /\ cap = IF rpc = "halt" THEN "open" ELSE "stopping"
    /\ rpc \in {"stop", "join", "close", "finish"} => state = "stopping"
    /\ rpc \in {"stop", "join"} =>
         /\ tpc \in {"loop", "read", "leave", "abnormal", "exit"}
         /\ cap = IF rpc = "stop" THEN "started" ELSE "stopping"
    /\ rpc = "close" => cap = "stopping" /\ tpc = "none"
    /\ rpc = "finish" => cap = "closed" /\ tpc = "none"
    /\ tpc \in {"loop", "read", "leave", "abnormal"} => ~stored

\* A capture that is counted is the one that cap points to, and a stream is
\* stored or held, except for what a thread without memory left behind.
Opened ==
    LET microphone == Count(cap \in {"open", "started", "stopping"})
        recognition == Count(stored) + Count(held)
    IN  /\ held => tpc \in {"loop", "read", "leave", "abnormal"}
        /\ microphone <= captures /\ captures <= MaxOpen
        /\ recognition <= streams /\ streams <= MaxOpen + recognition
        /\ ~starved => captures = microphone /\ streams = recognition

RecordInv ==
    RecordFlags /\ RecordTypes /\ AtRest /\ Starting /\ Ending /\ Opened

(***************************************************************************)
(* Who holds speak_lock, and where a speaker has its playback open.        *)
(***************************************************************************)
Inside == SpeakPCs \ {"idle", "lock"}

Locked == \A s \in Speakers : speakLock = s <=> spc[s] \in Inside

OpenInside ==
    \A s \in Speakers :
        /\ out[s] # "closed" => spc[s] \in {"register", "stream", "close"}
        /\ spc[s] = "register" => out[s] # "closed"

Registered == pb # None => spc[pb] = "stream" /\ out[pb] # "closed"

SoundInv == SoundTypes /\ Locked /\ OpenInside /\ Registered

IInv == RecordInv /\ SoundInv

\* The invariant gives the types, with their bounds.
LEMMA ChannelTypes == IInv => TypeOK
  <1> SUFFICES ASSUME RecordInv, SoundInv PROVE TypeOK
    BY DEF IInv
  <1>1. captures \in 0 .. MaxOpen /\ streams \in 0 .. MaxOpen + 1
    BY DEF RecordInv, RecordFlags, RecordTypes, Ending, Opened, Count
  <1> QED
    BY <1>1 DEF RecordInv, RecordFlags, RecordTypes, SoundInv, SoundTypes, TypeOK,
                RecPCs, ThreadPCs, SpeakPCs

\* A channel that was never used has nothing open.
LEMMA InitInv == Init => IInv
  <1> SUFFICES ASSUME Init PROVE IInv
    OBVIOUS
  <1>1. RecordFlags
    BY DEF Init, RecordFlags
  <1>2. RecordTypes
    BY DEF Init, RecordTypes, RecPCs, ThreadPCs
  <1>3. AtRest /\ Starting /\ Ending /\ Opened
    BY DEF Init, AtRest, Starting, Ending, Opened, Count
  <1>4. SoundInv
    BY DEF Init, SoundInv, SoundTypes, SpeakPCs, Locked, Inside, OpenInside,
           Registered
  <1> QED
    BY <1>1, <1>2, <1>3, <1>4 DEF IInv, RecordInv

-----------------------------------------------------------------------------
(***************************************************************************)
(* The recording.                                                          *)
(***************************************************************************)
LEMMA CountType == \A b \in BOOLEAN : Count(b) \in 0 .. 1
  BY DEF Count

\* A step that moves neither the poll thread nor the recording thread.
LEMMA RecordSame ==
    ASSUME RecordInv, UNCHANGED <<record, starved>>
    PROVE  RecordInv'
  BY DEF record, mic, asr, RecordInv, RecordFlags, RecordTypes, AtRest, Starting, Ending,
         Opened, Count

\* The poll thread's calls keep the types, ...
LEMMA RecorderFlags ==
    ASSUME RecordInv, StopTts \/ AwaitSpeak \/ Claim \/ Stop \/ Recorder
    PROVE  RecordFlags'
  BY DEF RecordInv, RecordFlags, Recorder, RecGoes, mic, asr, StopTts,
         AwaitSpeak, Claim, Stop, Spawn, SpawnFails, StartCapture,
         CaptureFails, Halt, Undo, Join, CloseCapture, Finish

\* Start and stop of a recording keep the types.
LEMMA RecorderTypes ==
    ASSUME RecordInv, StopTts \/ AwaitSpeak \/ Claim \/ Stop \/ Recorder
    PROVE  RecordTypes'
  <1> USE CountType DEF RecordInv, RecordFlags, RecordTypes, RecGoes, mic, asr, RecPCs,
                        ThreadPCs
  <1>1. CASE StopTts       BY <1>1 DEF StopTts
  <1>2. CASE AwaitSpeak    BY <1>2 DEF AwaitSpeak
  <1>3. CASE Claim         BY <1>3 DEF Claim
  <1>4. CASE Stop          BY <1>4 DEF Stop
  <1>5. CASE Spawn         BY <1>5 DEF Spawn
  <1>6. CASE SpawnFails    BY <1>6 DEF SpawnFails
  <1>7. CASE StartCapture  BY <1>7 DEF StartCapture
  <1>8. CASE CaptureFails  BY <1>8 DEF CaptureFails
  <1>9. CASE Halt          BY <1>9 DEF Halt
  <1>10. CASE Undo         BY <1>10 DEF Undo
  <1>11. CASE Join         BY <1>11 DEF Join
  <1>12. CASE CloseCapture BY <1>12 DEF CloseCapture
  <1>13. CASE Finish       BY <1>13 DEF Finish
  <1> QED
    BY Zenon, <1>1, <1>2, <1>3, <1>4, <1>5, <1>6, <1>7, <1>8, <1>9, <1>10,
       <1>11, <1>12, <1>13 DEF Recorder

\* ... what the poll thread's place says ...
LEMMA RecorderPlaces ==
    ASSUME RecordInv, StopTts \/ AwaitSpeak \/ Claim \/ Stop \/ Recorder
    PROVE  AtRest' /\ Starting' /\ Ending'
  <1> USE DEF RecordInv, RecordFlags, RecordTypes, AtRest, Starting, Ending, Opened,
              RecGoes, mic, asr, RecPCs, ThreadPCs
  <1>1. CASE StopTts       BY <1>1 DEF StopTts
  <1>2. CASE AwaitSpeak    BY <1>2 DEF AwaitSpeak
  <1>3. CASE Claim         BY <1>3 DEF Claim
  <1>4. CASE Stop          BY <1>4 DEF Stop
  <1>5. CASE Spawn         BY <1>5 DEF Spawn
  <1>6. CASE SpawnFails    BY <1>6 DEF SpawnFails
  <1>7. CASE StartCapture  BY <1>7 DEF StartCapture
  <1>8. CASE CaptureFails  BY <1>8 DEF CaptureFails
  <1>9. CASE Halt          BY <1>9 DEF Halt
  <1>10. CASE Undo         BY <1>10 DEF Undo
  <1>11. CASE Join         BY <1>11 DEF Join
  <1>12. CASE CloseCapture BY <1>12 DEF CloseCapture
  <1>13. CASE Finish       BY <1>13 DEF Finish
  <1> QED
    BY Zenon, <1>1, <1>2, <1>3, <1>4, <1>5, <1>6, <1>7, <1>8, <1>9, <1>10,
       <1>11, <1>12, <1>13 DEF Recorder

\* ... and the count of what is open.
LEMMA RecorderOpened ==
    ASSUME RecordInv, StopTts \/ AwaitSpeak \/ Claim \/ Stop \/ Recorder
    PROVE  Opened'
  <1> USE DEF RecordInv, RecordFlags, RecordTypes, AtRest, Starting, Ending, Opened, Count,
              RecGoes, mic, asr, RecPCs, ThreadPCs
  <1>1. CASE StopTts       BY <1>1 DEF StopTts
  <1>2. CASE AwaitSpeak    BY <1>2 DEF AwaitSpeak
  <1>3. CASE Claim         BY <1>3 DEF Claim
  <1>4. CASE Stop          BY <1>4 DEF Stop
  <1>5. CASE Spawn         BY <1>5 DEF Spawn
  <1>6. CASE SpawnFails    BY <1>6 DEF SpawnFails
  <1>7. CASE StartCapture  BY <1>7 DEF StartCapture
  <1>8. CASE CaptureFails  BY <1>8 DEF CaptureFails
  <1>9. CASE Halt          BY <1>9 DEF Halt
  <1>10. CASE Undo         BY <1>10 DEF Undo
  <1>11. CASE Join         BY <1>11 DEF Join
  <1>12. CASE CloseCapture BY <1>12 DEF CloseCapture
  <1>13. CASE Finish       BY <1>13 DEF Finish
  <1> QED
    BY Zenon, <1>1, <1>2, <1>3, <1>4, <1>5, <1>6, <1>7, <1>8, <1>9, <1>10,
       <1>11, <1>12, <1>13 DEF Recorder

\* So does the recording thread.
LEMMA ThreadFlags ==
    ASSUME RecordInv, Thread
    PROVE  RecordFlags'
  BY DEF RecordInv, RecordFlags, Thread, ThreadGoes, mic, asr, Boot,
         AllocFails, Loop, Chunk, ReadFails, Leave, AbnormalExit, Cleanup

\* The recording thread keeps the types.
LEMMA ThreadTypes ==
    ASSUME RecordInv, Thread
    PROVE  RecordTypes'
  <1> USE CountType DEF RecordInv, RecordFlags, RecordTypes, Starting, ThreadGoes, mic, asr,
                        RecPCs, ThreadPCs
  <1>1. CASE Boot         BY <1>1 DEF Boot
  <1>2. CASE AllocFails   BY <1>2 DEF AllocFails
  <1>3. CASE Loop         BY <1>3 DEF Loop
  <1>4. CASE Chunk        BY <1>4 DEF Chunk
  <1>5. CASE ReadFails    BY <1>5 DEF ReadFails
  <1>6. CASE Leave        BY <1>6 DEF Leave
  <1>7. CASE AbnormalExit BY <1>7 DEF AbnormalExit, Cleanup
  <1> QED
    BY Zenon, <1>1, <1>2, <1>3, <1>4, <1>5, <1>6, <1>7 DEF Thread

\* The recording thread moves only where the poll thread expects it.
LEMMA ThreadPlaces ==
    ASSUME RecordInv, Thread
    PROVE  AtRest' /\ Starting' /\ Ending'
  <1> USE DEF RecordInv, RecordFlags, RecordTypes, AtRest, Starting, Ending, Opened,
              ThreadGoes, mic, asr, RecPCs, ThreadPCs
  <1>1. CASE Boot         BY <1>1 DEF Boot
  <1>2. CASE AllocFails   BY <1>2 DEF AllocFails
  <1>3. CASE Loop         BY <1>3 DEF Loop
  <1>4. CASE Chunk        BY <1>4 DEF Chunk
  <1>5. CASE ReadFails    BY <1>5 DEF ReadFails
  <1>6. CASE Leave        BY <1>6 DEF Leave
  <1>7. CASE AbnormalExit BY <1>7 DEF AbnormalExit, Cleanup
  <1> QED
    BY Zenon, <1>1, <1>2, <1>3, <1>4, <1>5, <1>6, <1>7 DEF Thread

\* The recording thread leaves open only what it may.
LEMMA ThreadOpened ==
    ASSUME RecordInv, Thread
    PROVE  Opened'
  <1> USE DEF RecordInv, RecordFlags, RecordTypes, AtRest, Starting, Ending, Opened, Count,
              ThreadGoes, mic, asr, RecPCs, ThreadPCs
  <1>1. CASE Boot         BY <1>1 DEF Boot
  <1>2. CASE AllocFails   BY <1>2 DEF AllocFails
  <1>3. CASE Loop         BY <1>3 DEF Loop
  <1>4. CASE Chunk        BY <1>4 DEF Chunk
  <1>5. CASE ReadFails    BY <1>5 DEF ReadFails
  <1>6. CASE Leave        BY <1>6 DEF Leave
  <1>7. CASE AbnormalExit BY <1>7 DEF AbnormalExit, Cleanup
  <1> QED
    BY Zenon, <1>1, <1>2, <1>3, <1>4, <1>5, <1>6, <1>7 DEF Thread

-----------------------------------------------------------------------------
(***************************************************************************)
(* The speech.                                                             *)
(***************************************************************************)
LEMMA SoundSame ==
    ASSUME SoundInv, UNCHANGED sound
    PROVE  SoundInv'
  BY DEF sound, SoundInv, SoundTypes, Locked, OpenInside, Registered

\* A playback that is stopped from outside stays open until its speaker
\* closes it.
LEMMA StopKeeps ==
    ASSUME SoundInv, out' = StopPlayback
    PROVE  /\ out' \in [Speakers -> {"closed", "playing", "stopped"}]
           /\ \A s \in Speakers : out'[s] # "closed" <=> out[s] # "closed"
  BY DEF SoundInv, SoundTypes, Registered, StopPlayback

\* A recording that starts stops the speech.
LEMMA StopTtsKeeps ==
    ASSUME SoundInv, StopTts
    PROVE  SoundInv'
  <1>1. /\ out' \in [Speakers -> {"closed", "playing", "stopped"}]
        /\ \A s \in Speakers : out'[s] # "closed" <=> out[s] # "closed"
    BY StopKeeps DEF StopTts
  <1> QED
    BY <1>1 DEF StopTts, SoundInv, SoundTypes, Locked, OpenInside, Registered

\* A speaker.
LEMMA SpeakerKeeps ==
    ASSUME SoundInv, NEW s \in Speakers, Speak(s) \/ Enter(s) \/ Speaker(s)
    PROVE  SoundInv'
  <1> USE DEF SoundInv, SoundTypes, Locked, OpenInside, Registered, SpeakGoes,
              SpeakPCs, Inside
  <1>1. CASE Speak(s)
    <2>1. /\ out' \in [Speakers -> {"closed", "playing", "stopped"}]
          /\ \A t \in Speakers : out'[t] # "closed" <=> out[t] # "closed"
      BY <1>1, StopKeeps DEF Speak
    <2> QED
      BY <1>1, <2>1 DEF Speak
  <1>2. CASE Enter(s)      BY <1>2 DEF Enter
  <1>3. CASE Refused(s)    BY <1>3 DEF Refused
  <1>4. CASE Begin(s)      BY <1>4 DEF Begin
  <1>5. CASE Reset(s)      BY <1>5 DEF Reset
  <1>6. CASE FirstChunk(s) BY <1>6 DEF FirstChunk
  <1>7. CASE Open(s)       BY <1>7 DEF Open
  <1>8. CASE Register(s)   BY <1>8 DEF Register
  <1>9. CASE EndStream(s)  BY <1>9 DEF EndStream
  <1>10. CASE Close(s)     BY <1>10 DEF Close
  <1>11. CASE Unlock(s)    BY <1>11 DEF Unlock
  <1> QED
    BY Zenon, <1>1, <1>2, <1>3, <1>4, <1>5, <1>6, <1>7, <1>8, <1>9, <1>10,
       <1>11 DEF Speaker

-----------------------------------------------------------------------------
\* Apart from StopTts the recording leaves the speech alone, ...
LEMMA RecordingLeavesSound ==
    ASSUME AwaitSpeak \/ Claim \/ Stop \/ Recorder \/ Thread
    PROVE  UNCHANGED sound
  BY Zenon DEF AwaitSpeak, Claim, Stop, Recorder, Spawn, SpawnFails,
     StartCapture, CaptureFails, Halt, Undo, Join, CloseCapture, Finish,
     Thread, Boot, AllocFails, Loop, Chunk, ReadFails, Leave, AbnormalExit

\* ... and the speech the recording.
LEMMA SpeechLeavesRecord ==
    ASSUME NEW s \in Speakers, Speak(s) \/ Enter(s) \/ Speaker(s)
    PROVE  UNCHANGED <<record, starved>>
  BY DEF Speak, Enter, Speaker, Refused, Begin, Reset, FirstChunk, Open,
         Register, EndStream, Close, Unlock

\* Every step keeps the invariant.
LEMMA NextInv == IInv /\ [Next]_vars => IInv'
  <1> SUFFICES ASSUME RecordInv, SoundInv, [Next]_vars
               PROVE  RecordInv' /\ SoundInv'
    BY DEF IInv
  <1>1. CASE UNCHANGED vars
    BY <1>1, RecordSame, SoundSame DEF vars
  <1>2. CASE StopTts
    BY <1>2, RecorderFlags, RecorderTypes, RecorderPlaces, RecorderOpened, StopTtsKeeps
       DEF RecordInv
  <1>3. CASE AwaitSpeak \/ Claim \/ Stop \/ Recorder
    BY <1>3, RecorderFlags, RecorderTypes, RecorderPlaces, RecorderOpened,
       RecordingLeavesSound, SoundSame DEF RecordInv
  <1>4. CASE Thread
    BY <1>4, ThreadFlags, ThreadTypes, ThreadPlaces, ThreadOpened,
       RecordingLeavesSound, SoundSame DEF RecordInv
  <1>5. CASE \E s \in Speakers : Speak(s) \/ Enter(s) \/ Speaker(s)
    BY <1>5, SpeakerKeeps, SpeechLeavesRecord, RecordSame
  <1> QED
    BY Zenon, <1>1, <1>2, <1>3, <1>4, <1>5 DEF Next

\* The invariant holds in every behaviour of the voice channel.
THEOREM ChannelInvariant == Spec => []IInv
  BY InitInv, NextInv, PTL DEF Spec

\* Types of the voice channel, for any number of speakers.
THEOREM ChannelTypeCorrect == Spec => []TypeOK
  BY ChannelInvariant, ChannelTypes, PTL

\* A playback that start or speak stop from outside is still open.
THEOREM ChannelPlaybackAlive == Spec => []PlaybackAlive
  <1>1. IInv => PlaybackAlive
    BY DEF IInv, SoundInv, Registered, PlaybackAlive
  <1> QED
    BY <1>1, ChannelInvariant, PTL

\* At most one speaker has its playback open: those that do hold speak_lock.
THEOREM ChannelOnePlayback == Spec => []OnePlayback
  <1>1. IInv => OnePlayback
    <2> DEFINE Playing == {s \in Speakers : out[s] # "closed"}
    <2> SUFFICES ASSUME IInv PROVE Cardinality(Playing) <= 1
      BY DEF OnePlayback
    <2>1. \A s \in Playing : speakLock = s
      BY DEF IInv, SoundInv, Locked, OpenInside, Inside, SpeakPCs
    <2>2. Playing = {} \/ Playing = {speakLock}
      BY <2>1
    <2>3. Cardinality({}) = 0 /\ Cardinality({speakLock}) = 1
      BY Zenon, FS_EmptySet, FS_Singleton
    <2> QED
      BY <2>2, <2>3
  <1> QED
    BY <1>1, ChannelInvariant, PTL

\* The recording thread reads a capture that is open.
THEOREM ChannelReadsOpenCapture == Spec => []ReadsOpenCapture
  <1>1. IInv => ReadsOpenCapture
    BY DEF IInv, RecordInv, RecordFlags, RecordTypes, AtRest, Starting, Ending, RecPCs,
           ReadsOpenCapture
  <1> QED
    BY <1>1, ChannelInvariant, PTL

\* At rest the microphone is closed and the stream finished or aborted.
THEOREM ChannelNothingLeftOpen == Spec => []NothingLeftOpen
  <1>1. IInv => NothingLeftOpen
    BY DEF IInv, RecordInv, RecordFlags, RecordTypes, AtRest, Opened, Count,
           NothingLeftOpen
  <1> QED
    BY <1>1, ChannelInvariant, PTL
=============================================================================
