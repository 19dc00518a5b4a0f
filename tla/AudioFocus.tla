----------------------------- MODULE AudioFocus -----------------------------
(***************************************************************************)
(* The audio focus service (services/audioservice/audio_focus_manager.c):  *)
(* processes ask for the loudspeaker, the assistant takes it from music,   *)
(* and music gets it back when the assistant lets go or dies.  A worker    *)
(* thread calls the callbacks of the processes.                            *)
(*                                                                         *)
(* Every function runs under one lock and begins by clearing what belongs  *)
(* to dead processes, so each is one action.  The worker copies the queued *)
(* events under the lock and calls back after it, event by event.          *)
(***************************************************************************)
EXTENDS Integers, Sequences, FiniteSets

CONSTANTS
    Pids,          \* processes
    NoPid,         \* pid 0, no callback
    TypesOf,       \* of each process, the types of focus it asks for
    Registers,     \* of each process, the callbacks it registers; players only
    PendingSlots,  \* AUDIO_FOCUS_PENDING_SLOTS
    EventQueue,    \* AUDIO_FOCUS_EVENT_QUEUE
    MaxRef         \* bound on how often a process asks without releasing

Types == {"ai", "music"}
Kinds == {"change", "lost"}      \* the two callbacks a process may register

ASSUME FocusAssumption ==
    /\ NoPid \notin Pids
    /\ TypesOf \in [Pids -> SUBSET Types]
    /\ Registers \in [Pids -> SUBSET Kinds]
    /\ \A p \in Pids : Registers[p] # {} => "music" \in TypesOf[p]
    /\ {PendingSlots, EventQueue, MaxRef} \subseteq Nat \ {0}

VARIABLES
    focus,    \* g_audio_focus
    life,     \* of each process: "new", "alive" or "dead"
    batch,    \* the events the worker has copied and not yet told
    told,     \* the last change each process was told of
    wants,    \* assistant requests of each process granted and not released
    missed    \* processes that the last change did not reach

focusVars == <<focus, life, batch, told, wants, missed>>

EmptySlot == [pid |-> NoPid, change |-> NoPid, lost |-> NoPid]

FocusInit ==
    /\ focus = [owner |-> "idle", pid |-> NoPid, ref |-> 0,
                suspended |-> NoPid, suspendedRef |-> 0,
                callback |-> [y \in Types |-> EmptySlot],
                pending |-> [p \in Pids |-> {}],
                events |-> <<>>]
    /\ life = [p \in Pids |-> "new"]
    /\ batch = <<>>
    /\ told = [p \in Pids |-> "nothing"]
    /\ wants = [p \in Pids |-> 0]
    /\ missed = {}

-----------------------------------------------------------------------------
(***************************************************************************)
(* The helpers, as functions from a state f of the service to a state.     *)
(***************************************************************************)
Alive(p) == p \in Pids /\ life[p] = "alive"

SetOwner(f, type, pid, ref) ==
    [f EXCEPT !.owner = type, !.pid = pid, !.ref = ref]

Unsuspend(f) == [f EXCEPT !.suspended = NoPid, !.suspendedRef = 0]

\* The callbacks of a slot that are not NULL.
Calls(slot) == {kind \in Kinds : slot[kind] # NoPid}

\* Only music is ever told of a change; a full queue drops the event.
CanHear(f) ==
    /\ f.callback["music"].pid # NoPid
    /\ Calls(f.callback["music"]) # {}

QueueFull(f) == Len(f.events) >= EventQueue

\* The event takes the callbacks along as they are now.
Enqueue(f, change) ==
    LET slot == f.callback["music"]
        event == [pid |-> slot.pid, change |-> change, calls |-> Calls(slot)]
    IN  IF CanHear(f) /\ ~QueueFull(f)
        THEN [f EXCEPT !.events = Append(@, event)]
        ELSE f

AssignPending(f, p, type) ==
    IF f.pending[p] = {} THEN f
    ELSE [f EXCEPT
            !.callback[type] =
                [pid |-> p,
                 change |-> IF "change" \in f.pending[p] THEN p ELSE NoPid,
                 lost   |-> IF "lost" \in f.pending[p] THEN p ELSE NoPid],
            !.pending[p] = {}]

\* Fault: music gets the focus back and is not told.
RestoreMusicSilently(f) ==
    Unsuspend(SetOwner(f, "music", f.suspended, f.suspendedRef))

RestoreMusic(f) ==
    Enqueue(Unsuspend(SetOwner(f, "music", f.suspended, f.suspendedRef)), "gain")

\* A dead owner makes room: for suspended music, or for anybody.
DeadOwner(f) == f.owner # "idle" /\ ~Alive(f.pid)

ReclaimOwner(f) ==
    IF ~DeadOwner(f) THEN f
    ELSE IF f.owner = "ai" /\ Alive(f.suspended)
    THEN RestoreMusic(f)
    ELSE Unsuspend(SetOwner(f, "idle", NoPid, 0))

ReclaimSuspended(f) == IF Alive(f.suspended) THEN f ELSE Unsuspend(f)

\* Fault: the callbacks of the dead stay.
ReclaimPending(f) ==
    [f EXCEPT !.pending = [p \in Pids |-> IF Alive(p) THEN f.pending[p] ELSE {}]]

ReclaimSlots(f) ==
    [f EXCEPT
        !.callback = [y \in Types |->
            IF Alive(f.callback[y].pid) THEN f.callback[y] ELSE EmptySlot],
        !.pending = [p \in Pids |-> IF Alive(p) THEN f.pending[p] ELSE {}]]

ClearDead(f) == ReclaimSlots(ReclaimSuspended(ReclaimOwner(f)))

-----------------------------------------------------------------------------
(***************************************************************************)
(* Calls.  Cleared is the state each of them starts from.                  *)
(***************************************************************************)
Cleared == ClearDead(focus)

\* For the properties: who misses the word to go on, which finds the queue
\* full or only a callback for losses, and who misses it in a call's clearing.
AfterGain(f, m) ==
    LET slot == f.callback["music"]
    IN  IF slot.pid # NoPid /\ (QueueFull(f) \/ slot.change = NoPid)
        THEN m \cup {slot.pid} ELSE m \ {slot.pid}

Missed ==
    IF DeadOwner(focus) /\ focus.owner = "ai" /\ Alive(focus.suspended)
    THEN AfterGain(focus, missed) ELSE missed

Uses(p, type) == Alive(p) /\ type \in TypesOf[p]

Granted(p, type) ==
    wants' = [wants EXCEPT ![p] = IF type = "ai" THEN @ + 1 ELSE @]

\* audio_focus_request_ex: nobody has the focus.
RequestIdle(p, type) ==
    LET f == AssignPending(Cleared, p, type)
    IN  /\ Uses(p, type)
        /\ f.owner = "idle"
        /\ focus' = SetOwner(f, type, p, 1)
        /\ Granted(p, type)
        /\ missed' = Missed
        /\ UNCHANGED <<life, batch, told>>

\* Fault: the second request is granted and not counted.
RequestAgainUncounted(p, type) ==
    LET f == AssignPending(Cleared, p, type)
    IN  /\ Uses(p, type) /\ f.ref < MaxRef
        /\ f.owner = type /\ f.pid = p
        /\ focus' = f
        /\ Granted(p, type)
        /\ missed' = Missed
        /\ UNCHANGED <<life, batch, told>>

\* ... this process has it already.
RequestAgain(p, type) ==
    LET f == AssignPending(Cleared, p, type)
    IN  /\ Uses(p, type) /\ f.ref < MaxRef
        /\ f.owner = type /\ f.pid = p
        /\ focus' = [f EXCEPT !.ref = @ + 1]
        /\ Granted(p, type)
        /\ missed' = Missed
        /\ UNCHANGED <<life, batch, told>>

\* ... another process of the type has it, or the assistant has.
RequestBusy(p, type) ==
    LET f == AssignPending(Cleared, p, type)
    IN  /\ Uses(p, type)
        /\ \/ f.owner = type /\ f.pid # p
           \/ f.owner = "ai" /\ type = "music"
        /\ focus' = f
        /\ missed' = Missed
        /\ UNCHANGED <<life, batch, told, wants>>

\* ... music has it: the assistant takes it, for a while or for good.
Preempt(p, transient) ==
    LET f == AssignPending(Cleared, p, "ai")
        g == IF transient
             THEN Enqueue([f EXCEPT !.suspended = f.pid, !.suspendedRef = f.ref],
                          "loss transient")
             ELSE Enqueue(Unsuspend(f), "loss")
    IN  /\ Uses(p, "ai")
        /\ f.owner = "music"
        /\ focus' = AssignPending(SetOwner(g, "ai", p, 1), p, "ai")
        /\ Granted(p, "ai")
        /\ missed' = IF /\ f.callback["music"].pid = f.pid
                        /\ CanHear(f) /\ ~QueueFull(f)
                     THEN Missed \ {f.pid} ELSE Missed \cup {f.pid}
        /\ UNCHANGED <<life, batch, told>>

\* audio_focus_release: without the focus nothing happens.
Released(p, type) ==
    wants' = [wants EXCEPT ![p] = IF type = "ai" /\ @ > 0 THEN @ - 1 ELSE @]

ReleaseNothing(p, type) ==
    /\ Uses(p, type)
    /\ Cleared.owner # type \/ Cleared.pid # p
    /\ focus' = Cleared
    /\ Released(p, type)
    /\ missed' = Missed
    /\ UNCHANGED <<life, batch, told>>

ReleaseOne(p, type) ==
    /\ Uses(p, type)
    /\ Cleared.owner = type /\ Cleared.pid = p /\ Cleared.ref > 1
    /\ focus' = [Cleared EXCEPT !.ref = @ - 1]
    /\ Released(p, type)
    /\ missed' = Missed
    /\ UNCHANGED <<life, batch, told>>

ReleaseLast(p, type) ==
    LET restores == type = "ai" /\ Alive(Cleared.suspended)
    IN  /\ Uses(p, type)
        /\ Cleared.owner = type /\ Cleared.pid = p /\ Cleared.ref <= 1
        /\ focus' = IF restores THEN RestoreMusic(Cleared)
                    ELSE Unsuspend(SetOwner(Cleared, "idle", NoPid, 0))
        /\ Released(p, type)
        /\ missed' = IF restores THEN AfterGain(Cleared, Missed) ELSE Missed
        /\ UNCHANGED <<life, batch, told>>

\* audio_focus_get_owner clears up as every call does.
GetOwner(p) ==
    /\ Alive(p)
    /\ focus' = Cleared
    /\ missed' = Missed
    /\ UNCHANGED <<life, batch, told, wants>>

\* audio_focus_register_change_cb and audio_focus_register_lost_cb: in the
\* owner's slot, in a slot the process has already, or kept for later.
SlotsOf(f, p) == {y \in Types : f.callback[y].pid = p}

FirstSlot(f, p) == IF "ai" \in SlotsOf(f, p) THEN "ai" ELSE "music"

HasPending(f) == {q \in Pids : f.pending[q] # {}}

\* The slot with one callback of process p set.
Filled(slot, p, kind) ==
    [pid |-> p,
     change |-> IF kind = "change" THEN p ELSE slot.change,
     lost   |-> IF kind = "lost" THEN p ELSE slot.lost]

RegisterCallback(p, kind) ==
    LET f == Cleared
        owns == f.owner # "idle" /\ f.pid = p
        type == IF owns THEN f.owner ELSE FirstSlot(f, p)
    IN  /\ Alive(p) /\ kind \in Registers[p]
        /\ focus' =
             IF owns \/ SlotsOf(f, p) # {}
             THEN [f EXCEPT !.callback[type] = Filled(f.callback[type], p, kind)]
             ELSE IF p \in HasPending(f) \/ Cardinality(HasPending(f)) < PendingSlots
             THEN [f EXCEPT !.pending[p] = f.pending[p] \cup {kind}]
             ELSE f
        /\ missed' = Missed
        /\ UNCHANGED <<life, batch, told, wants>>

-----------------------------------------------------------------------------
(***************************************************************************)
(* The worker and the processes' lives.                                    *)
(***************************************************************************)
\* Fault: the worker does not look after the dead.
DrainOnly ==
    /\ batch = <<>>
    /\ batch' = focus.events
    /\ focus' = [focus EXCEPT !.events = <<>>]
    /\ UNCHANGED <<life, told, wants, missed>>

Drain ==
    /\ batch = <<>>
    /\ batch' = Cleared.events
    /\ focus' = [Cleared EXCEPT !.events = <<>>]
    /\ missed' = Missed
    /\ UNCHANGED <<life, told, wants>>

\* The change callback is called for every change, the other only for losses.
Reaches(e) == "change" \in e.calls \/ ("lost" \in e.calls /\ e.change # "gain")

Tell ==
    /\ batch # <<>>
    /\ batch' = Tail(batch)
    /\ told' = LET e == Head(batch)
               IN  IF Alive(e.pid) /\ Reaches(e)
                   THEN [told EXCEPT ![e.pid] = e.change] ELSE told
    /\ UNCHANGED <<focus, life, wants, missed>>

\* In the product one process at a time plays music; any number may speak.
Born(p) ==
    /\ life[p] = "new"
    /\ "music" \in TypesOf[p] =>
           \A q \in Pids : Alive(q) => "music" \notin TypesOf[q]
    /\ life' = [life EXCEPT ![p] = "alive"]
    /\ UNCHANGED <<focus, batch, told, wants, missed>>

Dies(p) ==
    /\ Alive(p)
    /\ life' = [life EXCEPT ![p] = "dead"]
    /\ wants' = [wants EXCEPT ![p] = 0]
    /\ told' = [told EXCEPT ![p] = "nothing"]
    /\ missed' = missed \ {p}
    /\ UNCHANGED <<focus, batch>>

Worker == Drain \/ Tell

Request(p, type) ==
    \/ RequestIdle(p, type) \/ RequestAgain(p, type) \/ RequestBusy(p, type)
    \/ type = "ai" /\ \E transient \in BOOLEAN : Preempt(p, transient)

Release(p, type) ==
    ReleaseNothing(p, type) \/ ReleaseOne(p, type) \/ ReleaseLast(p, type)

FocusNext ==
    \/ Worker
    \/ \E p \in Pids :
        \/ Born(p) \/ Dies(p) \/ GetOwner(p)
        \/ \E kind \in Kinds : RegisterCallback(p, kind)
        \/ \E type \in Types : Request(p, type) \/ Release(p, type)

FocusSpec == FocusInit /\ [][FocusNext]_focusVars

\* The worker runs every 100 ms and callbacks return.
FocusFairSpec == FocusSpec /\ WF_focusVars(Worker)

-----------------------------------------------------------------------------
Slot == [pid : Pids \cup {NoPid}, change : Pids \cup {NoPid}, lost : Pids \cup {NoPid}]
Event == [pid : Pids, change : {"gain", "loss", "loss transient"},
          calls : SUBSET Kinds]

FocusState ==
    [owner : Types \cup {"idle"}, pid : Pids \cup {NoPid}, ref : 0 .. MaxRef,
     suspended : Pids \cup {NoPid}, suspendedRef : 0 .. MaxRef,
     callback : [Types -> Slot], pending : [Pids -> SUBSET Kinds],
     events : Seq(Event)]

FocusTypeOK ==
    /\ focus \in FocusState /\ batch \in Seq(Event)
    /\ Len(focus.events) <= EventQueue /\ Len(batch) <= EventQueue
    /\ life \in [Pids -> {"new", "alive", "dead"}]
    /\ told \in [Pids -> {"nothing", "gain", "loss", "loss transient"}]
    /\ wants \in [Pids -> 0 .. MaxRef]
    /\ missed \subseteq Pids

(***************************************************************************)
(* The service counts what its users hold.  A living assistant that asked  *)
(* more often than it released has the focus, whatever music asked, died   *)
(* or released in between, and has it exactly that often; music is         *)
(* suspended only beneath an assistant.                                    *)
(***************************************************************************)
Counted ==
    /\ \A p \in Pids :
          wants[p] > 0 => /\ focus.owner = "ai" /\ focus.pid = p
                          /\ focus.ref = wants[p]
    /\ focus.suspended # NoPid => focus.owner = "ai" /\ focus.suspendedRef > 0
    /\ focus.owner = "idle" <=> focus.pid = NoPid
    /\ focus.ref = 0 <=> focus.owner = "idle"

\* The callbacks of a slot are all of the process the slot names, so none of
\* a dead process is called.
OwnCallbacks ==
    \A y \in Types : LET slot == focus.callback[y]
                     IN  {slot.change, slot.lost} \subseteq {slot.pid, NoPid}

\* What process p hears last, once the events that are queued are handled.
Says(queued, p, change) ==
    LET mine == {k \in DOMAIN queued : queued[k].pid = p /\ Reaches(queued[k])}
    IN  \/ mine = {} /\ told[p] = change
        \/ \E k \in mine : queued[k].change = change /\ \A j \in mine : j <= k

(***************************************************************************)
(* What a living player is told is what happened.  It was told to pause    *)
(* exactly when it is suspended and will be resumed, unless the last       *)
(* change did not reach it: it had no callback then, only the one for      *)
(* losses when it got the focus back, or the event found the queue full.   *)
(***************************************************************************)
Informed ==
    \A p \in Pids : Alive(p) /\ p \notin missed =>
        (Says(batch \o focus.events, p, "loss transient") <=> focus.suspended = p)

\* Kconfig:42: the owner is watched.  A focus whose owner died is free again
\* or with a living process, though nobody calls the service.
DeadOwnerReclaimed == DeadOwner(focus) ~> ~DeadOwner(focus)
=============================================================================
