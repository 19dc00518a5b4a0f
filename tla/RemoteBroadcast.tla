--------------------------- MODULE RemoteBroadcast ---------------------------
(***************************************************************************)
(* Broadcasts from the server on their way to the screen: the three rings  *)
(* of core/eca_client_remote_broadcast.c, which drop their oldest entry    *)
(* when full, and the plan observer of core/eca_client_plan_observer.c,    *)
(* which the plan handler feeds and the UI timer polls.                    *)
(*                                                                         *)
(* Threads: submitters (the dispatcher thread; alert_submit and            *)
(* plan_submit allow others), the UI thread, and whoever pops.  One action *)
(* is one critical section of g_remote_broadcast.lock or of                *)
(* g_plan_observer.lock.                                                   *)
(***************************************************************************)
EXTENDS Integers, Sequences

CONSTANTS
    QueueSize,       \* ECA_CLIENT_REMOTE_BROADCAST_QUEUE_SIZE
    Submitters,
    MaxBroadcasts,   \* bound on the number of broadcasts
    NULL

ASSUME BroadcastAssumption ==
    /\ QueueSize \in Nat \ {0}
    /\ MaxBroadcasts \in Nat

Queues == {"all", "alert", "plan"}
Kinds  == {"message", "alert", "plan"}
Slots  == 0 .. QueueSize - 1

\* A broadcast with a text, told apart by the order of submission.
Items == [seq : 1 .. MaxBroadcasts, kind : Kinds]

ASSUME NullAssumption == NULL \notin Items

Targets(b) == {"all"} \cup (IF b.kind = "message" THEN {} ELSE {b.kind})

VARIABLES
    queues,      \* g_remote_broadcast.{all,alert,plan}_queue
    handler,     \* a plan handler is installed
    submitted,   \* how many broadcasts were submitted
    pc, job,     \* submitters: what they are about to hand to the handler
    pending,     \* g_plan_observer.pending
    latest,      \* g_plan_observer.latest_title and latest_text
    ui, ui_text, \* the UI thread inside plan_observer_poll, and its copy
    shown        \* the reminder in the model

observer == <<pending, latest>>
screen   == <<ui, ui_text, shown>>
vars == <<queues, handler, submitted, pc, job, observer, screen>>

NoPlan == 0    \* the text shown when there is no plan

-----------------------------------------------------------------------------
(***************************************************************************)
(* The ring.                                                               *)
(***************************************************************************)
EmptyRing == [items |-> [i \in Slots |-> NULL],
              read_index |-> 0, write_index |-> 0, count |-> 0]

\* Fault: the freed entry stays in its slot.
DropOldestDangling(r) ==
    [r EXCEPT !.read_index = (r.read_index + 1) % QueueSize,
              !.count = r.count - 1]

\* free(items[read_index]) and move on: pop, and the full ring.
DropOldest(r) ==
    [r EXCEPT !.items = [r.items EXCEPT ![r.read_index] = NULL],
              !.read_index = (r.read_index + 1) % QueueSize,
              !.count = r.count - 1]

Store(r, b) ==
    [r EXCEPT !.items = [r.items EXCEPT ![r.write_index] = b],
              !.write_index = (r.write_index + 1) % QueueSize,
              !.count = r.count + 1]

\* Fault: a full ring overwrites its oldest entry, the read cursor stays.
PushOverwrites(r, b) ==
    IF r.count = QueueSize THEN [Store(r, b) EXCEPT !.count = QueueSize]
    ELSE Store(r, b)

Push(r, b) == IF r.count = QueueSize THEN Store(DropOldest(r), b)
              ELSE Store(r, b)

RingIx(r, k) == (r.read_index + k) % QueueSize

\* What the ring holds, oldest first.
Contents(r) == [k \in 1 .. r.count |-> r.items[RingIx(r, k - 1)]]

-----------------------------------------------------------------------------
Init ==
    /\ queues = [q \in Queues |-> EmptyRing]
    /\ handler = FALSE
    /\ submitted = 0
    /\ pc = [s \in Submitters |-> "idle"]
    /\ job = [s \in Submitters |-> NoPlan]
    /\ pending = FALSE
    /\ latest = NoPlan
    /\ ui = "idle"
    /\ ui_text = NoPlan
    /\ shown = NoPlan

\* plan_observer_init, from main.
ObserverInit ==
    /\ ~handler
    /\ handler' = TRUE
    /\ latest' = NoPlan
    /\ UNCHANGED <<queues, submitted, pc, job, pending, screen>>

\* A push whose malloc fails is skipped silently; the submitter takes the
\* handler along when it drops the lock.
Submit(s, kind) ==
    LET b == [seq |-> submitted + 1, kind |-> kind] IN
    /\ pc[s] = "idle"
    /\ submitted < MaxBroadcasts
    /\ submitted' = submitted + 1
    /\ \E reached \in SUBSET Targets(b) :
         queues' = [q \in Queues |-> IF q \in reached THEN Push(queues[q], b)
                                     ELSE queues[q]]
    /\ IF kind = "plan" /\ handler
       THEN /\ pc' = [pc EXCEPT ![s] = "handler"]
            /\ job' = [job EXCEPT ![s] = b.seq]
       ELSE UNCHANGED <<pc, job>>
    /\ UNCHANGED <<handler, observer, screen>>

Pop(q) ==
    /\ queues[q].count > 0
    /\ queues' = [queues EXCEPT ![q] = DropOldest(queues[q])]
    /\ UNCHANGED <<handler, submitted, pc, job, observer, screen>>

\* The plan handler, outside the broadcast lock.  It also asks for the plan
\* to be spoken and ignores the result.
OnPlan(s) ==
    /\ pc[s] = "handler"
    /\ latest' = job[s]
    /\ pending' = TRUE
    /\ pc' = [pc EXCEPT ![s] = "idle"]
    /\ UNCHANGED <<queues, handler, submitted, job, screen>>

\* Fault: only a screen without a plan is updated.
PollTakesOnlyFirst ==
    /\ ui = "idle"
    /\ pending
    /\ shown = NoPlan
    /\ ui' = "show"
    /\ ui_text' = latest
    /\ pending' = FALSE
    /\ UNCHANGED <<queues, handler, submitted, pc, job, latest, shown>>

\* plan_observer_poll: copy and clear under the lock ...
PollTakes ==
    /\ ui = "idle"
    /\ pending
    /\ ui' = "show"
    /\ ui_text' = latest
    /\ pending' = FALSE
    /\ UNCHANGED <<queues, handler, submitted, pc, job, latest, shown>>

\* ... and show after it.
PollShows ==
    /\ ui = "show"
    /\ shown' = ui_text
    /\ ui' = "idle"
    /\ UNCHANGED <<queues, handler, submitted, pc, job, observer, ui_text>>

Next ==
    \/ ObserverInit
    \/ \E s \in Submitters : OnPlan(s) \/ \E kind \in Kinds : Submit(s, kind)
    \/ \E q \in Queues : Pop(q)
    \/ PollTakes \/ PollShows

\* The UI timer fires every 200 ms; a submitter finishes its call.
Fairness ==
    /\ WF_vars(PollTakes \/ PollShows)
    /\ \A s \in Submitters : WF_vars(OnPlan(s))

Spec == Init /\ [][Next]_vars

FairSpec == Spec /\ Fairness

-----------------------------------------------------------------------------
(***************************************************************************)
(* Properties.                                                             *)
(***************************************************************************)
Ring == [items : [Slots -> Items \cup {NULL}], read_index : Slots,
         write_index : Slots, count : 0 .. QueueSize]

Texts == 0 .. MaxBroadcasts

\* The cursors of all three rings stay inside their arrays, and the rest has
\* its type.
TypeOK ==
    /\ queues \in [Queues -> Ring]
    /\ handler \in BOOLEAN
    /\ submitted \in Texts
    /\ pc \in [Submitters -> {"idle", "handler"}]
    /\ job \in [Submitters -> Texts]
    /\ pending \in BOOLEAN
    /\ latest \in Texts
    /\ ui \in {"idle", "show"}
    /\ ui_text \in Texts
    /\ shown \in Texts

\* A slot holds an entry exactly when it lies between the cursors: pop and
\* the full ring free what was allocated, once, and never follow NULL.
NothingDangles ==
    \A q \in Queues : \A i \in Slots :
        queues[q].items[i] # NULL <=>
            \E k \in 0 .. queues[q].count - 1 : i = RingIx(queues[q], k)

\* No plan is lost between the handler and the screen: when no poll is under
\* way and none is due, the screen shows the latest plan.
NoPlanLost == ~pending /\ ui = "idle" => shown = latest

Inbox == [q \in Queues |-> Contents(queues[q])]

Service == INSTANCE BroadcastService
             WITH Capacity <- QueueSize, inbox <- Inbox

\* The rings implement queues that keep the newest QueueSize broadcasts in
\* order, under any mix of submitters and readers.
KeepsNewest == Service!InboxSpec

\* The plan the observer holds reaches the screen unless a later one
\* replaces it.
PlanIsShown ==
    \A n \in 1 .. MaxBroadcasts : latest = n ~> (shown = n \/ latest # n)
=============================================================================
