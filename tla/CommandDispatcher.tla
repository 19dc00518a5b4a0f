------------------------- MODULE CommandDispatcher -------------------------
(***************************************************************************)
(* The remote-command dispatcher of EcaClient                              *)
(* (core/eca_client_command_dispatcher.c): a ring of received payloads, a  *)
(* ring of handled command ids that makes redelivery harmless, the         *)
(* dispatcher thread that serves one payload at a time, and the start and  *)
(* stop calls of the network module.                                       *)
(*                                                                         *)
(* Threads and what they run here:                                         *)
(*   network thread     Enqueue, UpdateDeviceId                            *)
(*   dispatcher thread  Pop, CheckDevice, Screen, Handle, Ack, Reack,      *)
(*                      Speak, Mark, Return                                *)
(*   main thread        Start, StopBegin, StopEnd                          *)
(*   the world          PowerLoss; the server may send any message at any  *)
(*                      time and any number of times                       *)
(*                                                                         *)
(* One action is one critical section of g_dispatcher.lock, or one call    *)
(* that another thread or the server can observe.                          *)
(***************************************************************************)
EXTENDS Integers, Sequences, FiniteSets

CONSTANTS
    QueueSize,    \* ECA_CLIENT_COMMAND_QUEUE_SIZE
    HandledSize,  \* ECA_CLIENT_HANDLED_COMMANDS
    Ids,          \* command_id values
    Stored,       \* what snprintf leaves of an id in char command_id[64]
    EmptyString,  \* "", the content of a zeroed char array
    DeviceIds,    \* device ids: [text : spelling, mac : 12 digits or NoMac]
    OwnIds,       \* the ids this device may give itself
    NoMac,        \* the id is not 12 hexadecimal digits
    Messages,     \* payloads the server may publish
    NoMessage     \* the dispatcher thread holds no payload

Types == {"play_message", "sync_plan", "notify_alert", "set_volume",
          "complete_registration", "unsupported"}

Statuses == {"none", "success", "rejected", "expired"}

(***************************************************************************)
(* A payload, abstracted to what eca_client_command_process asks of it:    *)
(* is it short enough for a queue slot, does it parse and have its three   *)
(* required strings, whom is it for, is the "payload" object complete for  *)
(* its type, does it carry expires_at.                                     *)
(***************************************************************************)
MessageType ==
    [id : Ids, fits : BOOLEAN, parses : BOOLEAN, device : DeviceIds,
     type : Types, complete : BOOLEAN, deadline : BOOLEAN]

ASSUME SizeAssumption ==
    /\ QueueSize \in Nat \ {0}
    /\ HandledSize \in Nat \ {0}

(***************************************************************************)
(* An id of up to 63 characters is stored as it is.  A longer one is cut,  *)
(* to something that fits; several long ids, and one that was short from   *)
(* the start, may share their beginning.                                   *)
(***************************************************************************)
ASSUME IdAssumption ==
    /\ Stored \in [Ids -> Ids]
    /\ \A id \in Ids : Stored[Stored[id]] = Stored[id]

ASSUME MessageAssumption ==
    /\ Messages \subseteq MessageType
    /\ NoMessage \notin Messages
    /\ EmptyString \in Ids
    /\ OwnIds \subseteq DeviceIds

VARIABLES
    initialized, running, device_id,            \* g_dispatcher
    queue, read_index, write_index, count,      \* the ring of payloads
    handled, handled_index,                     \* the ring of handled ids
    pc,       \* where the dispatcher thread is
    job,      \* the payload it has popped
    verdict,  \* the status it is going to acknowledge
    stopping, \* the main thread is inside eca_client_command_dispatcher_stop
    acks,     \* history: acknowledgements sent for the current job
    execs,    \* history: how often a command took effect (0, 1, 2 = more)
    age       \* history: mark_handled calls since the id was last marked,
              \* HandledSize = as many or more, or never

queueVars   == <<queue, read_index, write_index, count>>
handledVars == <<handled, handled_index>>
history     == <<acks, execs, age>>
vars == <<initialized, running, device_id, queueVars, handledVars,
          pc, job, verdict, stopping, history>>

Slots     == 0 .. QueueSize - 1
HandledIx == 0 .. HandledSize - 1
PCs == {"off", "pop", "asleep", "match", "screen", "handle", "ack", "reack",
        "speak", "mark", "return", "exited"}

EmptyDevice == [text |-> EmptyString, mac |-> NoMac]
ZeroEntry == [id |-> EmptyString, status |-> "none"]

-----------------------------------------------------------------------------
(***************************************************************************)
(* Helpers of the dispatcher thread.                                       *)
(***************************************************************************)
DeviceMatches(d) ==
    \/ d.text = device_id.text
    \/ d.mac # NoMac /\ device_id.mac # NoMac /\ d.mac = device_id.mac

\* Fault: the loop stops one slot short.
FindHandledShort(id) == {i \in HandledIx \ {HandledSize - 1} : handled[i].id = id}

\* Fault: any occupied slot matches.
FindHandledAny(id) == {i \in HandledIx : handled[i].id # EmptyString}

\* The whole id is compared with the stored ones.
FindHandled(id) == {i \in HandledIx : handled[i].id = id}

\* The loop returns the first matching slot, not the newest one.
FirstHandled(id, i) ==
    i \in FindHandled(id) /\ \A j \in FindHandled(id) : i <= j

MarkHandled(id, status) ==
    /\ handled' = [handled EXCEPT ![handled_index] =
                      [id |-> Stored[id], status |-> status]]
    /\ handled_index' = (handled_index + 1) % HandledSize
    /\ age' = [c \in Ids |-> IF c = id THEN 0
                             ELSE IF age[c] < HandledSize THEN age[c] + 1
                             ELSE HandledSize]

\* Fault: the signal is forgotten.
SignalNobody == pc' = pc

\* pthread_cond_signal: wakes the dispatcher thread if it waits in pop.
Signal == pc' = IF pc = "asleep" THEN "pop" ELSE pc

\* g_dispatcher in .bss, before the first start.
Init ==
    /\ initialized = FALSE
    /\ running = FALSE
    /\ device_id = EmptyDevice
    /\ queue = [i \in Slots |-> NoMessage]
    /\ read_index = 0
    /\ write_index = 0
    /\ count = 0
    /\ handled = [i \in HandledIx |-> ZeroEntry]
    /\ handled_index = 0
    /\ pc = "off"
    /\ job = NoMessage
    /\ verdict = "none"
    /\ stopping = FALSE
    /\ acks = 0
    /\ execs = [c \in Ids |-> 0]
    /\ age = [c \in Ids |-> HandledSize]

\* memset(&g_dispatcher, 0, ...), and a thread that no longer exists.
Zero ==
    /\ initialized' = FALSE
    /\ running' = FALSE
    /\ device_id' = EmptyDevice
    /\ queue' = [i \in Slots |-> NoMessage]
    /\ read_index' = 0
    /\ write_index' = 0
    /\ count' = 0
    /\ handled' = [i \in HandledIx |-> ZeroEntry]
    /\ handled_index' = 0
    /\ pc' = "off"
    /\ job' = NoMessage
    /\ verdict' = "none"
    /\ stopping' = FALSE
    /\ acks' = 0
    /\ execs' = [c \in Ids |-> 0]
    /\ age' = [c \in Ids |-> HandledSize]

-----------------------------------------------------------------------------
(***************************************************************************)
(* eca_client_command_dispatcher_start, called by network_start before the *)
(* network thread exists.  A failing pthread call leaves it not running.   *)
(***************************************************************************)
Start(d) ==
    /\ ~initialized
    /\ device_id' = d
    /\ \/ /\ running' = TRUE
          /\ initialized' = TRUE
          /\ pc' = "pop"
       \/ UNCHANGED <<running, initialized, pc>>
    /\ UNCHANGED <<queueVars, handledVars, job, verdict, stopping, history>>

\* The value eca_client_command_dispatcher_enqueue returns for payload m.
EnqueueResult(m) ==
    CASE ~m.fits           -> "EINVAL"
      [] m.fits /\ ~running -> "ENODEV"
      [] m.fits /\ running /\ count = QueueSize -> "ENOSPC"
      [] OTHER             -> "ok"

\* An accepted payload; a refused one leaves the dispatcher as it is.
Enqueue(m) ==
    /\ EnqueueResult(m) = "ok"
    /\ queue' = [queue EXCEPT ![write_index] = m]
    /\ write_index' = (write_index + 1) % QueueSize
    /\ count' = count + 1
    /\ Signal
    /\ UNCHANGED <<initialized, running, device_id, read_index, handledVars,
                   job, verdict, stopping, history>>

UpdateDeviceId(d) ==
    /\ initialized
    /\ device_id' = d
    /\ UNCHANGED <<initialized, running, queueVars, handledVars, pc, job,
                   verdict, stopping, history>>

-----------------------------------------------------------------------------
(***************************************************************************)
(* The dispatcher thread: while (pop(payload)) process(payload).           *)
(***************************************************************************)
PopWaits ==
    /\ pc = "pop" /\ running /\ count = 0
    /\ pc' = "asleep"
    /\ UNCHANGED <<initialized, running, device_id, queueVars, handledVars,
                   job, verdict, stopping, history>>

\* Fault: the newest payload is taken, the oldest is dropped from the ring.
PopTakesNewest ==
    /\ pc = "pop" /\ count > 0
    /\ job' = queue[(write_index + QueueSize - 1) % QueueSize]
    /\ read_index' = (read_index + 1) % QueueSize
    /\ count' = count - 1
    /\ pc' = "match"
    /\ acks' = 0
    /\ UNCHANGED <<initialized, running, device_id, queue, write_index,
                   handledVars, verdict, stopping, execs, age>>

PopTakes ==
    /\ pc = "pop" /\ count > 0
    /\ job' = queue[read_index]
    /\ read_index' = (read_index + 1) % QueueSize
    /\ count' = count - 1
    /\ pc' = "match"
    /\ acks' = 0
    /\ UNCHANGED <<initialized, running, device_id, queue, write_index,
                   handledVars, verdict, stopping, execs, age>>

PopExits ==
    /\ pc = "pop" /\ ~running /\ count = 0
    /\ pc' = "exited"
    /\ UNCHANGED <<initialized, running, device_id, queueVars, handledVars,
                   job, verdict, stopping, history>>

\* Leaves eca_client_command_process.
Done ==
    /\ pc' = "pop"
    /\ job' = NoMessage
    /\ verdict' = "none"

\* A payload that does not parse, lacks a field or is for another device is
\* dropped without an acknowledgement.
CheckDevice ==
    /\ pc = "match"
    /\ \/ /\ job.parses /\ DeviceMatches(job.device)
          /\ pc' = "screen"
          /\ UNCHANGED <<job, verdict>>
       \/ /\ ~(job.parses /\ DeviceMatches(job.device))
          /\ Done
    /\ UNCHANGED <<initialized, running, device_id, queueVars, handledVars,
                   stopping, history>>

\* The expiry test reads the wall clock, which the device may set at any
\* time: a command with expires_at may be found expired or not.  It comes
\* before the duplicate test.
Screen ==
    /\ pc = "screen"
    /\ \/ /\ job.deadline
          /\ verdict' = "expired"
          /\ pc' = "ack"
       \/ /\ \E i \in HandledIx : /\ FirstHandled(job.id, i)
                                 /\ verdict' = handled[i].status
          /\ pc' = "reack"
       \/ /\ FindHandled(job.id) = {}
          /\ pc' = "handle"
          /\ UNCHANGED verdict
    /\ UNCHANGED <<initialized, running, device_id, queueVars, handledVars,
                   job, stopping, history>>

\* The handler up to its acknowledgement: the payload is refused, the
\* service behind it fails, or the command takes effect.
Handle ==
    /\ pc = "handle"
    /\ \/ /\ \/ job.type = "unsupported"
             \/ job.type # "complete_registration" /\ ~job.complete
             \/ job.type \notin {"complete_registration", "unsupported"}
          /\ verdict' = "rejected"
          /\ UNCHANGED execs
       \/ /\ job.type # "unsupported"
          /\ job.complete \/ job.type = "complete_registration"
          /\ verdict' = "success"
          /\ execs' = [execs EXCEPT ![job.id] = IF @ = 0 THEN 1 ELSE 2]
    /\ pc' = "ack"
    /\ UNCHANGED <<initialized, running, device_id, queueVars, handledVars,
                   job, stopping, acks, age>>

\* ack_cb: publishes the verdict.
Ack ==
    /\ pc = "ack"
    /\ acks' = acks + 1
    /\ pc' = IF verdict = "success" /\ job.type = "play_message"
             THEN "speak" ELSE "mark"
    /\ UNCHANGED <<initialized, running, device_id, queueVars, handledVars,
                   job, verdict, stopping, execs, age>>

Reack ==
    /\ pc = "reack"
    /\ acks' = acks + 1
    /\ pc' = "return"
    /\ UNCHANGED <<initialized, running, device_id, queueVars, handledVars,
                   job, verdict, stopping, execs, age>>

\* play_message asks the voice agent to read the text after acknowledging
\* it, and ignores the result.
Speak ==
    /\ pc = "speak"
    /\ pc' = "mark"
    /\ UNCHANGED <<initialized, running, device_id, queueVars, handledVars,
                   job, verdict, stopping, history>>

Mark ==
    /\ pc = "mark"
    /\ MarkHandled(job.id, verdict)
    /\ pc' = "return"
    /\ UNCHANGED <<initialized, running, device_id, queueVars, job, verdict,
                   stopping, acks, execs>>

Return ==
    /\ pc = "return"
    /\ Done
    /\ UNCHANGED <<initialized, running, device_id, queueVars, handledVars,
                   stopping, history>>

-----------------------------------------------------------------------------
(***************************************************************************)
(* eca_client_command_dispatcher_stop: signal, join, zero.                 *)
(***************************************************************************)
StopBegin ==
    /\ initialized /\ ~stopping
    /\ running' = FALSE
    /\ stopping' = TRUE
    /\ Signal
    /\ UNCHANGED <<initialized, device_id, queueVars, handledVars, job,
                   verdict, history>>

StopEnd ==
    /\ stopping /\ pc = "exited"
    /\ Zero

PowerLoss == Zero

DispatcherThread ==
    \/ PopWaits \/ PopTakes \/ PopExits \/ CheckDevice \/ Screen \/ Handle
    \/ Ack \/ Reack \/ Speak \/ Mark \/ Return

Next ==
    \/ \E d \in OwnIds : Start(d) \/ UpdateDeviceId(d)
    \/ \E m \in Messages : Enqueue(m)
    \/ DispatcherThread
    \/ StopBegin \/ StopEnd \/ PowerLoss

Spec == Init /\ [][Next]_vars

\* The scheduler runs a runnable dispatcher thread; join returns.
FairSpec == Spec /\ WF_vars(DispatcherThread) /\ WF_vars(StopEnd)

-----------------------------------------------------------------------------
(***************************************************************************)
(* Properties.                                                             *)
(***************************************************************************)

\* Type invariant of g_dispatcher, its thread and the history variables.
TypeOK ==
    /\ initialized \in BOOLEAN /\ running \in BOOLEAN /\ stopping \in BOOLEAN
    /\ device_id \in OwnIds \cup {EmptyDevice}
    /\ queue \in [Slots -> Messages \cup {NoMessage}]
    /\ read_index \in Slots /\ write_index \in Slots
    /\ count \in 0 .. QueueSize
    /\ handled \in [HandledIx -> [id : Ids, status : Statuses]]
    /\ handled_index \in HandledIx
    /\ pc \in PCs
    /\ job \in Messages \cup {NoMessage}
    /\ verdict \in Statuses
    /\ acks \in Nat
    /\ execs \in [Ids -> 0 .. 2]
    /\ age \in [Ids -> 0 .. HandledSize]

\* The dispatcher thread never sleeps in pop while there is something for it
\* to do: no signal of enqueue or stop is lost
\* (eca_client_command_pop, _enqueue, _stop).
NoLostWakeup == pc = "asleep" => running /\ count = 0

\* stop joins a thread that has served everything it had accepted: the
\* thread leaves its loop only with an empty queue, and nothing is accepted
\* afterwards.
StopDrains == pc = "exited" => count = 0 /\ ~running /\ job = NoMessage

\* A command whose id is stored as this one took effect since the start.
TookEffect(stored) == \E c \in Ids : Stored[c] = stored /\ execs[c] > 0

\* A first "success" acknowledgement is only sent for a command that took
\* effect since the dispatcher started, a repeated one only for an id under
\* which such a command is stored: this command's own, unless it is the
\* beginning of an id too long for the ring (find_handled, mark_handled).
TruthfulAck ==
    verdict = "success" =>
        /\ pc = "ack" => execs[job.id] > 0
        /\ pc = "reack" => TookEffect(job.id)

\* The handled ring remembers every command of the last HandledSize
\* mark_handled calls, under what is stored of its id, however duplicates
\* and expiries interleave.
WindowRemembers ==
    \A c \in Ids : age[c] < HandledSize => FindHandled(Stored[c]) # {}

\* A redelivered command whose id fits into an entry of the handled ring
\* takes effect again only after HandledSize other marks have pushed it out,
\* or after a restart.  A command with a longer id is never found again, and
\* takes effect every time it is delivered (find_handled, mark_handled).
AtMostOncePerWindow ==
    [][pc = "handle" /\ verdict' = "success" /\ Stored[job.id] = job.id =>
          execs[job.id] = 0 \/ age[job.id] = HandledSize]_vars

(***************************************************************************)
(* The ring, read as the sequence of payloads waiting, oldest first; and   *)
(* the dispatcher as an implementation of CommandService.                  *)
(***************************************************************************)
RingIx(k) == (read_index + k) % QueueSize
Pending == [k \in 1 .. count |-> queue[RingIx(k - 1)]]

Service == INSTANCE CommandService
    WITH Capacity <- QueueSize, open <- running, pending <- Pending,
         serving <- job, answered <- (job # NoMessage /\ acks > 0)

\* The dispatcher thread serves accepted commands in order, one at a time,
\* and answers each at most once.
ImplementsService == Service!ServiceSafety

\* Every accepted command is eventually taken and finished, stop or not.
ServesEveryCommand == Service!ServiceSpec

-----------------------------------------------------------------------------
(***************************************************************************)
(* The inductive invariant behind the theorems of CommandDispatcherProofs. *)
(***************************************************************************)
Busy == {"match", "screen", "handle", "ack", "reack", "speak", "mark",
         "return"}

\* Where the thread is, what it holds and what the flags say agree.
Phases ==
    /\ pc \in Busy => job \in Messages
    /\ pc \notin Busy => job = NoMessage
    /\ pc = "off" <=> ~initialized
    /\ ~initialized => ~running /\ ~stopping /\ count = 0
    /\ initialized => (stopping <=> ~running)
    /\ pc = "asleep" => running /\ count = 0
    /\ pc = "exited" => ~running /\ count = 0
    /\ pc \in {"match", "screen", "handle", "ack", "reack"} => acks = 0

\* The cursors enclose exactly the accepted payloads.
RingInv ==
    /\ write_index = (read_index + count) % QueueSize
    /\ \A k \in 0 .. count - 1 : queue[RingIx(k)] \in Messages

\* How many marks ago slot i was written.
Distance(i) ==
    IF i < handled_index THEN handled_index - 1 - i
                         ELSE handled_index - 1 - i + HandledSize

\* The ring holds the last marks in order, and only truthful successes.
Memory ==
    /\ pc = "handle" => FindHandled(job.id) = {}
    /\ pc \in {"ack", "speak", "mark"} /\ verdict = "success" =>
           execs[job.id] > 0
    /\ pc = "reack" /\ verdict = "success" => TookEffect(job.id)
    /\ \A i \in HandledIx :
           handled[i].status = "success" => TookEffect(handled[i].id)
    /\ \A c \in Ids : age[c] < HandledSize =>
           \E i \in HandledIx :
              handled[i].id = Stored[c] /\ Distance(i) = age[c]

IInv == TypeOK /\ Phases /\ RingInv /\ Memory
=============================================================================
