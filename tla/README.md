# EcaClient: specifications, model checking and proofs

EcaClient (`src/rivotek/apps/EcaClient`) is the application of a companion
device for elderly people, running on openvela (NuttX) on an Allwinner R528.
It is a client of an MQTT server: it receives commands (speak a message, show
today's plan, raise an alarm, set the volume, complete the registration),
acknowledges them, publishes telemetry and alerts, and asks the server
questions. It is brought into a network by a provisioning service that opens a
temporary access point.

It shares the device with `ai_agent`, a voice assistant in a process of its
own, with an audio focus service, and with a service that shows a phone's screen.

The repository contains far more: the vendor's chip and board code (`chips/`,
`boards/`, `lichee/`) and demo applications. This project is about the
application's own logic and the parts of the services in which threads, queues,
files, retries and failures meet. There is no test suite for this code in the
repository.

All TLA+ is in this directory. `PROJECT.json` relates every definition to the
source lines it stands for and lists runs, mutants, findings, hazards and
theorems.

## 1. Inventory

| Component | State | Operations | Who calls it |
|---|---|---|---|
| Command dispatcher (`core/eca_client_command_dispatcher.c`) | ring of 4 payloads, ring of 16 handled ids, device id, `running` | start, enqueue, update_device_id, stop; thread: pop, process, ack, mark | network thread enqueues; main starts and stops; network thread and registration refresh the id |
| MQTT request and response (`core/eca_client_network.c` 751-819, 2180-2332) | `g_pending[4]`, a counter, one lock, one condition | `eca_client_mqtt_request`, `handle_mqtt_response` | any thread asks, the network thread answers |
| MQTT connection (`core/eca_client_network.c` 1270-2015) | `g_net`: `sockfd`, `running`, `thread_started`, publish lock; local copy of the socket in the thread | start, stop, network thread, publish (with HTTP post), notify_wifi_ready | dispatcher, UI and voice threads publish; provisioning notifies |
| Remote broadcasts (`core/eca_client_remote_broadcast.c`) | three rings of 16 allocated entries, a plan handler | submit, pop (all, alert, plan), set handler | dispatcher submits; readers pop |
| Plan observer (`core/eca_client_plan_observer.c`) | latest plan, `pending` flag | handler, poll | dispatcher thread; UI timer |
| Wi-Fi provisioning (`services/provisioning_service`) | session, `g_softap_running`, `g_stop_requested`, `g_session_id` - no lock | start, stop, a worker task per session | UI thread starts; whoever completes the registration stops |
| Registration and QR code (`core/eca_client_registration.c`, `services/qrcode_service`) | `registered`, `qrcode_visible`, `completion_handled`, a flag file; pending QR request | show, poll, complete, status thread | UI timer, dispatcher, provisioning callback |
| Device identity (`core/eca_client_network.c`) | the id in the configuration, in client id and topics, and the dispatcher's copy | refresh before each connection, registration check | network thread, registration thread |
| Speech requests (`core/eca_client_ai_agent.c`, `ai_agent_lib.c`) | request, processing and status file | speak, emergency, idle?; thread: take, speak, report | dispatcher, UI, care timer; ai_agent |
| Voice card and dialog (`ui/eca_client_actions.c`, `ai_agent_lib.c`) | request and status file, state of the card, microphone | press, release, timer; poll thread; outbound thread | UI thread; ai_agent |
| Voice channel (`ai_agent/src/voice/voice_channel.c`) | recording flag, capture, playback, stream, two locks | start, stop, speak; recording thread | poll thread, speaking threads |
| Message bus (`ai_agent/src/core/message_bus.c`) | two bounded queues with condition variables, a shutdown flag | push, push with timeout, pop, shutdown | channels, timers, agent loop, delivering thread |
| Scheduled jobs (`ai_agent/src/infra/cron_service.c`) | table of jobs behind a lock, a file | add, remove, load, save, fire | tools, cron thread |
| Audio focus (`services/audioservice`) | owner and waiting requests per type, callbacks, event queue | request, release, register; worker | any process |
| Care timer (`core/eca_client_main.c` 86-166) | last spoken, condition since, last day | timer callback | UI thread |
| Frame receiver (`services/wifi_display_service/src/rvt_udp_receiver.c`) | frame buffer, cover map, sequence numbers - no lock | init, stop, clear_stream; receiving thread | display service, its TCP thread |
| Time observer, device state, model, screens | single values | get, set, draw | UI thread |

How they interact: the network thread reads a packet and hands it either to
the pending-request table (response topic) or to the dispatcher's ring. The
dispatcher thread executes the command - submitting a broadcast, which in turn
calls the plan observer, or completing the registration - publishes the
acknowledgement over the shared socket and asks `ai_agent` to speak through a
file. The UI thread polls plan observer, registration and QR service with
timers, and drives the voice dialog through two more files. The provisioning
service tells the network thread that Wi-Fi is ready, whereupon the socket is
closed and the thread connects again under the new identity. Inside `ai_agent`
the message bus connects channels, agent loop and speech; both it and music
players ask the audio focus service for the loudspeaker.

What is hard about it:

* signals and condition variables shared by several waiters;
* a socket that is closed by one thread and selected on by another, while the
  kernel hands the number to somebody else;
* answers that arrive after their caller has given up and the slot is reused;
* redelivered commands against a memory of fixed size;
* rings at their limits;
* start and stop without a lock, and workers that outlive their session;
* one answer to a registration applied by four threads at once;
* files as the only channel between two processes, each of which may restart;
* a power loss between truncating a file and writing it, and a wrong clock
  after it;
* processes that die while they own the loudspeaker;
* packets that are lost, repeated and reordered.

The full list is `hazards` in `PROJECT.json`, each at the line where it bites,
with the property that covers it or the reason why none does.

## 2. Plan

Done: the modules of section 3, each with its run; the abstract specifications
`CommandService` and `BroadcastService` with the modules that implement them;
the composition `CommandDelivery`; proofs of the safety properties of every module.

Left, in this order:

1. The two file protocols between EcaClient and `ai_agent` (texts to speak, and
   the voice card), on top of `VoiceChannel`.
2. The radio under `Provisioning` (`rvt_provisioning_wifi_r528.c`), to say what
   an access point does behind a cleared flag.
3. The service task and TCP channel of the Wi-Fi display, and the scheduled jobs
   of `ai_agent`, with a clock.

## 3. Modules

One action is what a thread does between two points where another thread can
run: usually a critical section, or a call that blocks. Texts, JSON and logging
are reduced to what the code branches on. Definitions commented as "Fault" are
plausible mistakes of the code; they are used by no action, only by the
mutation tests.

**CommandService / CommandDispatcher.** The abstract service is a bounded
first-in first-out queue that takes commands one at a time and answers each at
most once. The dispatcher has the payload ring with its cursors (`queue`,
`read_index`, `write_index`, `count`), the ring of handled ids, and the thread
as a program counter: `PopWaits`, `PopTakes`, `PopExits` are `command_pop`;
`CheckDevice` and `Screen` are the checks of `command_process` in its order
(parsing, device id with normalised MAC, expiry, duplicate, handler); `Handle`
the handlers; `Ack`, `Reack`, `Speak`, `Mark` the calls in the order in which
each handler makes them. `PowerLoss` (external) may happen at any time and
loses everything, since nothing is persisted. `Stored` is what `snprintf` leaves of
an id in the 64 bytes of an entry (`MarkHandled`), while `FindHandled` compares the
whole id. `execs` and `age` are history variables that the code does not have.

**MqttRequest.** Callers of `eca_client_mqtt_request` (`Allocate`, `SlotsFull`,
`Publish`, `PublishFails`, `NotConnected`, `GiveUp`, `Sleep`, `TimedOut`,
`Answered`, `Wake`, `WaitFails`) and `HandleResponse` in the network thread.
The server (external) may answer any published request, late, repeatedly or
not at all. Spurious wake-ups and failing waits are included. The time of a
deadline is a choice: it may pass at any moment.

**MqttLink.** The network thread's loop from `Loop` to `Ping`; publishers, that
write to the socket under the lock, close it on failure and then post over
HTTP on a descriptor of their own; the Wi-Fi notification, which takes the
socket out of `g_net` under the lock and closes it after unlocking. The kernel's
descriptor table is modelled, because the danger is a number that is closed and
given out again. `mqtt_enabled` is taken to be true (its default), and packets
are read or fail to be read; what they contain belongs to the two modules above.

**BroadcastService / RemoteBroadcast.** The abstract inbox keeps the newest
`Capacity` broadcasts in order. The concrete rings overwrite the oldest entry.
`Submit` pushes to one or two rings under the lock, each allocation of which
may fail; the plan handler runs afterwards (`OnPlan`); `PollTakes` and
`PollShows` are the two halves of the UI timer's poll.

**Provisioning.** The calls `start` and `stop`, cut where they block in the
Wi-Fi port, and a worker per session, cut at each test of the session id. A
worker takes its id when it first runs (`Begin`), which need not be the id of
the session that created it. Not modelled: stored configuration, radio, parsing
of the phone's request, and how long screens are shown.

**Registration** (with the QR service). The UI thread, status threads, the
dispatcher's thread and the provisioning worker all run `apply_completed`, cut
at its locks and blocking calls; the flag file may fail to be written and
outlives a power loss. At boot `LoadLocalCompleted` also takes a device for registered
when provisioning recorded a success and the Wi-Fi configuration is not empty.
That file (`config`) is emptied (`OpenConfig`), then written or removed
(`SaveConfig`), by the session's worker or by one whose session was stopped
meanwhile (`StaleSave`); the history variable `cut` says that a save failed or was
interrupted. The provisioning service appears as the state of its session; "orphan" is an access point whose worker has gone because a stop
overtook its start, "forgotten" one whose QR code could not be built either.

**VoiceChannel.** Push-to-talk recording and speech inside `ai_agent`:
`s_voice.lock` makes an action, `speak_lock` is a variable, and capture, playback
and stream are handles that can be open or closed. Every device, the network and
memory may fail. Samples and texts are left out. `starved` is a history variable:
memory for the fallback buffer has run out (`AllocFails`).

**AudioFocus.** Each call is one section under the lock and first clears what
belongs to dead processes; the worker copies events under the lock and calls back
after it. A process may die at any moment. One music process lives at a time, as in
the product; any number of processes may speak. Callbacks are registered by music
processes only (`Registers`): apart from the service's own test console (`main.c`),
the Bluetooth player is the only one to do so (`bt_music_impl_external.c:921`). An
event takes along the callbacks its slot has when it is queued; the change callback
is called for every change, the lost callback only for losses (`Reaches`). `told`,
`wants` and `missed` are history variables: what a process was last told, what it
holds, and whom the last change did not reach. `MaxRef` bounds nested requests.

**CommandDelivery** composes the connection with the contract `CommandService`
of the dispatcher, the broker and a server that sends again: what is published
while nobody is subscribed, or is on the way when the connection ends, is gone;
a full queue ends the connection. `patient` says, for a whole behaviour, whether
the server waits for what it has sent before it sends it again. The dispatcher's
variable `pending` is called `queue` here, `last` and the numbers of the messages
are history.

**FrameAssembly.** A packet is handled in one step up to `frame_close_current`, which
is a step of its own (`Close`, and `CloseAndStart` where the packet in hand then starts
its frame), because a whole `clear_stream` of the TCP thread fits between submitting a
frame and closing it; that clear is three steps. Elsewhere in the loop an
intervening clear does what it does before or after the packet. Frames are numbered
for good; on the wire is a number modulo `SeqMod`, and each stream begins at one of
`Starts`. Packets of a stream that was cleared may still arrive, under their old
numbers (`earlier`). The JPEG build is modelled (the default). `torn` is a history
variable: since the last start or clear the thread went on with the stream that was
cleared - it handled one of its packets or closed one of its frames - or did anything
in the middle of the clear.

The `...Proofs` modules hold the theorems and their inductive invariants, the
`MC...` modules and `.cfg` files the instances for TLC.

## 4. Runs

Run one with, for example, `tlc -config MCMqttLink.cfg MCMqttLink`.

| Run | Shows | Bounds |
|---|---|---|
| `dispatcher` | `NoLostWakeup`, `TruthfulAck`, `AtMostOncePerWindow`, `ImplementsService`; `ServesEveryCommand` | rings of 2 and 2, three commands redelivered without limit, valid, incomplete and expiring, one with an id that is stored cut, two own ids, power loss at any time |
| `request` | `RightAnswer`, `NoMissedAnswer`, `BusyOnlyWhenFull`; `CallReturns` | 3 callers, 2 slots, 3 requests |
| `link` | `OneOwner`, `NoDescriptorLeak`, `ErrorIsAboutThisLink`, `StoppedIsClosed`; `Reconnects` | 2 publishers, 1 notifier, 3 descriptors |
| `broadcast` | `NothingDangles`, `KeepsNewest`; `PlanIsShown` | rings of 2, 2 submitters, 3 broadcasts |
| `provisioning` | `NoZombie`; `StopEndsWorkers` | 1 caller, session ids up to 5 |
| `provisioning_mix` | violates `SessionsDoNotMix` | 1 caller, session ids up to 3 |
| `provisioning_stop` | violates `StopHolds` | 2 callers, session ids up to 3 |
| `registration` | `HiddenWhenDone`, `ToldOnce`, `FlagRemembers`, `Survives`, `NoOrphan`, `ClaimHeld` | 4 kinds of threads, 2 status threads (symmetric), failing writes of both files, failing threads, 1 power loss |
| `voice_channel` | `PlaybackAlive`, `OnePlayback`, `ReadsOpenCapture`, `NothingLeftOpen`; `CallsReturn` | 2 speakers, 2 openings of each device, all failures |
| `audio_focus` | `Counted`, `OwnCallbacks`, `Informed`; `DeadOwnerReclaimed` | 3 processes, one that may register either callback and one the change callback, event queue of 1, 2 nested requests |
| `command_delivery` | `InOrder`; `EventuallyAcked`, `StopEnds` | 2 commands, queue of 2, 5 sendings, 3 packets on the wire, 2 faults |
| `frame_assembly` | `WholeFrame`, `InOrder`, `NeverDeaf` | 3 frames of 2 to 4 units in up to 3 streams that begin at one of 2 numbers, buffer of 3, sequence numbers modulo 6, packets up to 2 frames late |

After the semicolon stand the liveness properties, checked under the fairness
below. Type invariants, and the invariants that only serve a proof (`StopDrains`,
`WindowRemembers`, `OwnSlot`, `NoSlotLeak`, `SockfdIsBroker`, `NoPlanLost`), are
theorems (section 6) and not repeated in the runs.

Why the bounds suffice. A ring of two slots is the smallest that can be empty,
partly full, full and wrapped; three commands compete for a window of two, so
that entries are pushed out and come back. Two slots for three callers let the
table be full, be reused and be refused. Three descriptors let a closed number
be handed out again at once and also run out. Session ids up to five allow two
complete sessions after a stopped one whose worker still lives. In the other
modules each kind of thread occurs with as many instances as the code can have at
once, up to two or three; one restart or power loss is enough, since nothing but
the file survives it. Two commands that an impatient server sends five times
overfill a queue of two. An event queue of one is full after one event. Sequence
numbers modulo six with packets up to two frames late wrap within a stream that begins at 4,
and its numbers meet those of a stream that begins at 0; a frame longer than the
buffer is among them. The two status threads are interchangeable (`Symmetry`). The theorems below remove the
bounds for the safety properties of all modules; only for the liveness properties
do the bounds matter.

Deadlock is checked except in `RemoteBroadcast`, which stops when its
broadcasts are used up and everything is shown, and in `Provisioning`, which
stops when the session numbers are used up.

Fairness. `CommandDispatcher`: weak fairness of the dispatcher thread and of the
end of the join - a runnable thread runs, and none of its steps waits for
anything but its condition. `MqttRequest`: a caller inside a call runs and its
deadline passes; the server and the link are not fair. `MqttLink`: the threads
run, and every system call returns because sockets carry send and receive
timeouts; `Reconnects` also needs that connecting does not fail for ever (strong
fairness of `Dial` and `Connected`), an assumption on the broker and not on the
code. `RemoteBroadcast`: submitters finish and the UI timer keeps polling.
`Provisioning`: workers run and the Wi-Fi port's calls return; nothing is assumed
of callers. `VoiceChannel`: threads run, and a mutex that is free again and again
is obtained (strong fairness of entering). `AudioFocus`: only the worker runs.
`CommandDelivery`: the threads and the broker run, and a server sends again
whenever the device stays connected (strong fairness of `Send`). `Registration`
and `FrameAssembly` have safety properties only.

Mutation tests. For each property of each passing run, `PROJECT.json` names a
mistake of the code (a lost signal, a missing wrap, a wrong order, a forgotten
release) with which TLC finds that property violated.

## 5. Findings

Two disagreements between the code and its comments and headers, each with a run
that shows it.

* **Sessions mix** (`provisioning_mix`). `g_session_id` is there "to make old
  workers invalid" (`rvt_provisioning_service.c:44`). TLC's trace: a worker
  times out waiting for the phone (883-888) and passes the test of its id at
  1003; while it takes the access point down (1064), another thread's stop and
  the next start run; the worker then goes on to line 1074 without comparing the
  id again, sets `running` to 0 and the state to FAILED and notifies FAILED for
  the new session, which is still waiting for the radio. Longer ways lead to the
  same exit: the stop and the start fall into the time the worker takes the
  access point down before joining (1021), and the submit is then refused with
  `-ECANCELED` (1028), or into a submit that fails. Not part of the property,
  but close to it: a worker reads its id when it first runs (990), so one that
  runs only after the next start takes itself for the new session's worker and
  ends that session rightfully by its id.
* **Stop during start** (`provisioning_stop`). `rvt_provisioning_stop` is to end
  the session and the access point (header, line 107). Called while another
  thread's start waits for the radio, it finds `g_softap_running` still 0 and
  stops nothing. Start then sets the flag; its worker exits at once because of
  the stop. The access point stays up and later starts answer `-EALREADY` until
  somebody calls stop again. In EcaClient start runs on the UI thread
  (`eca_client_registration.c:298`) and stop on the thread that completes the
  registration (`:327`).

Behaviour that the models show and no property forbids, because the code does not
exclude it:

* **Speech into a recording** (`VoiceChannel`). Speech is rejected while the
  microphone records (`voice_channel.c:1098`, "AEC workaround"). A speech that has
  passed its check has no playback registered until the first sound arrives, so
  the start of a recording finds nothing to abort and the speech plays into it.
* **No memory for the fallback buffer** (`VoiceChannel`). The recording thread
  resets the state and leaves (`:430`); the capture stays open with no reader and
  the stream is not ended. `NothingLeftOpen` is stated until this happens
  (`starved`).
* **Packets during and after a clear** (`FrameAssembly`). `udp_receiver_clear_stream`
  takes no lock and leaves the socket as it is. (1) It resets count and map one
  after the other while packets are handled (`rvt_udp_receiver.c:604`): what is marked
  in between is counted twice when it is repeated, and a frame with a hole passes as
  complete, although "incomplete frames must not be sent to the decoder" (`:283`).
  (2) A packet of the old stream that is still in the socket or under way when the
  clear is done starts its frame again (`:466`); (3) a clear that runs between the
  submission of a frame and `frame_close_current` (`:512`-`:514`, likewise at
  `:459`-`:461` and `:481`-`:482`) is undone by the latter (`:216`-`:217`). In (2) and
  (3) the old number stays in force. If the new stream's numbers are not newer than
  that one, its packets are passed over and the screen stays dark until they are, at
  most half of the sequence numbers later, or until the next clear; a frame of the
  old stream may be shown again, or frames of both streams be mixed if they have
  the same number. All three properties are stated while this has not happened
  (`torn`), and again from the next start or the next clear that the receiving thread
  does not disturb; without any one of the three exceptions TLC finds
  `NeverDeaf`, `WholeFrame` and `InOrder` violated.
* **An access point nobody takes down** (`Registration`). If a completion overtakes
  the start of the access point and the QR code cannot be built at that moment, no
  poll repeats the completion (`prov = "forgotten"`).
* **An impatient server** (`CommandDelivery`). With more commands under way than
  the queue holds, burst, refusal, lost connection and skipped acknowledgements can
  repeat for ever. `EventuallyAcked` is stated for a patient one.
* **A player that misses a change** (`AudioFocus`). A player that registered only
  the lost callback (`audio_focus_register_lost_cb` allows it) is told to stop and
  never to go on: `audio_focus_manager.c:315-324` calls that callback for losses
  only. An event that finds the queue full is logged and lost, and without a
  callback there is none. `Informed` excepts a player from such a change until the
  next one that reaches it; without the exception for the lost callback alone
  (`AfterGain`) TLC finds it violated. The Bluetooth player registers the change
  callback alone and is told of both.
* **Ids of 64 and more characters** (`CommandDispatcher`). `mark_handled` stores an id
  cut to 63 characters (`eca_client_command_dispatcher.c:139`), `find_handled` compares
  the whole one (`:124`). A longer id is therefore never found: the command is executed
  at every delivery. And a command whose id is the first 63 characters of a long one
  that was served is taken for handled, and acknowledged without being executed.
  `AtMostOncePerWindow` is about ids that fit an entry; `TruthfulAck` asks of a repeated
  acknowledgement that a command stored under that id took effect.
* **A Wi-Fi configuration that is cut short** (`Registration`). A device whose flag
  file is empty is registered at boot if provisioning recorded a success *and*
  `wapi.conf` has content (`eca_client_registration.c:101`). That file is emptied when
  it is saved (`rvt_provisioning_service.c:205`) and removed when the writing fails
  (`:233`), also by a worker whose session was stopped. If this and the loss of the
  flag come together, the device forgets its registration. `Survives` is stated unless
  a save failed or was cut short (`cut`). Conversely a configuration saved in a session
  whose join then fails, together with the record of an earlier success, is taken for a
  registration at the next boot; no property forbids it.
* **Two processes with callbacks** (`AudioFocus`). A process that has the focus
  registers in the slot of its type by setting the slot's process and the one callback
  it brings (`audio_focus_manager.c:632`); the other callback stays that of the process
  that used the slot before. If both are alive the slot then mixes callbacks of two
  processes. In the product only the player registers, and one lives at a time;
  `OwnCallbacks` and `Informed` are stated for that, and with a listening assistant
  beside the player TLC finds `OwnCallbacks` violated.

In `Provisioning`, `NoZombie` is checked, and proved, for one caller at a time:
with two, the finding on stop leaves a session up that nobody attends to.

## 6. Proofs

All theorems are for every value of the constants: any ring size, number of
threads, commands, slots, descriptors, sessions. The assumptions on constants
are `SizeAssumption`, `MessageAssumption`, `RequestAssumption`,
`ThreadAssumption`, `BroadcastAssumption`, `NullAssumption`, `SessionAssumption`,
`RegistrationAssumption`, `ChannelAssumption`, `FocusAssumption`,
`DeliveryAssumption`, `IdAssumption` and `AssemblyAssumption`: sizes are positive, thread sets
disjoint, null values not values, commands not the answer to a SUBSCRIBE, and cutting
an id twice is cutting it once (`IdAssumption`). TLC
evaluates them in the runs. `FocusAssumption` also says that processes with
callbacks are players, of which `Born` lets one live at a time (section 5).

`AssemblyAssumption` says more. Sequence numbers are an even modulus (the code's is
2^16), and `Lag`, below which a packet may be late, is at most half of it. Half
is where `seq_is_newer` changes its mind: of two numbers that are half of them or
more apart it no longer takes the later for the newer, so that with a larger `Lag`
the receiver can go deaf and `NeverDeaf` has no proof. At 2^15 frames that is minutes of video, far
more than a network holds back. For the same reason `SendFrame` does not let the
phone get half of the numbers ahead of what was heard.

| Module | Theorems | Inductive invariant, and why the property alone is not inductive |
|---|---|---|
| `CommandDispatcherProofs` | `TypeCorrect`, `WakeupCorrect`, `StopCorrect`, `AckCorrect`, `WindowCorrect`, `AtMostOnceCorrect`, `Refinement` | `IInv = TypeOK /\ Phases /\ RingInv /\ Memory`. `Phases` ties program counter, job and flags; `RingInv` says the cursors enclose the accepted payloads; `Memory` says that an id marked *n* marks ago is, as far as an entry holds it, in the slot *n* behind the index, without which nothing is known of the slot that the next mark overwrites |
| `ExchangeProofs`, requests | `RequestTypeCorrect`, `SlotsCorrect`, `NoLeakCorrect`, `AnswerCorrect`, `WakeCorrect`, `BusyCorrect` | adds that two callers never share a slot and that a slot is fulfilled only with the answer to the id it carries |
| `ExchangeProofs`, delivery | `DeliveryTypeCorrect`, `DeliveryInOrder`, `DeliveryHandshakeOver` | `DeliveryInv`. `InOrder` bounds the numbers from below only; `OneRow` adds that none is above the number sent last, which is what makes the next one the highest. `Handshake` says where an answer to a SUBSCRIBE can be on the wire at each stage, so that what is handed to the queue is a command |
| `MqttLinkProofs` | `LinkTypeCorrect`, `BrokerCorrect`, `OwnershipCorrect`, `NoDescriptorLeakCorrect`, `TeardownCorrect`, `StoppedCorrect` | `Own` (who may close what) and `Control` (at which points a thread holds a descriptor; the thread connects only while there is no connection) |
| `RemoteBroadcastProofs` | `BroadcastTypeCorrect`, `RingsCorrect`, `PlanCorrect`, `BroadcastRefinement` | a ring invariant per queue; storing is `Append`, dropping is `Tail` of the ring read as a sequence |
| `ProvisioningProofs` | `ProvisioningTypeCorrect`, `NoZombieCorrect` (assumes one caller) | `SessionInv`: until it is shown the access point is down, between open and spawn nobody asked to stop; outside calls an access point that is up has an attending worker that has not yet taken it down |
| `RegistrationProofs` | `RegistrationTypeCorrect`, `RegistrationHidden`, `RegistrationToldOnce`, `RegistrationFlag`, `RegistrationSurvives`, `RegistrationNoOrphan`, `RegistrationClaim` | `Types /\ Control`. What the properties say of a device at rest depends on what the threads still at work will do: `OneTells` - exactly one of those that completed was first and has yet to tell; `FlagWritten` - an empty file has a thread about to write it; `Hiding` and `Stopping` - a QR code that was shown, or an access point that was started, too late is about to become `qrcode_visible`, which makes the poll repeat the completion; `WifiSaved` and `Beginning` - unless a save was cut short, the Wi-Fi configuration is whole once a worker has saved it and none is at it, and nobody is while the access point is only being started; `Claimed` - the claim belongs to the UI thread before the status thread exists, and to that thread afterwards; `Fresh` - a power loss leaves nothing of this behind |
| `AudioProofs`, audio focus | `FocusTypeCorrect`, `FocusCounted`, `FocusOwnCallbacks`, `FocusInformed` | `FocusInv`. `Owned` - owner, count and suspended music belong together, and whoever is named was once alive; `Holds` - only a living owner holds requests, and the count of a living assistant is its own, so that clearing a dead owner takes nothing from the living; `Called` - callbacks are those of players, whence the slot a callback goes into is empty or of the same process; `Hears` - but for those the last change missed, a player whose last word is to pause is suspended *and* has its callback in the music slot, without which nothing says that it hears of the end of the pause; `Queued` - no event is for a process not yet born. The lemmas `ClearKeeps` and `AssignKeeps` are about the two helpers that every call begins with; `SaysAppend` and `WordTail` about the last word when an event is queued or told |
| `AudioProofs`, voice channel | `ChannelTypeCorrect`, `ChannelPlaybackAlive`, `ChannelOnePlayback`, `ChannelReadsOpenCapture`, `ChannelNothingLeftOpen` | `RecordInv /\ SoundInv`. `AtRest`, `Starting` and `Ending` say, for each place of the thread that starts and stops, where the recording thread can be and in which state the capture is, which is what keeps the two from closing it under each other; `Opened` counts captures and streams. `Locked`, `OpenInside` and `Registered`: a speaker has its playback open only inside `speak_lock`, and registers it only while open |
| `FrameAssemblyProofs` | `AssemblyTypeCorrect`, `AssemblyWholeFrame`, `AssemblyInOrder`, `AssemblyNeverDeaf` | `Position` - between two packets the number that packets are compared with is that of the frame heard last, and everything marked in the map came from that frame; `Ending` - the same of a frame about to be closed, and the frame in hand is a later one; `Near` and the lemma `SeqOrder` - among frames less than half of the numbers apart, the comparison modulo `SeqMod` is that of the frames themselves; `Order` and `Seen` - the frame submitted last is not later than the one being assembled, and earlier than all of a new stream; `Clearing` and `Bounded` - what a `clear_stream` that is under way has left, with `torn` counted at most one buffer too much |

`Refinement` and `BroadcastRefinement` show that the rings implement the
abstract queues: initial states map to initial states, and each step to a step or
a stutter.

Each inductive invariant was first checked by TLC, as an invariant of the module's
run. The conditions in the properties are those of section 5: `NothingLeftOpen` is
about a channel whose memory never ran out, `AtMostOncePerWindow` about ids that fit
an entry, `Survives` about a configuration whose saves were not cut short,
`Informed` about players that the last change reached, and `WholeFrame`,
`InOrder` and `NeverDeaf` about streams whose clear, if there was one, the receiving
thread did not disturb.

Each proof module is about one module of section 3; `AudioProofs` and
`ExchangeProofs` are about two each, whose definitions have different names so that
one module can extend both.

Only model-checked: everything with fairness, which the prover does not cover
(liveness and `ENABLED`): `ServesEveryCommand`, `CallReturns`, `Reconnects`,
`PlanIsShown`, `StopEndsWorkers`, `CallsReturn`, `DeadOwnerReclaimed`,
`EventuallyAcked` and `StopEnds`. Every safety property of a passing run is proved.
What a recursive definition computes for every input would need induction
over data, which is also out of reach; the modules use none.

## 7. Not modelled

* MQTT framing, JSON parsing and formatting, HTTP headers: data, abstracted.
* Time: deadlines and timeouts may occur at any moment, so nothing is shown of how
  long anything takes.
* The file protocols between EcaClient and `ai_agent` (speech requests, voice card)
  and the message bus of `ai_agent`: left for a later step (section 2); what happens
  to a recording or a speech once it has begun is in `VoiceChannel`.
* Scheduled jobs of `ai_agent` and the care timer: their correctness is about the
  wall clock, which the models abstract.
* Device identity: the dispatcher's side is in `CommandDispatcher`
  (`UpdateDeviceId`); the unlocked write of the registration check into the
  configuration (`eca_client_network.c:2093`) is not modelled.
* The rest of the Wi-Fi display service (service task, TCP channel, discovery):
  starts and stops are kept apart by waits of seconds instead of locks, which a
  model without time cannot tell from a race.
* The Wi-Fi port of provisioning and Wi-Fi autoconnect: one thread giving
  commands to the radio, with retries; calls that block and may fail, or an input.
* Destruction and lazy initialisation of mutexes.
* LVGL screens, time observer, sensor and device state: one thread, no protocol.
* Voice keywords: one thread that turns lines of a pipe into alerts.
* Language model client, tools, chat channels and memory of `ai_agent`; map, time,
  weather, Bluetooth and input services, other applications, and everything under
  `chips/`, `boards/`, `lichee/` and `tools/`: vendor code and hardware access.
