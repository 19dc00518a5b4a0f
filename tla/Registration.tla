---------------------------- MODULE Registration ----------------------------
(***************************************************************************)
(* Registration of the device (EcaClient/core/eca_client_registration.c)   *)
(* with the QR code service it draws with (qrcode_service/src/             *)
(* rvt_qrcode.c).  The UI thread shows a QR code until the device is       *)
(* registered; a status thread asks the server; the dispatcher's thread    *)
(* and the provisioning worker report the completion.  Every one of them   *)
(* runs eca_client_registration_apply_completed, possibly at the same time.*)
(*                                                                         *)
(* One action is a critical section, or a call that blocks.  The           *)
(* provisioning service appears as the state of its session (module        *)
(* Provisioning has its details) and the two files its worker leaves: the  *)
(* Wi-Fi configuration and the record of a success.  "orphan" is an access *)
(* point brought up by a start that a stop overtook: no worker will take   *)
(* it down.                                                                *)
(*                                                                         *)
(* Abstracted: the interval of three seconds between status checks (a      *)
(* check may be due at any poll), the text of the QR code and its drawing. *)
(* Starting the ai_agent process at the end of a completion is left out.   *)
(***************************************************************************)
EXTENDS Integers, FiniteSets

CONSTANTS
    Observers,      \* threads that report "registration_completed"
    StatusThreads,  \* identities of the status threads
    MaxBoots        \* bound on the number of times the device starts

ASSUME RegistrationAssumption ==
    /\ MaxBoots \in Nat \ {0}
    /\ {"ui", "worker"} \cap (Observers \cup StatusThreads) = {}
    /\ Observers \cap StatusThreads = {}

Threads == {"ui", "worker"} \cup Observers \cup StatusThreads

VARIABLES
    registered, qrcode_visible, completion_handled, status_check_running,
    pending,      \* the QR service's request: "none", "show" or "hide"
    overlay,      \* whether the QR code is on the screen
    flag,         \* whether the flag file has content
    flag_failed,  \* whether writing it failed in this boot
    provisioned,  \* whether provisioning recorded its success on disk
    config,       \* the Wi-Fi configuration file: "absent", "torn", "whole"
    stale,        \* the worker of a session that was stopped still saves it
    cut,          \* history: a save of it failed, or was cut by a power loss
    prov,         \* the provisioning session
    bound,        \* whether the server has bound the device to a user
    told,         \* how often the model was told in this boot, up to 2
    boots,
    pc, after,    \* where a thread is; where the UI goes after a show
    first         \* a thread's copy of ~completion_handled

state  == <<registered, qrcode_visible, completion_handled>>
qr     == <<pending, overlay>>
wifi   == <<config, stale, cut>>
disk   == <<flag, flag_failed, provisioned, wifi>>
world  == <<bound, boots>>
vars == <<state, status_check_running, qr, disk, prov, world, told, pc,
          after, first>>

PCs == {"none", "boot", "show", "ask", "softap", "starting", "info", "qr",
        "visible", "poll", "check", "spawn", "draw", "finish",
        "mark", "open", "write", "stop", "hide"}
\* A "forgotten" session is an orphan whose QR code is not shown either.
Sessions == {"off", "starting", "halted", "on", "orphan", "forgotten",
             "saving", "joining", "connected"}
Files == {"absent", "torn", "whole"}

Booted(p) == [t \in Threads |-> IF t = "ui" THEN p ELSE "none"]

Init ==
    /\ registered = FALSE /\ qrcode_visible = FALSE
    /\ completion_handled = FALSE /\ status_check_running = FALSE
    /\ pending = "none" /\ overlay = FALSE
    /\ flag \in BOOLEAN /\ provisioned \in BOOLEAN /\ flag_failed = FALSE
    /\ config \in Files /\ stale = FALSE
    /\ cut = (provisioned /\ config # "whole")
    /\ prov = "off" /\ bound = FALSE /\ told = 0 /\ boots = 1
    /\ pc = Booted("boot") /\ after = "poll"
    /\ first = [t \in Threads |-> FALSE]

Goes(t, from, to) ==
    /\ pc[t] = from
    /\ pc' = [pc EXCEPT ![t] = to]

UiGoes(from, to) == Goes("ui", from, to) /\ UNCHANGED after

-----------------------------------------------------------------------------
(***************************************************************************)
(* eca_client_registration_init: the flag decides, or else what            *)
(* provisioning recorded, if there is a Wi-Fi configuration as well; that  *)
(* is then copied to the flag.                                             *)
(***************************************************************************)
\* file_nonempty: a file whose writing was cut short may have some content.
ConfigNonempty == IF config = "torn" THEN BOOLEAN ELSE {config = "whole"}

\* Fault: what provisioning recorded is not looked at.
LoadFlagOnly ==
    /\ registered' = flag
    /\ UNCHANGED <<flag, flag_failed>>

LoadLocalCompleted ==
    \E nonempty \in ConfigNonempty :
        /\ registered' = (flag \/ (provisioned /\ nonempty))
        /\ flag' \in {flag, registered'}
        /\ flag_failed' = (registered' /\ ~flag')

Boot ==
    /\ Goes("ui", "boot", "show")
    /\ LoadLocalCompleted
    /\ qrcode_visible' = FALSE
    /\ completion_handled' = registered'
    /\ status_check_running' = FALSE
    /\ told' = IF registered' THEN 1 ELSE 0
    /\ after' = "poll"
    /\ UNCHANGED <<qr, provisioned, wifi, prov, world, first>>

\* Power is lost: only the files and the server remember.
Crash ==
    /\ boots < MaxBoots
    /\ boots' = boots + 1
    /\ registered' = FALSE /\ qrcode_visible' = FALSE
    /\ completion_handled' = FALSE /\ status_check_running' = FALSE
    /\ pending' = "none" /\ overlay' = FALSE
    /\ prov' = "off" /\ told' = 0
    /\ pc' = Booted("boot") /\ after' = "poll"
    /\ first' = [t \in Threads |-> FALSE]
    /\ flag_failed' = FALSE
    /\ stale' = FALSE
    /\ cut' = (cut \/ stale \/ prov = "saving")
    /\ UNCHANGED <<flag, provisioned, config, bound>>

-----------------------------------------------------------------------------
(***************************************************************************)
(* eca_client_registration_apply_completed, by any thread.                 *)
(***************************************************************************)
Return(t) ==
    CASE t = "ui" -> after
      [] t \in StatusThreads -> "finish"
      [] OTHER -> "none"

\* Fault: the test of completion_handled is not part of the critical section.
MarkUnseen(t) ==
    /\ Goes(t, "mark", "open")
    /\ first' = [first EXCEPT ![t] = ~completion_handled]
    /\ registered' = TRUE
    /\ qrcode_visible' = FALSE
    /\ UNCHANGED completion_handled
    /\ UNCHANGED <<status_check_running, qr, disk, prov, world, told, after>>

Mark(t) ==
    /\ Goes(t, "mark", "open")
    /\ first' = [first EXCEPT ![t] = ~completion_handled]
    /\ registered' = TRUE
    /\ qrcode_visible' = FALSE
    /\ completion_handled' = TRUE
    /\ UNCHANGED <<status_check_running, qr, disk, prov, world, told, after>>

\* The flag file is opened, which empties it, or cannot be opened ...
OpenFlag(t) ==
    /\ \/ /\ Goes(t, "open", "write")
          /\ flag' = FALSE
          /\ UNCHANGED flag_failed
       \/ /\ Goes(t, "open", "stop")
          /\ flag_failed' = TRUE
          /\ UNCHANGED flag
    /\ UNCHANGED <<state, status_check_running, qr, provisioned, wifi, prov,
                   world, told, after, first>>

\* Fault: the flag is written only by the thread that completed first.
WriteFlagFirst(t) ==
    /\ Goes(t, "write", "stop")
    /\ flag' = (flag \/ first[t])
    /\ UNCHANGED <<state, status_check_running, qr, flag_failed, provisioned,
                   wifi, prov, world, told, after, first>>

\* ... and written, or left as it is.
WriteFlag(t) ==
    /\ Goes(t, "write", "stop")
    /\ \/ flag' = TRUE /\ UNCHANGED flag_failed
       \/ flag_failed' = TRUE /\ UNCHANGED flag
    /\ UNCHANGED <<state, status_check_running, qr, provisioned, wifi, prov,
                   world, told, after, first>>

\* stop_softap: a connected session is left alone, and a stop that overtakes
\* a start finds no access point to take down yet.
SessionStopped ==
    CASE prov \in {"on", "orphan", "forgotten", "saving", "joining"} -> "off"
      [] prov = "starting" -> "halted"
      [] OTHER -> prov

\* Fault: only the thread that completed first stops the session.
StopSoftapFirst(t) ==
    /\ Goes(t, "stop", "hide")
    /\ told' = IF first[t] /\ told < 2 THEN told + 1 ELSE told
    /\ prov' = IF first[t] THEN SessionStopped ELSE prov
    /\ stale' = (stale \/ (first[t] /\ prov = "saving"))
    /\ UNCHANGED <<state, status_check_running, qr, flag, flag_failed,
                   provisioned, config, cut, world, after, first>>

\* The model is told by the first thread only; then stop_softap.  A worker
\* that is saving the configuration goes on with that.
StopSoftap(t) ==
    /\ Goes(t, "stop", "hide")
    /\ told' = IF first[t] /\ told < 2 THEN told + 1 ELSE told
    /\ prov' = SessionStopped
    /\ stale' = (stale \/ prov = "saving")
    /\ UNCHANGED <<state, status_check_running, qr, flag, flag_failed,
                   provisioned, config, cut, world, after, first>>

\* rvt_qrcode_hide: a later request replaces one the UI has not drawn.  With
\* it the completion returns.
Hide(t) ==
    /\ Goes(t, "hide", Return(t))
    /\ pending' = "hide"
    /\ first' = [first EXCEPT ![t] = FALSE]
    /\ UNCHANGED <<state, status_check_running, overlay, disk, prov, world,
                   told, after>>

ApplyCompleted(t) ==
    Mark(t) \/ OpenFlag(t) \/ WriteFlag(t) \/ StopSoftap(t) \/ Hide(t)

-----------------------------------------------------------------------------
(***************************************************************************)
(* check_remote_status, by the UI thread before it shows the QR code and   *)
(* by the status thread.                                                   *)
(***************************************************************************)
AskBound(t) ==
    /\ bound
    /\ Goes(t, "ask", "mark")
    /\ UNCHANGED <<state, status_check_running, qr, disk, prov, world, told,
                   after, first>>

\* Not bound yet, or no answer.
AskInVain(t) ==
    /\ Goes(t, "ask", IF t = "ui" THEN "softap" ELSE "finish")
    /\ UNCHANGED <<state, status_check_running, qr, disk, prov, world, told,
                   after, first>>

Finish(t) ==
    /\ Goes(t, "finish", "none")
    /\ status_check_running' = FALSE
    /\ UNCHANGED <<state, qr, disk, prov, world, told, after, first>>

-----------------------------------------------------------------------------
(***************************************************************************)
(* eca_client_registration_show_qrcode, on the UI thread.                  *)
(***************************************************************************)
Show ==
    /\ UiGoes("show", IF registered THEN after ELSE "ask")
    /\ UNCHANGED <<state, status_check_running, qr, disk, prov, world, told,
                   first>>

\* get_softap: a running session is used as it is ...
ReuseSoftap ==
    /\ prov \in {"on", "orphan", "forgotten", "saving", "joining"}
    /\ UiGoes("softap", "info")
    /\ UNCHANGED <<state, status_check_running, qr, disk, prov, world, told,
                   first>>

\* ... or else one is started ...
StartSoftap ==
    /\ prov \in {"off", "connected"}
    /\ UiGoes("softap", "starting")
    /\ prov' = "starting"
    /\ UNCHANGED <<state, status_check_running, qr, disk, world, told, first>>

\* ... which succeeds, even if it was stopped meanwhile, or fails.
SoftapStarted ==
    /\ \/ /\ UiGoes("starting", "info")
          /\ prov' = IF prov = "halted" THEN "orphan" ELSE "on"
       \/ /\ UiGoes("starting", after)
          /\ prov' = "off"
    /\ UNCHANGED <<state, status_check_running, qr, disk, world, told, first>>

\* build_payload fails after the access point is up, and show_qrcode returns
\* without taking it down.
BuildPayload ==
    /\ \/ UiGoes("info", "qr") /\ UNCHANGED prov
       \/ /\ UiGoes("info", after)
          /\ prov' = IF prov = "orphan" THEN "forgotten" ELSE prov
    /\ UNCHANGED <<state, status_check_running, qr, disk, world, told, first>>

\* rvt_qrcode_show cannot fail: build_payload keeps within its limits.
ShowQrcode ==
    /\ UiGoes("qr", "visible")
    /\ pending' = "show"
    /\ UNCHANGED <<state, status_check_running, overlay, disk, prov, world,
                   told, first>>

\* Fault: a QR code shown after the completion is not marked visible.
SetVisibleUnlessRegistered ==
    /\ UiGoes("visible", after)
    /\ qrcode_visible' = ~registered
    /\ UNCHANGED <<registered, completion_handled, status_check_running, qr,
                   disk, prov, world, told, first>>

SetVisible ==
    /\ UiGoes("visible", after)
    /\ qrcode_visible' = TRUE
    /\ UNCHANGED <<registered, completion_handled, status_check_running, qr,
                   disk, prov, world, told, first>>

-----------------------------------------------------------------------------
(***************************************************************************)
(* eca_client_registration_poll, every 50 ms on the UI thread.             *)
(***************************************************************************)
PollNext == IF registered
            THEN IF ~completion_handled \/ qrcode_visible THEN "mark" ELSE "draw"
            ELSE IF qrcode_visible THEN "check" ELSE "show"

Poll ==
    /\ Goes("ui", "poll", PollNext)
    /\ after' = "draw"
    /\ UNCHANGED <<state, status_check_running, qr, disk, prov, world, told,
                   first>>

\* maybe_check_status: nothing to ask, or the last check is too recent ...
CheckNotDue ==
    /\ UiGoes("check", "draw")
    /\ UNCHANGED <<state, status_check_running, qr, disk, prov, world, told,
                   first>>

\* ... or the thread is claimed under the lock ...
CheckDue ==
    /\ ~registered /\ ~status_check_running
    /\ UiGoes("check", "spawn")
    /\ status_check_running' = TRUE
    /\ UNCHANGED <<state, qr, disk, prov, world, told, first>>

\* ... and created, ...
SpawnStatus ==
    /\ pc["ui"] = "spawn"
    /\ \E s \in StatusThreads :
           /\ pc[s] = "none"
           /\ pc' = [pc EXCEPT !["ui"] = "draw", ![s] = "ask"]
    /\ UNCHANGED <<state, status_check_running, qr, disk, prov, world, told,
                   after, first>>

\* Fault: the claim is kept when the thread cannot be created.
SpawnFailsClaimed ==
    /\ UiGoes("spawn", "draw")
    /\ UNCHANGED <<state, status_check_running, qr, disk, prov, world, told,
                   first>>

\* ... or cannot be.
SpawnFails ==
    /\ UiGoes("spawn", "draw")
    /\ status_check_running' = FALSE
    /\ UNCHANGED <<state, qr, disk, prov, world, told, first>>

\* rvt_qrcode_poll.
Draw ==
    /\ UiGoes("draw", "poll")
    /\ pending' = "none"
    /\ overlay' = IF pending = "none" THEN overlay ELSE pending = "show"
    /\ UNCHANGED <<state, status_check_running, disk, prov, world, told, first>>

-----------------------------------------------------------------------------
(***************************************************************************)
(* The other threads.                                                      *)
(***************************************************************************)
\* The dispatcher runs command_event for "registration_completed".
Report(o) ==
    /\ pc["ui"] # "boot"
    /\ Goes(o, "none", "mark")
    /\ UNCHANGED <<state, status_check_running, qr, disk, prov, world, told,
                   after, first>>

\* The worker of the provisioning session: it waits for the phone and gives
\* up after its time, or cannot open the configuration file; after saving it
\* the phone's network cannot be joined ...
Session ==
    /\ prov \in {"on", "joining"}
    /\ prov' = "off"
    /\ UNCHANGED <<state, status_check_running, qr, disk, world, told, pc,
                   after, first>>

\* ... or it opens the file, which empties it, ...
OpenConfig ==
    /\ prov = "on"
    /\ prov' = "saving"
    /\ config' = "torn"
    /\ UNCHANGED <<state, status_check_running, qr, flag, flag_failed,
                   provisioned, stale, cut, world, told, pc, after, first>>

\* ... and writes it, though not if another worker removed it meanwhile ...
Written == config' = (IF config = "absent" THEN "absent" ELSE "whole")

\* ... or fails to and removes it.
Removed == config' \in {"absent", config} /\ cut' = TRUE

SaveConfig ==
    /\ prov = "saving"
    /\ \/ prov' = "joining" /\ Written /\ UNCHANGED cut
       \/ prov' = "off" /\ Removed
    /\ UNCHANGED <<state, status_check_running, qr, flag, flag_failed,
                   provisioned, stale, world, told, pc, after, first>>

\* A worker whose session was stopped meanwhile does the same and leaves;
\* there may be more than one.
StaleSave ==
    /\ stale
    /\ stale' \in BOOLEAN
    /\ (Written /\ UNCHANGED cut) \/ Removed
    /\ UNCHANGED <<state, status_check_running, qr, flag, flag_failed,
                   provisioned, prov, world, told, pc, after, first>>

\* ... and when it has joined records that, or fails to, and runs
\* provisioning_event_cb, whose status check is void: by then the device is
\* registered.
Connected ==
    /\ prov = "joining"
    /\ prov' = "connected"
    /\ provisioned' \in {TRUE, provisioned}
    /\ Goes("worker", "none", "mark")
    /\ UNCHANGED <<state, status_check_running, qr, flag, flag_failed, wifi,
                   world, told, after, first>>

\* The user binds the device to an account.
Bind ==
    /\ ~bound
    /\ bound' = TRUE
    /\ UNCHANGED <<state, status_check_running, qr, disk, prov, boots, told,
                   pc, after, first>>

-----------------------------------------------------------------------------
UiStep ==
    \/ Boot \/ Show \/ ReuseSoftap \/ StartSoftap \/ SoftapStarted
    \/ BuildPayload \/ ShowQrcode \/ SetVisible \/ Poll \/ CheckNotDue
    \/ CheckDue \/ SpawnStatus \/ SpawnFails \/ Draw

Thread(t) ==
    \/ ApplyCompleted(t)
    \/ AskBound(t) \/ AskInVain(t) \/ Finish(t)

Next ==
    \/ UiStep \/ Session \/ OpenConfig \/ SaveConfig \/ StaleSave \/ Connected
    \/ Bind \/ Crash
    \/ \E t \in Threads : Thread(t)
    \/ \E o \in Observers : Report(o)

Spec == Init /\ [][Next]_vars

-----------------------------------------------------------------------------
(***************************************************************************)
(* Properties.                                                             *)
(***************************************************************************)
\* Type invariant of the registration, the QR service and their threads.
TypeOK ==
    /\ registered \in BOOLEAN /\ qrcode_visible \in BOOLEAN
    /\ completion_handled \in BOOLEAN /\ status_check_running \in BOOLEAN
    /\ pending \in {"none", "show", "hide"} /\ overlay \in BOOLEAN
    /\ flag \in BOOLEAN /\ flag_failed \in BOOLEAN /\ provisioned \in BOOLEAN
    /\ config \in Files /\ stale \in BOOLEAN /\ cut \in BOOLEAN
    /\ prov \in Sessions /\ bound \in BOOLEAN
    /\ told \in 0 .. 2 /\ boots \in 1 .. MaxBoots
    /\ pc \in [Threads -> PCs] /\ after \in {"poll", "draw"}
    /\ first \in [Threads -> BOOLEAN]

Applying(t) == pc[t] \in {"open", "write", "stop", "hide"}

\* Whenever the UI thread is about to poll a registered device and sees
\* nothing to repair, the QR code is off the screen or on its way off it,
\* however the completions and the last show interleaved
\* (eca_client_registration_poll, the test of qrcode_visible).
HiddenWhenDone ==
    /\ pc["ui"] = "poll"
    /\ registered /\ ~qrcode_visible
    /\ \A t \in Threads : ~Applying(t)
    => pending = "hide" \/ (pending = "none" /\ ~overlay)

\* Of several completions at once exactly one tells the model
\* (completion_handled in eca_client_registration_apply_completed).
ToldOnce ==
    /\ told <= 1
    /\ registered /\ (\A t \in Threads : ~Applying(t)) => told = 1

\* The flag file has content whenever the device is registered and no thread
\* is at work on it, however the threads that empty and write it overlapped,
\* unless a write failed (eca_client_registration_write_local_completed).
FlagRemembers ==
    registered /\ (\A t \in Threads : ~Applying(t)) => flag \/ flag_failed

\* Once provisioning recorded its success no loss of power, not even one
\* that leaves the flag file empty, makes the device forget that it is
\* registered, unless a save of the Wi-Fi configuration, by whichever worker,
\* failed or was itself cut short: the flag is then the only file left
\* (load_local_completed, provisioning_save_wapi_config).
Survives ==
    provisioned /\ pc["ui"] # "boot"
    => registered \/ pc["worker"] = "mark" \/ cut

\* No access point is left without anybody to take it down: when the UI thread
\* polls a registered device and sees nothing to repair, a start that was
\* overtaken by the stop of a completion has been stopped once more.
NoOrphan ==
    /\ pc["ui"] = "poll"
    /\ registered /\ ~qrcode_visible
    /\ \A t \in Threads : ~Applying(t)
    => prov # "orphan"

\* The status check is claimed exactly while one thread carries it out or the
\* UI thread is about to create that thread: two checks never run at once, and
\* no claim outlives its check, so the device never stops asking the server
\* (eca_client_registration_maybe_check_status).
ClaimHeld ==
    Cardinality({s \in StatusThreads : pc[s] # "none"} \cup
                {t \in {"ui"} : pc[t] = "spawn"})
        = IF status_check_running THEN 1 ELSE 0
=============================================================================
