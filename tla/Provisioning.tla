---------------------------- MODULE Provisioning ----------------------------
(***************************************************************************)
(* The Wi-Fi provisioning service (provisioning_service/src/               *)
(* rvt_provisioning_service.c): a temporary access point, a worker task    *)
(* per session that waits for the phone's configuration and joins its      *)
(* network, and the calls start and stop.  Nothing is locked; a session id *)
(* tells workers that they are out of date.                                *)
(*                                                                         *)
(* Callers are the threads that call start and stop: in EcaClient the UI   *)
(* thread starts (eca_client_registration_get_softap) and any thread that  *)
(* completes the registration stops.  A worker is named after the session  *)
(* that created it.  One action is what runs between two calls that block, *)
(* or between a test of the session id and the code behind it.             *)
(*                                                                         *)
(* Not modelled: the files with the network configuration, the radio       *)
(* itself, and the TTLs of the screens.                                    *)
(***************************************************************************)
EXTENDS Integers

CONSTANTS
    Callers,
    MaxSessions   \* bound on g_session_id

ASSUME SessionAssumption == MaxSessions \in Nat

Sessions == 0 .. MaxSessions
Workers  == 1 .. MaxSessions

VARIABLES
    state, running,                 \* g_session.state, g_session.running
    softap,                         \* g_softap_running
    stop_requested, session_id,     \* g_stop_requested, g_session_id
    cpc, opened,                    \* callers: where, and the session opened
    wpc, my                         \* workers: where, and their session_id

session == <<state, running>>
guards  == <<stop_requested, session_id>>
callers == <<cpc, opened>>
workers == <<wpc, my>>
vars == <<session, softap, guards, callers, workers>>

States == {"idle", "starting", "waiting_app", "connecting", "connected",
           "failed", "stopped"}
CallerPCs == {"idle", "open", "radio", "show", "spawn", "undo", "halt"}
WorkerPCs == {"none", "born", "wait", "accept", "got", "timedout",
              "connecting", "save", "saved", "unsaved", "off", "undo",
              "connect", "joining", "confirm", "connected", "fail", "done"}

Init ==
    /\ state = "idle"
    /\ running = FALSE
    /\ softap = FALSE
    /\ stop_requested = FALSE
    /\ session_id = 0
    /\ cpc = [c \in Callers |-> "idle"]
    /\ opened = [c \in Callers |-> 0]
    /\ wpc = [w \in Workers |-> "none"]
    /\ my = [w \in Workers |-> 0]

-----------------------------------------------------------------------------
(***************************************************************************)
(* rvt_provisioning_start.                                                 *)
(***************************************************************************)
CallerGoes(c, from, to) ==
    /\ cpc[c] = from
    /\ cpc' = [cpc EXCEPT ![c] = to]

\* A call that finds a session running returns -EALREADY at once.
Start(c) ==
    /\ ~running /\ ~softap
    /\ CallerGoes(c, "idle", "open")
    /\ UNCHANGED <<session, softap, guards, opened, workers>>

\* The access point's name and password cannot be generated.
NoConfig(c) ==
    /\ CallerGoes(c, "open", "idle")
    /\ UNCHANGED <<session, softap, guards, opened, workers>>

Open(c) ==
    /\ session_id < MaxSessions
    /\ CallerGoes(c, "open", "radio")
    /\ state' = "starting"
    /\ running' = TRUE
    /\ stop_requested' = FALSE
    /\ session_id' = session_id + 1
    /\ opened' = [opened EXCEPT ![c] = session_id']
    /\ UNCHANGED <<softap, workers>>

RadioFails(c) ==
    /\ CallerGoes(c, "radio", "idle")
    /\ state' = "failed"
    /\ running' = FALSE
    /\ UNCHANGED <<softap, guards, opened, workers>>

RadioOn(c) ==
    /\ CallerGoes(c, "radio", "show")
    /\ UNCHANGED <<session, softap, guards, opened, workers>>

Show(c) ==
    /\ CallerGoes(c, "show", "spawn")
    /\ softap' = TRUE
    /\ state' = "waiting_app"
    /\ UNCHANGED <<running, guards, opened, workers>>

\* task_create succeeds or fails.
Spawn(c) ==
    /\ \/ /\ CallerGoes(c, "spawn", "idle")
          /\ wpc' = [wpc EXCEPT ![opened[c]] = "born"]
       \/ /\ CallerGoes(c, "spawn", "undo")
          /\ UNCHANGED wpc
    /\ UNCHANGED <<session, softap, guards, opened, my>>

SpawnUndone(c) ==
    /\ CallerGoes(c, "undo", "idle")
    /\ softap' = FALSE
    /\ state' = "failed"
    /\ running' = FALSE
    /\ UNCHANGED <<guards, opened, workers>>

(***************************************************************************)
(* rvt_provisioning_stop; stopping the access point blocks in between.     *)
(***************************************************************************)
Stop(c) ==
    /\ session_id < MaxSessions
    /\ CallerGoes(c, "idle", "halt")
    /\ stop_requested' = TRUE
    /\ session_id' = session_id + 1
    /\ UNCHANGED <<session, softap, opened, workers>>

Stopped(c) ==
    /\ CallerGoes(c, "halt", "idle")
    /\ softap' = FALSE
    /\ state' = "stopped"
    /\ running' = FALSE
    /\ UNCHANGED <<guards, opened, workers>>

-----------------------------------------------------------------------------
(***************************************************************************)
(* rvt_provisioning_softap_task_main.                                      *)
(***************************************************************************)
Cancelled(w) == my[w] # session_id \/ stop_requested

WorkerGoes(w, from, to) ==
    /\ wpc[w] = from
    /\ wpc' = [wpc EXCEPT ![w] = to]

\* The task reads the session id when it first runs, not when it is created.
Begin(w) ==
    /\ WorkerGoes(w, "born", "wait")
    /\ my' = [my EXCEPT ![w] = session_id]
    /\ UNCHANGED <<session, softap, guards, callers>>

\* Fault: the loop does not look at g_stop_requested.
PollIgnoringStop(w) ==
    /\ my[w] = session_id
    /\ WorkerGoes(w, "wait", "accept")
    /\ UNCHANGED <<session, softap, guards, callers, my>>

\* The loop of wait_for_phone_config ...
Poll(w) ==
    /\ ~Cancelled(w)
    /\ WorkerGoes(w, "wait", "accept")
    /\ UNCHANGED <<session, softap, guards, callers, my>>

\* ... in which nothing, a bad request or the configuration arrives ...
Accept(w) ==
    /\ WorkerGoes(w, "accept", "wait") \/ WorkerGoes(w, "accept", "got")
    /\ UNCHANGED <<session, softap, guards, callers, my>>

\* ... and which ends when it is cancelled, on an error and on its timeout.
GiveUp(w) ==
    /\ \/ Cancelled(w) /\ WorkerGoes(w, "wait", "done")
       \/ ~Cancelled(w) /\ WorkerGoes(w, "wait", "timedout")
    /\ UNCHANGED <<session, softap, guards, callers, my>>

\* A test of the session id: leave silently, or go on.
Checked(w, from, to) ==
    WorkerGoes(w, from, IF Cancelled(w) THEN "done" ELSE to)

Check(w) ==
    /\ \/ Checked(w, "got", "connecting")
       \/ Checked(w, "timedout", "undo")
       \/ Checked(w, "save", "saved") \/ Checked(w, "save", "unsaved")
       \/ Checked(w, "saved", "off")
       \/ Checked(w, "unsaved", "undo")
       \/ Checked(w, "confirm", "connected") \/ Checked(w, "confirm", "fail")
    /\ UNCHANGED <<session, softap, guards, callers, my>>

Connecting(w) ==
    /\ WorkerGoes(w, "connecting", "save")
    /\ state' = "connecting"
    /\ UNCHANGED <<running, softap, guards, callers, my>>

\* rvt_provisioning_stop_softap_direct.  It fails only if it found the flag
\* set, which a stop may have cleared by the time it returns ...
SoftapOff(w) ==
    /\ WorkerGoes(w, "off", "connect") \/ WorkerGoes(w, "off", "fail")
    /\ softap' = FALSE
    /\ UNCHANGED <<session, guards, callers, my>>

\* Fault: the access point stays up after a timeout.
SoftapUndoForgotten(w) ==
    /\ WorkerGoes(w, "undo", "fail")
    /\ UNCHANGED <<session, softap, guards, callers, my>>

\* ... or whose result no longer matters.
SoftapUndo(w) ==
    /\ WorkerGoes(w, "undo", "fail")
    /\ softap' = FALSE
    /\ UNCHANGED <<session, guards, callers, my>>

\* request_phone_hotspot_connect: here a cancelled worker does not leave but
\* goes on to report a failure.
Connect(w) ==
    /\ WorkerGoes(w, "connect", IF Cancelled(w) THEN "fail" ELSE "joining")
    /\ UNCHANGED <<session, softap, guards, callers, my>>

Joined(w) ==
    /\ WorkerGoes(w, "joining", "confirm") \/ WorkerGoes(w, "joining", "fail")
    /\ UNCHANGED <<session, softap, guards, callers, my>>

Connected(w) ==
    /\ WorkerGoes(w, "connected", "done")
    /\ state' = "connected"
    /\ running' = FALSE
    /\ UNCHANGED <<softap, guards, callers, my>>

Fail(w) ==
    /\ WorkerGoes(w, "fail", "done")
    /\ state' = "failed"
    /\ running' = FALSE
    /\ UNCHANGED <<softap, guards, callers, my>>

Worker(w) ==
    \/ Begin(w) \/ Poll(w) \/ Accept(w) \/ GiveUp(w) \/ Check(w)
    \/ Connecting(w) \/ SoftapOff(w) \/ SoftapUndo(w) \/ Connect(w)
    \/ Joined(w) \/ Connected(w) \/ Fail(w)

Caller(c) ==
    \/ Start(c) \/ NoConfig(c) \/ Open(c) \/ RadioFails(c) \/ RadioOn(c)
    \/ Show(c) \/ Spawn(c) \/ SpawnUndone(c) \/ Stop(c) \/ Stopped(c)

Next == (\E c \in Callers : Caller(c)) \/ (\E w \in Workers : Worker(w))

Spec == Init /\ [][Next]_vars

\* A runnable task runs; each call of the Wi-Fi port returns.
FairSpec == Spec /\ \A w \in Workers : WF_vars(Worker(w))

-----------------------------------------------------------------------------
(***************************************************************************)
(* Properties.                                                             *)
(***************************************************************************)
\* Type invariant of the service, its callers and its workers.
TypeOK ==
    /\ state \in States
    /\ running \in BOOLEAN /\ softap \in BOOLEAN /\ stop_requested \in BOOLEAN
    /\ session_id \in Sessions
    /\ cpc \in [Callers -> CallerPCs]
    /\ opened \in [Callers -> Sessions]
    /\ wpc \in [Workers -> WorkerPCs]
    /\ my \in [Workers -> Sessions]

Live(w) == wpc[w] \notin {"none", "done"}

\* A worker that will end the current session.
Attends(w) ==
    /\ Live(w)
    /\ ~stop_requested
    /\ wpc[w] = "born" \/ my[w] = session_id

Quiet == \A c \in Callers : cpc[c] = "idle"

\* rvt_provisioning_is_running never stays true with nobody left to end the
\* session: start would answer -EALREADY and the QR code would lead nowhere.
NoZombie ==
    Quiet /\ (running \/ softap) => \E w \in Workers : Attends(w)

\* Once every call has returned and the last of them was stop, the access
\* point is down (rvt_provisioning_stop).
StopHolds == Quiet /\ stop_requested => ~softap /\ ~running

\* The session id makes old workers invalid: a worker whose id is not that of
\* the running session does not report its end for it, and thereby end it
\* (g_session_id).
SessionsDoNotMix ==
    [][\A w \in Workers :
         wpc[w] \in {"connected", "fail"} /\ wpc'[w] = "done" =>
             my[w] = session_id \/ stop_requested \/ ~running]_vars

\* After a stop, and unless a new session starts, all workers end.
StopEndsWorkers ==
    stop_requested ~> (~stop_requested \/ \A w \in Workers : ~Live(w))
=============================================================================
