------------------------- MODULE RegistrationProofs -------------------------
(***************************************************************************)
(* Proofs about Registration, for any number of observers and status       *)
(* threads and any number of boots: the types, and each of the safety      *)
(* properties, from one inductive invariant.                               *)
(***************************************************************************)
EXTENDS Registration, FiniteSetTheorems, TLAPS

USE RegistrationAssumption

UiPCs == PCs \ {"none", "finish"}
CompletionPCs == {"none", "mark", "open", "write", "stop", "hide"}
StatusPCs == CompletionPCs \cup {"ask", "finish"}

\* Where a thread can be, and where the UI thread goes after a show.
Places ==
    /\ pc \in [Threads -> PCs]
    /\ pc["ui"] \in UiPCs
    /\ \A t \in Observers \cup {"worker"} : pc[t] \in CompletionPCs
    /\ \A s \in StatusThreads : pc[s] \in StatusPCs
    /\ after \in {"poll", "draw"}

\* The rest of the type invariant.
Flags ==
    /\ registered \in BOOLEAN /\ qrcode_visible \in BOOLEAN
    /\ completion_handled \in BOOLEAN /\ status_check_running \in BOOLEAN
    /\ overlay \in BOOLEAN
    /\ flag \in BOOLEAN /\ flag_failed \in BOOLEAN /\ provisioned \in BOOLEAN
    /\ stale \in BOOLEAN /\ cut \in BOOLEAN /\ bound \in BOOLEAN
    /\ first \in [Threads -> BOOLEAN]

Values ==
    /\ pending \in {"none", "show", "hide"}
    /\ prov \in Sessions /\ config \in Files
    /\ told \in 0 .. 2 /\ boots \in 1 .. MaxBoots

\* Nothing runs and nothing is shown before the UI thread has booted.
Fresh ==
    pc["ui"] = "boot" =>
        /\ \A t \in Threads \ {"ui"} : pc[t] = "none"
        /\ prov = "off" /\ ~stale /\ pending = "none" /\ ~overlay
        /\ ~registered /\ ~qrcode_visible /\ ~status_check_running
        /\ told = 0

\* A thread that completed first and has yet to tell the model.
Tells(t) == first[t] /\ pc[t] \in {"open", "write", "stop"}

\* A completion is handled once registered is set: it has been told, or one
\* thread, and only one, is on its way to telling it.
OneTells ==
    /\ completion_handled = registered
    /\ ~registered => told = 0 /\ \A t \in Threads : ~Tells(t)
    /\ registered =>
         \/ told = 1 /\ \A t \in Threads : ~Tells(t)
         \/ told = 0 /\ \E t \in Threads :
                            Tells(t) /\ \A u \in Threads : Tells(u) => u = t

\* An empty flag file is being written.
FlagWritten ==
    registered /\ ~flag /\ ~flag_failed =>
        \E t \in Threads : pc[t] \in {"open", "write"}

\* While the UI thread starts a session there is no other, though this one may
\* already have been stopped.
Beginning == pc["ui"] = "starting" => prov \in {"starting", "halted"}

\* Unless a save failed or was cut short, the configuration is whole once one
\* worker has saved it and no other is at it.
WifiSaved ==
    ~cut =>
        /\ (prov = "saving" \/ stale) => config # "absent"
        /\ (provisioned \/ prov = "joining") /\ prov # "saving" /\ ~stale =>
               config = "whole"

\* A request to show the QR code that a completion did not replace is
\* followed by qrcode_visible, which makes the poll repeat the completion.
Hiding ==
    \/ ~registered \/ qrcode_visible \/ pc["ui"] = "visible"
    \/ \E t \in Threads : Applying(t)
    \/ pending = "hide" \/ (pending = "none" /\ ~overlay)

\* An access point whose session was stopped too early is about to be shown,
\* shown, or about to be stopped.
Stopping ==
    prov = "orphan" =>
        \/ pc["ui"] \in {"info", "qr", "visible"} \/ qrcode_visible
        \/ \E t \in Threads : pc[t] \in {"open", "write", "stop"}

\* The claim belongs to the UI thread, or to the one status thread.
Claimed ==
    /\ pc["ui"] = "spawn" =>
         status_check_running /\ \A s \in StatusThreads : pc[s] = "none"
    /\ status_check_running /\ pc["ui"] # "spawn" =>
         \E s \in StatusThreads :
             pc[s] # "none" /\ \A u \in StatusThreads : pc[u] # "none" => u = s
    /\ ~status_check_running => \A s \in StatusThreads : pc[s] = "none"

Types == Places /\ Flags /\ Values

Control ==
    /\ Fresh /\ OneTells /\ FlagWritten /\ Beginning /\ WifiSaved /\ Survives
    /\ Hiding /\ Stopping /\ Claimed

IInv == Types /\ Control

\* The threads are of four kinds.
LEMMA Kinds ==
    /\ "ui" \in Threads /\ "worker" \in Threads
    /\ \A s \in StatusThreads :
         s \in Threads /\ s \notin Observers \cup {"ui", "worker"}
    /\ \A o \in Observers :
         o \in Threads /\ o \notin StatusThreads \cup {"ui", "worker"}
    /\ \A t \in Threads :
         t \in {"ui", "worker"} \/ t \in Observers \/ t \in StatusThreads
  BY DEF Threads

\* The parts make up the type invariant.
LEMMA TypesOK == Types => TypeOK
  BY DEF Types, Places, Flags, Values, TypeOK

\* The first boot.
LEMMA InitInv == Init => IInv
  <1> SUFFICES ASSUME Init PROVE IInv
    OBVIOUS
  <1> USE Kinds DEF Init, Booted
  <1>1. Places
    BY DEF Places, PCs, UiPCs, CompletionPCs, StatusPCs
  <1>2. Flags
    BY DEF Flags
  <1>3. Values
    BY DEF Values, Sessions
  <1>4. Control
    BY DEF Control, Fresh, OneTells, Tells, FlagWritten, Beginning, WifiSaved, Survives,
           Hiding, Stopping, Claimed
  <1> QED
    BY <1>1, <1>2, <1>3, <1>4 DEF IInv, Types

-----------------------------------------------------------------------------
(***************************************************************************)
(* The types.                                                              *)
(***************************************************************************)
\* Every thread stays where its kind can be.
LEMMA UiPlaces ==
    ASSUME Places, UiStep
    PROVE  Places'
  <1> USE Kinds DEF Places, Goes, UiGoes, PCs, UiPCs, CompletionPCs, StatusPCs
  <1>1. CASE Boot          BY <1>1 DEF Boot, LoadLocalCompleted, ConfigNonempty
  <1>2. CASE Show          BY <1>2 DEF Show
  <1>3. CASE ReuseSoftap   BY <1>3 DEF ReuseSoftap
  <1>4. CASE StartSoftap   BY <1>4 DEF StartSoftap
  <1>5. CASE SoftapStarted BY <1>5 DEF SoftapStarted
  <1>6. CASE BuildPayload  BY <1>6 DEF BuildPayload
  <1>7. CASE ShowQrcode    BY <1>7 DEF ShowQrcode
  <1>8. CASE SetVisible    BY <1>8 DEF SetVisible
  <1>9. CASE Poll          BY <1>9 DEF Poll, PollNext
  <1>10. CASE CheckNotDue  BY <1>10 DEF CheckNotDue
  <1>11. CASE CheckDue     BY <1>11 DEF CheckDue
  <1>12. CASE SpawnStatus  BY <1>12 DEF SpawnStatus
  <1>13. CASE SpawnFails   BY <1>13 DEF SpawnFails
  <1>14. CASE Draw         BY <1>14 DEF Draw
  <1> QED
    BY Zenon, <1>1, <1>2, <1>3, <1>4, <1>5, <1>6, <1>7, <1>8, <1>9, <1>10,
       <1>11, <1>12, <1>13, <1>14 DEF UiStep

\* The steps of a completion or a status check keep the places.
LEMMA ThreadPlaces ==
    ASSUME Places, NEW t \in Threads, Thread(t)
    PROVE  Places'
  <1> USE Kinds DEF Places, Goes, PCs, UiPCs, CompletionPCs, StatusPCs
  <1>1. CASE Mark(t)       BY <1>1 DEF Mark
  <1>2. CASE OpenFlag(t)   BY <1>2 DEF OpenFlag
  <1>3. CASE WriteFlag(t)  BY <1>3 DEF WriteFlag
  <1>4. CASE StopSoftap(t) BY <1>4 DEF StopSoftap, SessionStopped
  <1>5. CASE Hide(t)       BY <1>5 DEF Hide, Return
  <1>6. CASE AskBound(t)   BY <1>6 DEF AskBound
  <1>7. CASE AskInVain(t)  BY <1>7 DEF AskInVain
  <1>8. CASE Finish(t)     BY <1>8 DEF Finish
  <1> QED
    BY Zenon, <1>1, <1>2, <1>3, <1>4, <1>5, <1>6, <1>7, <1>8 DEF Thread,
       ApplyCompleted

WifiStep == Session \/ OpenConfig \/ SaveConfig \/ StaleSave

\* So do the session, the server and a loss of power.
LEMMA OtherPlaces ==
    ASSUME Places, WifiStep \/ Connected \/ Bind \/ Crash
                   \/ \E o \in Observers : Report(o)
    PROVE  Places'
  <1> USE Kinds DEF Places, Goes, PCs, UiPCs, CompletionPCs, StatusPCs
  <1>1. CASE WifiStep
    BY <1>1 DEF WifiStep, Session, OpenConfig, SaveConfig, StaleSave, Written,
              Removed
  <1>2. CASE Connected BY <1>2 DEF Connected
  <1>3. CASE Bind      BY <1>3 DEF Bind
  <1>4. CASE Crash     BY <1>4 DEF Crash, Booted
  <1>5. CASE \E o \in Observers : Report(o)
    BY <1>5 DEF Report
  <1> QED
    BY Zenon, <1>1, <1>2, <1>3, <1>4, <1>5


\* The flags are Booleans, ...
LEMMA UiFlags ==
    ASSUME Flags, UiStep
    PROVE  Flags'
  <1> USE DEF Flags, state, qr, wifi, disk, world
  <1>1. CASE Boot          BY <1>1 DEF Boot, LoadLocalCompleted, ConfigNonempty
  <1>2. CASE Show          BY <1>2 DEF Show
  <1>3. CASE ReuseSoftap   BY <1>3 DEF ReuseSoftap
  <1>4. CASE StartSoftap   BY <1>4 DEF StartSoftap
  <1>5. CASE SoftapStarted BY <1>5 DEF SoftapStarted
  <1>6. CASE BuildPayload  BY <1>6 DEF BuildPayload
  <1>7. CASE ShowQrcode    BY <1>7 DEF ShowQrcode
  <1>8. CASE SetVisible    BY <1>8 DEF SetVisible
  <1>9. CASE Poll          BY <1>9 DEF Poll, PollNext
  <1>10. CASE CheckNotDue  BY <1>10 DEF CheckNotDue
  <1>11. CASE CheckDue     BY <1>11 DEF CheckDue
  <1>12. CASE SpawnStatus  BY <1>12 DEF SpawnStatus
  <1>13. CASE SpawnFails   BY <1>13 DEF SpawnFails
  <1>14. CASE Draw         BY <1>14 DEF Draw
  <1> QED
    BY Zenon, <1>1, <1>2, <1>3, <1>4, <1>5, <1>6, <1>7, <1>8, <1>9, <1>10,
       <1>11, <1>12, <1>13, <1>14 DEF UiStep

\* The steps of a completion or a status check keep the flags Boolean.
LEMMA ThreadFlags ==
    ASSUME Flags, NEW t \in Threads, Thread(t)
    PROVE  Flags'
  <1> USE DEF Flags, state, qr, wifi, disk, world
  <1>1. CASE Mark(t)       BY <1>1 DEF Mark
  <1>2. CASE OpenFlag(t)   BY <1>2 DEF OpenFlag
  <1>3. CASE WriteFlag(t)  BY <1>3 DEF WriteFlag
  <1>4. CASE StopSoftap(t) BY <1>4 DEF StopSoftap, SessionStopped
  <1>5. CASE Hide(t)       BY <1>5 DEF Hide, Return
  <1>6. CASE AskBound(t)   BY <1>6 DEF AskBound
  <1>7. CASE AskInVain(t)  BY <1>7 DEF AskInVain
  <1>8. CASE Finish(t)     BY <1>8 DEF Finish
  <1> QED
    BY Zenon, <1>1, <1>2, <1>3, <1>4, <1>5, <1>6, <1>7, <1>8 DEF Thread,
       ApplyCompleted

\* So do the session, the server and a loss of power.
LEMMA OtherFlags ==
    ASSUME Flags, WifiStep \/ Connected \/ Bind \/ Crash
                  \/ \E o \in Observers : Report(o)
    PROVE  Flags'
  <1> USE DEF Flags, state, qr, wifi, disk, world
  <1>1. CASE Session    BY <1>1 DEF Session
  <1>2. CASE OpenConfig BY <1>2 DEF OpenConfig
  <1>3. CASE SaveConfig BY <1>3 DEF SaveConfig, Removed
  <1>4. CASE StaleSave  BY <1>4 DEF StaleSave, Removed
  <1>5. CASE Connected  BY <1>5 DEF Connected
  <1>6. CASE Bind       BY <1>6 DEF Bind
  <1>7. CASE Crash      BY <1>7 DEF Crash
  <1>8. CASE \E o \in Observers : Report(o)
    BY <1>8 DEF Report
  <1> QED
    BY Zenon, <1>1, <1>2, <1>3, <1>4, <1>5, <1>6, <1>7, <1>8 DEF WifiStep

\* ... and the other variables within their bounds.
LEMMA UiValues ==
    ASSUME Values, UiStep
    PROVE  Values'
  <1> USE DEF Values, Sessions, Files, qr, wifi, disk, world
  <1>1. CASE Boot          BY <1>1 DEF Boot, LoadLocalCompleted, ConfigNonempty
  <1>2. CASE Show          BY <1>2 DEF Show
  <1>3. CASE ReuseSoftap   BY <1>3 DEF ReuseSoftap
  <1>4. CASE StartSoftap   BY <1>4 DEF StartSoftap
  <1>5. CASE SoftapStarted BY <1>5 DEF SoftapStarted
  <1>6. CASE BuildPayload  BY <1>6 DEF BuildPayload
  <1>7. CASE ShowQrcode    BY <1>7 DEF ShowQrcode
  <1>8. CASE SetVisible    BY <1>8 DEF SetVisible
  <1>9. CASE Poll          BY <1>9 DEF Poll, PollNext
  <1>10. CASE CheckNotDue  BY <1>10 DEF CheckNotDue
  <1>11. CASE CheckDue     BY <1>11 DEF CheckDue
  <1>12. CASE SpawnStatus  BY <1>12 DEF SpawnStatus
  <1>13. CASE SpawnFails   BY <1>13 DEF SpawnFails
  <1>14. CASE Draw         BY <1>14 DEF Draw
  <1> QED
    BY Zenon, <1>1, <1>2, <1>3, <1>4, <1>5, <1>6, <1>7, <1>8, <1>9, <1>10,
       <1>11, <1>12, <1>13, <1>14 DEF UiStep

\* The steps of a completion or a status check keep the other values.
LEMMA ThreadValues ==
    ASSUME Values, NEW t \in Threads, Thread(t)
    PROVE  Values'
  <1> USE DEF Values, Sessions, Files, qr, wifi, disk, world
  <1>1. CASE Mark(t)       BY <1>1 DEF Mark
  <1>2. CASE OpenFlag(t)   BY <1>2 DEF OpenFlag
  <1>3. CASE WriteFlag(t)  BY <1>3 DEF WriteFlag
  <1>4. CASE StopSoftap(t) BY <1>4 DEF StopSoftap, SessionStopped
  <1>5. CASE Hide(t)       BY <1>5 DEF Hide, Return
  <1>6. CASE AskBound(t)   BY <1>6 DEF AskBound
  <1>7. CASE AskInVain(t)  BY <1>7 DEF AskInVain
  <1>8. CASE Finish(t)     BY <1>8 DEF Finish
  <1> QED
    BY Zenon, <1>1, <1>2, <1>3, <1>4, <1>5, <1>6, <1>7, <1>8 DEF Thread,
       ApplyCompleted

\* So do the session, the server and a loss of power.
LEMMA OtherValues ==
    ASSUME Values, WifiStep \/ Connected \/ Bind \/ Crash
                   \/ \E o \in Observers : Report(o)
    PROVE  Values'
  <1> USE DEF Values, Sessions, Files, qr, wifi, disk, world
  <1>1. CASE WifiStep
    BY <1>1 DEF WifiStep, Session, OpenConfig, SaveConfig, StaleSave, Written,
              Removed
  <1>2. CASE Connected BY <1>2 DEF Connected
  <1>3. CASE Bind      BY <1>3 DEF Bind
  <1>4. CASE Crash     BY <1>4 DEF Crash, Booted
  <1>5. CASE \E o \in Observers : Report(o)
    BY <1>5 DEF Report
  <1> QED
    BY Zenon, <1>1, <1>2, <1>3, <1>4, <1>5


-----------------------------------------------------------------------------
(***************************************************************************)
(* The control.                                                            *)
(***************************************************************************)
\* The UI thread: a show, a poll and the boot.
LEMMA UiControl ==
    ASSUME IInv, UiStep
    PROVE  Control'
  <1> USE Kinds DEF IInv, Types, Places, Flags, Values, Sessions, Control, Fresh,
              OneTells, Tells, FlagWritten, Beginning, WifiSaved, Survives, Hiding, Applying,
              Stopping, Claimed, Files,
              Goes, UiGoes, PCs, UiPCs, CompletionPCs, StatusPCs,
              state, qr, wifi, disk, world
  <1>1. CASE Boot
    <2>1. (provisioned /\ ~cut => registered') /\ registered' \in BOOLEAN
      BY <1>1 DEF Boot, LoadLocalCompleted, ConfigNonempty
    <2>2. flag' \in {flag, registered'} /\ flag_failed' = (registered' /\ ~flag')
      BY <1>1 DEF Boot, LoadLocalCompleted
    <2>3. /\ ~qrcode_visible' /\ completion_handled' = registered'
          /\ ~status_check_running' /\ told' = (IF registered' THEN 1 ELSE 0)
          /\ pc' = [pc EXCEPT !["ui"] = "show"] /\ pc["ui"] = "boot"
          /\ UNCHANGED <<pending, overlay, provisioned, config, stale, cut,
                         prov, first>>
      BY <1>1 DEF Boot
    <2>4. OneTells' /\ Claimed'
      BY <2>1, <2>3
    <2>5. FlagWritten'
      BY <2>1, <2>2, <2>3
    <2>6. WifiSaved' /\ Survives'
      BY <2>1, <2>3
    <2>7. Fresh' /\ Beginning' /\ Hiding' /\ Stopping'
      BY <2>3
    <2> QED
      BY <2>4, <2>5, <2>6, <2>7
  <1>2. CASE Show          BY <1>2 DEF Show
  <1>3. CASE ReuseSoftap   BY <1>3 DEF ReuseSoftap
  <1>4. CASE StartSoftap   BY <1>4 DEF StartSoftap
  <1>5. CASE SoftapStarted
    <2>1. /\ pc["ui"] = "starting" /\ pc' = [pc EXCEPT !["ui"] = pc'["ui"]]
          /\ pc'["ui"] \in {"info", "poll", "draw"}
          /\ prov' = "orphan" => pc'["ui"] = "info"
          /\ prov' \in {"orphan", "on", "off"}
          /\ UNCHANGED <<state, status_check_running, qr, disk, world, told,
                         first>>
      BY <1>5 DEF SoftapStarted
    <2>2. Fresh' /\ OneTells' /\ FlagWritten'
      BY <2>1
    <2>3. Beginning' /\ WifiSaved' /\ Survives'
      BY <2>1
    <2>4. Stopping' /\ Claimed'
      BY <2>1
    <2>5. Hiding'
      <3>1. \A t \in Threads : t # "ui" => pc'[t] = pc[t]
        BY <2>1
      <3>2. (\E t \in Threads : Applying(t)) => (\E t \in Threads : Applying(t))'
        BY <2>1, <3>1
      <3> QED
        BY <2>1, <3>2 DEF Hiding
    <2> QED
      BY <2>2, <2>3, <2>4, <2>5
  <1>6. CASE BuildPayload  BY <1>6 DEF BuildPayload
  <1>7. CASE ShowQrcode    BY <1>7 DEF ShowQrcode
  <1>8. CASE SetVisible    BY <1>8 DEF SetVisible
  <1>9. CASE Poll          BY <1>9 DEF Poll, PollNext
  <1>10. CASE CheckNotDue  BY <1>10 DEF CheckNotDue
  <1>11. CASE CheckDue     BY <1>11 DEF CheckDue
  <1>12. CASE SpawnStatus  BY <1>12 DEF SpawnStatus
  <1>13. CASE SpawnFails   BY <1>13 DEF SpawnFails
  <1>14. CASE Draw         BY <1>14 DEF Draw
  <1> QED
    BY Zenon, <1>1, <1>2, <1>3, <1>4, <1>5, <1>6, <1>7, <1>8, <1>9, <1>10,
       <1>11, <1>12, <1>13, <1>14 DEF UiStep

\* A thread that completes the registration or asks the server.
LEMMA ThreadControl ==
    ASSUME IInv, NEW t \in Threads, Thread(t)
    PROVE  Control'
  <1> USE Kinds DEF IInv, Types, Places, Flags, Values, Sessions, Control, Fresh,
              OneTells, Tells, FlagWritten, Beginning, WifiSaved, Survives, Hiding, Applying,
              Stopping, Claimed, Files,
              Goes, PCs, UiPCs, CompletionPCs, StatusPCs,
              state, qr, wifi, disk, world
  <1>1. CASE Mark(t)
    <2>1. \A u \in Threads \ {t} : Tells(u)' <=> Tells(u)
      BY <1>1 DEF Mark
    <2>2. ~Tells(t) /\ (Tells(t)' <=> ~registered)
      <3>1. first'[t] = ~completion_handled /\ pc[t] = "mark" /\ pc'[t] = "open"
        BY <1>1 DEF Mark
      <3> QED
        BY <3>1
    <2>3. told' = told /\ registered' /\ completion_handled'
      BY <1>1 DEF Mark
    <2>4. OneTells'
      BY <2>1, <2>2, <2>3
    <2>5. /\ Fresh' /\ FlagWritten' /\ Beginning' /\ WifiSaved' /\ Survives'
          /\ Hiding' /\ Stopping' /\ Claimed'
      BY <1>1 DEF Mark
    <2> QED
      BY <2>4, <2>5
  <1>2. CASE OpenFlag(t)   BY <1>2 DEF OpenFlag
  <1>3. CASE WriteFlag(t)  BY <1>3 DEF WriteFlag
  <1>4. CASE StopSoftap(t) BY <1>4 DEF StopSoftap, SessionStopped
  <1>5. CASE Hide(t)       BY <1>5 DEF Hide, Return
  <1>6. CASE AskBound(t)   BY <1>6 DEF AskBound
  <1>7. CASE AskInVain(t)  BY <1>7 DEF AskInVain
  <1>8. CASE Finish(t)     BY <1>8 DEF Finish
  <1> QED
    BY Zenon, <1>1, <1>2, <1>3, <1>4, <1>5, <1>6, <1>7, <1>8 DEF Thread,
       ApplyCompleted

\* The phone, the user, the dispatcher and a loss of power.
LEMMA OtherControl ==
    ASSUME IInv, WifiStep \/ Connected \/ Bind \/ Crash
                 \/ \E o \in Observers : Report(o)
    PROVE  Control'
  <1> USE Kinds DEF IInv, Types, Places, Flags, Values, Sessions, Control, Fresh,
              OneTells, Tells, FlagWritten, Beginning, WifiSaved, Survives, Hiding, Applying,
              Stopping, Claimed, Files,
              Goes, PCs, UiPCs, CompletionPCs, StatusPCs,
              state, qr, wifi, disk, world
  <1>1. CASE WifiStep
    BY <1>1 DEF WifiStep, Session, OpenConfig, SaveConfig, StaleSave, Written,
              Removed
  <1>2. CASE Connected BY <1>2 DEF Connected
  <1>3. CASE Bind      BY <1>3 DEF Bind
  <1>4. CASE Crash     BY <1>4 DEF Crash, Booted
  <1>5. CASE \E o \in Observers : Report(o)
    BY <1>5 DEF Report
  <1> QED
    BY Zenon, <1>1, <1>2, <1>3, <1>4, <1>5

\* Every step keeps the invariant.
LEMMA NextInv == IInv /\ [Next]_vars => IInv'
  <1> SUFFICES ASSUME IInv, [Next]_vars
               PROVE  Places' /\ Flags' /\ Values' /\ Control'
    BY DEF IInv, Types
  <1>1. Places /\ Flags /\ Values
    BY DEF IInv, Types
  <1>2. CASE UNCHANGED vars
    <2>1. Places' /\ Flags' /\ Values'
      BY <1>1, <1>2 DEF vars, state, qr, wifi, disk, world, Places, Flags, Values
    <2>2. Control'
      BY <1>2 DEF vars, state, qr, wifi, disk, world, IInv, Control, Fresh, OneTells,
                  Tells, FlagWritten, Beginning, WifiSaved, Survives, Hiding, Applying,
                  Stopping, Claimed
    <2> QED
      BY <2>1, <2>2
  <1>3. CASE UiStep
    BY <1>1, <1>3, UiPlaces, UiFlags, UiValues, UiControl
  <1>4. CASE \E t \in Threads : Thread(t)
    BY <1>1, <1>4, ThreadPlaces, ThreadFlags, ThreadValues, ThreadControl
  <1>5. CASE WifiStep \/ Connected \/ Bind \/ Crash
             \/ \E o \in Observers : Report(o)
    BY <1>1, <1>5, OtherPlaces, OtherFlags, OtherValues, OtherControl
  <1> QED
    BY Zenon, <1>2, <1>3, <1>4, <1>5 DEF Next, WifiStep

\* The invariant holds in every behaviour of the registration.
THEOREM RegistrationInvariant == Spec => []IInv
  BY InitInv, NextInv, PTL DEF Spec

\* Types of the registration, for any number of threads and boots.
THEOREM RegistrationTypeCorrect == Spec => []TypeOK
  <1>1. IInv => TypeOK
    BY TypesOK DEF IInv
  <1> QED
    BY <1>1, RegistrationInvariant, PTL

\* When the UI thread sees nothing left to repair the QR code is off the
\* screen, or about to be.
THEOREM RegistrationHidden == Spec => []HiddenWhenDone
  <1>1. IInv => HiddenWhenDone
    BY DEF IInv, Control, Hiding, HiddenWhenDone
  <1> QED
    BY <1>1, RegistrationInvariant, PTL

\* However many threads complete the registration, the model is told once.
THEOREM RegistrationToldOnce == Spec => []ToldOnce
  <1>1. IInv => ToldOnce
    BY DEF IInv, Control, OneTells, Tells, ToldOnce, Applying
  <1> QED
    BY <1>1, RegistrationInvariant, PTL

\* A registered device that is at rest has content in its flag file, unless
\* a write failed.
THEOREM RegistrationFlag == Spec => []FlagRemembers
  <1>1. IInv => FlagRemembers
    BY DEF IInv, Types, Flags, Control, FlagWritten, FlagRemembers, Applying
  <1> QED
    BY <1>1, RegistrationInvariant, PTL

\* No loss of power makes a provisioned device forget that it is registered,
\* unless a save of its Wi-Fi configuration failed or was cut short.
THEOREM RegistrationSurvives == Spec => []Survives
  <1>1. IInv => Survives
    BY DEF IInv, Control
  <1> QED
    BY <1>1, RegistrationInvariant, PTL

\* An access point whose start was overtaken by a stop is stopped once more.
THEOREM RegistrationNoOrphan == Spec => []NoOrphan
  <1>1. IInv => NoOrphan
    BY DEF IInv, Control, Stopping, NoOrphan, Applying
  <1> QED
    BY <1>1, RegistrationInvariant, PTL

\* Two status checks never run at once, and no claim outlives its check.
THEOREM RegistrationClaim == Spec => []ClaimHeld
  <1>1. IInv => ClaimHeld
    <2> DEFINE Holders == {s \in StatusThreads : pc[s] # "none"} \cup
                          {t \in {"ui"} : pc[t] = "spawn"}
    <2> SUFFICES ASSUME IInv
                 PROVE  Cardinality(Holders) =
                            IF status_check_running THEN 1 ELSE 0
      BY DEF ClaimHeld
    <2>1. ASSUME status_check_running PROVE \E h : Holders = {h}
      <3>1. CASE pc["ui"] = "spawn"
        BY <2>1, <3>1 DEF IInv, Control, Claimed
      <3>2. CASE pc["ui"] # "spawn"
        <4>1. PICK s \in StatusThreads :
                 pc[s] # "none" /\ \A u \in StatusThreads : pc[u] # "none" => u = s
          BY <2>1, <3>2 DEF IInv, Control, Claimed
        <4> QED
          BY <3>2, <4>1
      <3> QED
        BY <3>1, <3>2
    <2>2. ASSUME ~status_check_running PROVE Holders = {}
      BY <2>2 DEF IInv, Control, Claimed
    <2>3. Cardinality({}) = 0 /\ \A h : Cardinality({h}) = 1
      BY Zenon, FS_EmptySet, FS_Singleton
    <2> QED
      BY <2>1, <2>2, <2>3
  <1> QED
    BY <1>1, RegistrationInvariant, PTL
=============================================================================
