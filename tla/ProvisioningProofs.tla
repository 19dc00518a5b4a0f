------------------------- MODULE ProvisioningProofs -------------------------
(***************************************************************************)
(* Proofs about Provisioning, for any number of sessions: the types, and   *)
(* that one caller at a time never leaves a zombie session.                *)
(***************************************************************************)
EXTENDS Provisioning, TLAPS

USE SessionAssumption

\* Start and stop are not called at the same time.
OneCaller == \A c, d \in Callers : c = d

\* A worker that has not yet taken the access point down.
BeforeOff ==
    {"born", "wait", "accept", "got", "timedout", "connecting", "save",
     "saved", "unsaved", "off", "undo"}

(***************************************************************************)
(* What one caller guarantees.  Between open and spawn nobody has asked to *)
(* stop, and until it is shown the access point is down; outside the calls *)
(* a session that runs has a worker that attends to it, and an access      *)
(* point that is up has one that will take it down.                        *)
(***************************************************************************)
SessionInv ==
    /\ \A c \in Callers :
         cpc[c] \in {"radio", "show", "spawn"} =>
             ~stop_requested /\ opened[c] = session_id /\ opened[c] \in Workers
    /\ \A c \in Callers : cpc[c] \in {"open", "radio", "show"} => ~softap
    /\ (\A c \in Callers : cpc[c] \in {"idle", "open"}) =>
         /\ running => \E w \in Workers : Attends(w)
         /\ softap => \E w \in Workers : Attends(w) /\ wpc[w] \in BeforeOff

IInv == TypeOK /\ SessionInv

\* No session, no caller and no worker at first.
LEMMA TypeInit == Init => TypeOK
  <1>1. 0 \in Sessions
    BY DEF Sessions
  <1> QED
    BY <1>1 DEF Init, TypeOK, States, CallerPCs, WorkerPCs

\* A caller's call keeps the types.
LEMMA CallerTypes ==
    ASSUME TypeOK, NEW c \in Callers, Caller(c)
    PROVE  TypeOK'
  <1> USE DEF TypeOK, CallerGoes, session, guards, callers, workers,
              States, CallerPCs, WorkerPCs
  <1>1. CASE Start(c)      BY <1>1 DEF Start
  <1>2. CASE NoConfig(c)   BY <1>2 DEF NoConfig
  <1>3. CASE Open(c)
    <2>1. session_id' \in Sessions /\ opened' \in [Callers -> Sessions]
      BY <1>3 DEF Open, Sessions
    <2> QED
      BY <1>3, <2>1 DEF Open
  <1>4. CASE RadioFails(c) BY <1>4 DEF RadioFails
  <1>5. CASE RadioOn(c)    BY <1>5 DEF RadioOn
  <1>6. CASE Show(c)       BY <1>6 DEF Show
  <1>7. CASE Spawn(c)      BY <1>7 DEF Spawn
  <1>8. CASE SpawnUndone(c) BY <1>8 DEF SpawnUndone
  <1>9. CASE Stop(c)
    <2>1. session_id' \in Sessions
      BY <1>9 DEF Stop, Sessions
    <2> QED
      BY <1>9, <2>1 DEF Stop
  <1>10. CASE Stopped(c)   BY <1>10 DEF Stopped
  <1> QED
    BY Zenon, <1>1, <1>2, <1>3, <1>4, <1>5, <1>6, <1>7, <1>8, <1>9, <1>10
       DEF Caller

\* A worker's step moves only that worker, and keeps the types.
LEMMA WorkerMoves ==
    ASSUME TypeOK, NEW w \in Workers, Worker(w)
    PROVE  /\ \E pc \in WorkerPCs : wpc' = [wpc EXCEPT ![w] = pc]
           /\ my' = my \/ (wpc[w] = "born" /\ my' = [my EXCEPT ![w] = session_id]
                                           /\ wpc' = [wpc EXCEPT ![w] = "wait"])
           /\ UNCHANGED <<guards, callers>>
           /\ state' \in States
           /\ running' = running \/ running' = FALSE
           /\ softap' = softap \/ softap' = FALSE
  <1> USE DEF TypeOK, WorkerGoes, session, guards, callers, States, WorkerPCs
  <1>1. CASE Begin(w)      BY <1>1 DEF Begin
  <1>2. CASE Poll(w)       BY <1>2 DEF Poll
  <1>3. CASE Accept(w)     BY <1>3 DEF Accept
  <1>4. CASE GiveUp(w)     BY <1>4 DEF GiveUp
  <1>5. CASE Check(w)      BY <1>5 DEF Check, Checked
  <1>6. CASE Connecting(w) BY <1>6 DEF Connecting
  <1>7. CASE SoftapOff(w)  BY <1>7 DEF SoftapOff
  <1>8. CASE SoftapUndo(w) BY <1>8 DEF SoftapUndo
  <1>9. CASE Connect(w)    BY <1>9 DEF Connect
  <1>10. CASE Joined(w)    BY <1>10 DEF Joined
  <1>11. CASE Connected(w) BY <1>11 DEF Connected
  <1>12. CASE Fail(w)      BY <1>12 DEF Fail
  <1> QED
    BY Zenon, <1>1, <1>2, <1>3, <1>4, <1>5, <1>6, <1>7, <1>8, <1>9, <1>10,
       <1>11, <1>12 DEF Worker

\* The steps of a worker keep the types.
LEMMA WorkerTypes ==
    ASSUME TypeOK, NEW w \in Workers, Worker(w)
    PROVE  TypeOK'
  <1>1. /\ \E pc \in WorkerPCs : wpc' = [wpc EXCEPT ![w] = pc]
        /\ my' = my \/ my' = [my EXCEPT ![w] = session_id]
        /\ UNCHANGED <<stop_requested, session_id, cpc, opened>>
        /\ state' \in States
        /\ running' = running \/ running' = FALSE
        /\ softap' = softap \/ softap' = FALSE
    BY Zenon, WorkerMoves DEF guards, callers
  <1>2. wpc' \in [Workers -> WorkerPCs] /\ my' \in [Workers -> Sessions]
    BY <1>1 DEF TypeOK
  <1>3. running' \in BOOLEAN /\ softap' \in BOOLEAN
    BY <1>1 DEF TypeOK
  <1> QED
    BY <1>1, <1>2, <1>3 DEF TypeOK

\* Every step keeps the types.
LEMMA TypeNext == TypeOK /\ [Next]_vars => TypeOK'
  <1> SUFFICES ASSUME TypeOK, [Next]_vars PROVE TypeOK'
    OBVIOUS
  <1>1. CASE UNCHANGED vars
    BY <1>1 DEF vars, session, guards, callers, workers, TypeOK
  <1> QED
    BY Zenon, <1>1, CallerTypes, WorkerTypes DEF Next

\* Types, for any number of callers and sessions.
THEOREM ProvisioningTypeCorrect == Spec => []TypeOK
  BY TypeInit, TypeNext, PTL DEF Spec
-----------------------------------------------------------------------------
(***************************************************************************)
(* One caller.                                                             *)
(***************************************************************************)
LEMMA SessionInit == Init => SessionInv
  BY DEF Init, SessionInv

\* What a worker leaves standing: another worker attends as before, and this
\* one stops attending only by ending the session.
LEMMA WorkerKeeps ==
    ASSUME TypeOK, SessionInv, NEW w \in Workers, Worker(w)
    PROVE  SessionInv'
  <1>1. /\ UNCHANGED <<stop_requested, session_id, cpc, opened>>
        /\ running' = running \/ running' = FALSE
        /\ softap' = softap \/ softap' = FALSE
    BY Zenon, WorkerMoves DEF guards, callers
  <1>2. PICK pc \in WorkerPCs : wpc' = [wpc EXCEPT ![w] = pc]
    BY Zenon, WorkerMoves
  <1>3. /\ wpc'[w] = pc
        /\ \A v \in Workers : v # w => wpc'[v] = wpc[v] /\ my'[v] = my[v]
    <2>1. my' = my \/ my' = [my EXCEPT ![w] = session_id]
      BY Zenon, WorkerMoves
    <2> QED
      BY <1>2, <2>1 DEF TypeOK
  <1>4. ASSUME NEW v \in Workers, v # w, Attends(v)
        PROVE  Attends(v)' /\ (wpc[v] \in BeforeOff => wpc'[v] \in BeforeOff)
    BY <1>1, <1>3, <1>4 DEF Attends, Live
  \* This worker attends on, or ends the session.
  <1>5. ASSUME Attends(w)
        PROVE  Attends(w)' \/ running' = FALSE
    <2> USE <1>5, <1>1 DEF TypeOK, Attends, Live, WorkerGoes, Cancelled,
                           session, guards, callers
    <2>1. CASE Begin(w)      BY <2>1 DEF Begin
    <2>2. CASE Poll(w)       BY <2>2 DEF Poll
    <2>3. CASE Accept(w)     BY <2>3 DEF Accept
    <2>4. CASE GiveUp(w)     BY <2>4 DEF GiveUp
    <2>5. CASE Check(w)      BY <2>5 DEF Check, Checked
    <2>6. CASE Connecting(w) BY <2>6 DEF Connecting
    <2>7. CASE SoftapOff(w)  BY <2>7 DEF SoftapOff
    <2>8. CASE SoftapUndo(w) BY <2>8 DEF SoftapUndo
    <2>9. CASE Connect(w)    BY <2>9 DEF Connect
    <2>10. CASE Joined(w)    BY <2>10 DEF Joined
    <2>11. CASE Connected(w) BY <2>11 DEF Connected
    <2>12. CASE Fail(w)      BY <2>12 DEF Fail
    <2> QED
      BY Zenon, <2>1, <2>2, <2>3, <2>4, <2>5, <2>6, <2>7, <2>8, <2>9, <2>10,
         <2>11, <2>12 DEF Worker
  \* While the access point is its task, it keeps it or takes it down.
  <1>6. ASSUME Attends(w), wpc[w] \in BeforeOff
        PROVE  (Attends(w)' /\ wpc'[w] \in BeforeOff) \/ softap' = FALSE
    <2> USE <1>6, <1>1 DEF TypeOK, Attends, Live, WorkerGoes, Cancelled,
                           BeforeOff, session, guards, callers
    <2>1. CASE Begin(w)      BY <2>1 DEF Begin
    <2>2. CASE Poll(w)       BY <2>2 DEF Poll
    <2>3. CASE Accept(w)     BY <2>3 DEF Accept
    <2>4. CASE GiveUp(w)     BY <2>4 DEF GiveUp
    <2>5. CASE Check(w)      BY <2>5 DEF Check, Checked
    <2>6. CASE Connecting(w) BY <2>6 DEF Connecting
    <2>7. CASE SoftapOff(w)  BY <2>7 DEF SoftapOff
    <2>8. CASE SoftapUndo(w) BY <2>8 DEF SoftapUndo
    <2>9. CASE Connect(w)    BY <2>9 DEF Connect
    <2>10. CASE Joined(w)    BY <2>10 DEF Joined
    <2>11. CASE Connected(w) BY <2>11 DEF Connected
    <2>12. CASE Fail(w)      BY <2>12 DEF Fail
    <2> QED
      BY Zenon, <2>1, <2>2, <2>3, <2>4, <2>5, <2>6, <2>7, <2>8, <2>9, <2>10,
         <2>11, <2>12 DEF Worker
  <1>7. ASSUME \A c \in Callers : cpc[c] \in {"idle", "open"}
        PROVE  /\ running' => \E v \in Workers : Attends(v)'
               /\ softap' => \E v \in Workers : Attends(v)' /\ wpc'[v] \in BeforeOff
    <2>1. ASSUME running' PROVE \E v \in Workers : Attends(v)'
      <3>1. running
        BY <1>1, <2>1
      <3>2. PICK v \in Workers : Attends(v)
        BY Zenon, <1>7, <3>1 DEF SessionInv
      <3> QED
        BY Zenon, <1>4, <1>5, <2>1, <3>2
    <2>2. ASSUME softap'
          PROVE \E v \in Workers : Attends(v)' /\ wpc'[v] \in BeforeOff
      <3>1. softap
        BY <1>1, <2>2
      <3>2. PICK v \in Workers : Attends(v) /\ wpc[v] \in BeforeOff
        BY Zenon, <1>7, <3>1 DEF SessionInv
      <3> QED
        BY Zenon, <1>4, <1>6, <2>2, <3>2
    <2> QED
      BY Zenon, <2>1, <2>2
  <1>8. /\ \A c \in Callers : cpc'[c] = cpc[c] /\ opened'[c] = opened[c]
        /\ stop_requested' = stop_requested /\ session_id' = session_id
    BY <1>1
  <1>9. ~softap => ~softap'
    BY <1>1
  <1> QED
    BY Zenon, <1>7, <1>8, <1>9 DEF SessionInv

\* A call that is not under way at its end leaves the invariant as it is.
LEMMA CallerKeeps ==
    ASSUME OneCaller, TypeOK, SessionInv, NEW c \in Callers, Caller(c)
    PROVE  SessionInv'
  <1>1. Callers = {c}
    BY Zenon DEF OneCaller
  <1>2. \A w \in Workers : Attends(w) <=>
          /\ wpc[w] \notin {"none", "done"}
          /\ ~stop_requested
          /\ wpc[w] = "born" \/ my[w] = session_id
    BY DEF Attends, Live
  <1> USE <1>1 DEF TypeOK, SessionInv, CallerGoes, session, guards, callers,
                   workers, Attends, Live
  <1>3. CASE Start(c)      BY <1>3 DEF Start
  <1>4. CASE NoConfig(c)   BY <1>4 DEF NoConfig
  <1>5. CASE Open(c)
    <2>1. session_id + 1 \in Workers
      BY <1>5 DEF Open, Sessions, Workers
    <2> QED
      BY <1>5, <2>1 DEF Open
  <1>6. CASE RadioFails(c)
    BY <1>6 DEF RadioFails
  <1>7. CASE RadioOn(c)    BY <1>7 DEF RadioOn
  <1>8. CASE Show(c)       BY <1>8 DEF Show
  <1>9. CASE Spawn(c)
    <2>1. ~stop_requested /\ opened[c] \in Workers
      BY <1>9 DEF Spawn
    <2>2. CASE cpc' = [cpc EXCEPT ![c] = "idle"]
               /\ wpc' = [wpc EXCEPT ![opened[c]] = "born"]
      <3>1. wpc'[opened[c]] = "born"
        BY <2>1, <2>2
      <3>2. Attends(opened[c])' /\ wpc'[opened[c]] \in BeforeOff
        BY <1>9, <2>1, <3>1 DEF Spawn, BeforeOff
      <3> QED
        BY <1>9, <2>1, <2>2, <3>2 DEF Spawn
    <2>3. CASE cpc' = [cpc EXCEPT ![c] = "undo"]
      BY <1>9, <2>3 DEF Spawn
    <2> QED
      BY <1>9, <2>2, <2>3 DEF Spawn
  <1>10. CASE SpawnUndone(c) BY <1>10 DEF SpawnUndone
  <1>11. CASE Stop(c)      BY <1>11 DEF Stop
  <1>12. CASE Stopped(c)   BY <1>12 DEF Stopped
  <1> QED
    BY Zenon, <1>3, <1>4, <1>5, <1>6, <1>7, <1>8, <1>9, <1>10, <1>11, <1>12
       DEF Caller

\* As long as start and stop are not called at the same time, a session that
\* is reported as running has a worker that will end it.
THEOREM NoZombieCorrect ==
    ASSUME OneCaller
    PROVE  Spec => []NoZombie
  <1>1. IInv /\ [Next]_vars => IInv'
    <2> SUFFICES ASSUME TypeOK, SessionInv, [Next]_vars
                 PROVE  TypeOK' /\ SessionInv'
      BY DEF IInv
    <2>1. TypeOK'
      BY Zenon, TypeNext
    <2>2. CASE UNCHANGED vars
      <3>1. /\ cpc' = cpc /\ opened' = opened /\ wpc' = wpc /\ my' = my
            /\ stop_requested' = stop_requested /\ session_id' = session_id
            /\ running' = running /\ softap' = softap
        BY <2>2 DEF vars, session, guards, callers, workers
      <3>2. \A w \in Workers : Attends(w)' <=> Attends(w)
        BY <3>1 DEF Attends, Live
      <3> QED
        BY Zenon, <2>1, <3>1, <3>2 DEF SessionInv
    <2> QED
      BY Zenon, <2>1, <2>2, CallerKeeps, WorkerKeeps DEF Next
  <1>2. Init => IInv
    BY TypeInit, SessionInit DEF IInv
  <1>3. IInv => NoZombie
    BY DEF IInv, SessionInv, NoZombie, Quiet
  <1> QED
    BY <1>1, <1>2, <1>3, PTL DEF Spec
=============================================================================
