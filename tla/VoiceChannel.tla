---------------------------- MODULE VoiceChannel ----------------------------
(***************************************************************************)
(* The voice channel of ai_agent (voice/voice_channel.c) with the capture  *)
(* and playback handles it opens (audio_capture.c, audio_playback.c).      *)
(*                                                                         *)
(*   - The poll thread calls voice_channel_start and voice_channel_stop.   *)
(*   - The recording thread lives from one to the other: it reads the      *)
(*     capture and feeds a stream of the speech recognition.               *)
(*   - The speakers, threads that call voice_channel_speak.                *)
(*                                                                         *)
(* A section under s_voice.lock is one action.  speak_lock is held across  *)
(* actions and is a variable.  A call refused at once (-EBUSY, -EINVAL)    *)
(* changes nothing and is not an action.  The samples, their buffer and    *)
(* the recognised text are left out.                                       *)
(***************************************************************************)
EXTENDS Integers, FiniteSets

CONSTANTS
    Speakers,   \* threads that speak: tts_poll, outbound
    None,       \* no speaker
    MaxOpen     \* bound on captures, and on streams, open at once

ASSUME ChannelAssumption ==
    /\ None \notin Speakers
    /\ MaxOpen \in Nat \ {0}

VARIABLES
    state,      \* s_voice.state
    cap,        \* what s_voice.cap points to
    captures,   \* number of captures open
    stored,     \* whether s_voice.asr_stream is set
    held,       \* whether the recording thread has a stream
    streams,    \* number of streams open
    ready,      \* the semaphore rec_ready
    rpc, tpc,   \* where the poll thread and the recording thread are
    abort, pb,  \* s_voice.tts_abort, s_voice.tts_pb
    speakLock,  \* holder of speak_lock
    spc, out,   \* where each speaker is, its playback
    starved     \* there was no memory for a fallback buffer

mic    == <<cap, captures>>
asr    == <<stored, held, streams>>
sound  == <<abort, pb, speakLock, spc, out>>
record == <<state, mic, asr, ready, rpc, tpc>>
vars   == <<record, sound, starved>>

Init ==
    /\ state = "idle" /\ cap = "null" /\ captures = 0
    /\ stored = FALSE /\ held = FALSE /\ streams = 0
    /\ ready = 0 /\ rpc = "idle" /\ tpc = "none"
    /\ abort = FALSE /\ pb = None /\ speakLock = None
    /\ spc = [s \in Speakers |-> "idle"]
    /\ out = [s \in Speakers |-> "closed"]
    /\ starved = FALSE

Count(b) == IF b THEN 1 ELSE 0

StopPlayback == [s \in Speakers |-> IF s = pb THEN "stopped" ELSE out[s]]

-----------------------------------------------------------------------------
(***************************************************************************)
(* voice_channel_start.                                                    *)
(***************************************************************************)
RecGoes(from, to) == rpc = from /\ rpc' = to

\* Speech that is playing is stopped, and its thread awaited.
StopTts ==
    /\ state = "idle" /\ pb # None
    /\ RecGoes("idle", "await")
    /\ ready' = 0
    /\ abort' = TRUE /\ out' = StopPlayback
    /\ UNCHANGED <<state, mic, asr, tpc, pb, speakLock, spc, starved>>

AwaitSpeak ==
    /\ speakLock = None
    /\ RecGoes("await", "retry")
    /\ UNCHANGED <<state, mic, asr, ready, tpc, sound, starved>>

\* A stream is opened if possible; then the capture, or nothing is left open.
Claim ==
    /\ state = "idle"
    /\ rpc = "retry" \/ (rpc = "idle" /\ pb = None)
    /\ ready' = 0
    /\ \/ \E pre \in BOOLEAN :
              /\ captures < MaxOpen
              /\ stored' = pre /\ streams' = streams + Count(pre)
              /\ cap' = "open" /\ captures' = captures + 1
              /\ state' = "recording" /\ rpc' = "spawn"
       \/ /\ stored' = FALSE /\ cap' = "null" /\ rpc' = "idle"
          /\ UNCHANGED <<state, captures, streams>>
    /\ UNCHANGED <<held, tpc, sound, starved>>

Spawn ==
    /\ RecGoes("spawn", "ready")
    /\ tpc' = "boot"
    /\ UNCHANGED <<state, mic, asr, ready, sound, starved>>

SpawnFails ==
    /\ RecGoes("spawn", "idle")
    /\ state' = "idle" /\ cap' = "null" /\ captures' = captures - 1
    /\ stored' = FALSE /\ streams' = streams - Count(stored)
    /\ UNCHANGED <<held, ready, tpc, sound, starved>>

StartCapture ==
    /\ ready > 0 /\ ready' = ready - 1
    /\ RecGoes("ready", "idle")
    /\ cap' = "started"
    /\ UNCHANGED <<state, captures, asr, tpc, sound, starved>>

\* Fault: a capture that does not start is not stopped either.
CaptureFailsUnstopped ==
    /\ ready > 0 /\ ready' = ready - 1
    /\ RecGoes("ready", "undo")
    /\ state' = "idle"
    /\ stored' = FALSE /\ streams' = streams - Count(stored)
    /\ UNCHANGED <<mic, held, tpc, sound, starved>>

CaptureFails ==
    /\ ready > 0 /\ ready' = ready - 1
    /\ RecGoes("ready", "halt")
    /\ state' = "idle"
    /\ stored' = FALSE /\ streams' = streams - Count(stored)
    /\ UNCHANGED <<mic, held, tpc, sound, starved>>

\* audio_capture_stop: the read under way ends.
Halt ==
    /\ RecGoes("halt", "undo") \/ RecGoes("stop", "join")
    /\ cap' = "stopping"
    /\ UNCHANGED <<state, captures, asr, ready, tpc, sound, starved>>

\* The join, and the rest of the failed start.
Undo ==
    /\ tpc = "exit" /\ tpc' = "none"
    /\ RecGoes("undo", "idle")
    /\ stored' = FALSE /\ streams' = streams - Count(stored)
    /\ cap' = "null" /\ captures' = captures - 1
    /\ UNCHANGED <<state, held, ready, sound, starved>>

-----------------------------------------------------------------------------
(***************************************************************************)
(* voice_channel_stop.                                                     *)
(***************************************************************************)
Stop ==
    /\ state = "recording" /\ state' = "stopping"
    /\ RecGoes("idle", "stop")
    /\ UNCHANGED <<mic, asr, ready, tpc, sound, starved>>

\* Fault: the capture is closed while the thread may read it.
JoinNot ==
    /\ RecGoes("join", "close")
    /\ UNCHANGED <<state, mic, asr, ready, tpc, sound, starved>>

Join ==
    /\ tpc = "exit" /\ tpc' = "none"
    /\ RecGoes("join", "close")
    /\ UNCHANGED <<state, mic, asr, ready, sound, starved>>

CloseCapture ==
    /\ RecGoes("close", "finish")
    /\ cap' = "closed" /\ captures' = captures - 1
    /\ UNCHANGED <<state, asr, ready, tpc, sound, starved>>

\* The stream the thread left, if any, is finished.
Finish ==
    /\ RecGoes("finish", "idle")
    /\ state' = "idle" /\ cap' = "null"
    /\ stored' = FALSE /\ streams' = streams - Count(stored)
    /\ UNCHANGED <<captures, held, ready, tpc, sound, starved>>

Recorder ==
    \/ Spawn \/ SpawnFails \/ StartCapture \/ CaptureFails \/ Halt \/ Undo
    \/ Join \/ CloseCapture \/ Finish \/ (rpc = "retry" /\ Claim)

-----------------------------------------------------------------------------
(***************************************************************************)
(* recording_thread.                                                       *)
(***************************************************************************)
ThreadGoes(from, to) == tpc = from /\ tpc' = to

\* It takes over the stream, or tries to open one, and says it is ready.
Boot ==
    /\ ThreadGoes("boot", "loop")
    /\ stored' = FALSE
    /\ \/ stored /\ held' = TRUE /\ UNCHANGED streams
       \/ /\ ~stored
          /\ held' \in BOOLEAN /\ streams' = streams + Count(held')
    /\ ready' = ready + 1
    /\ UNCHANGED <<state, mic, rpc, sound, starved>>

\* No memory for the fallback buffer: the thread leaves at once.
AllocFails ==
    /\ ~stored
    /\ ThreadGoes("boot", "exit")
    /\ streams < MaxOpen /\ streams' \in {streams, streams + 1}
    /\ state' = "idle"
    /\ ready' = ready + 1
    /\ starved' = TRUE
    /\ UNCHANGED <<mic, stored, held, rpc, sound>>

Loop ==
    /\ \/ state # "idle" /\ ThreadGoes("loop", "read")
       \/ state = "idle" /\ ThreadGoes("loop", "leave")
    /\ UNCHANGED <<state, mic, asr, ready, rpc, sound, starved>>

\* A chunk goes to the stream, which is given up when that fails.
Chunk ==
    /\ cap = "started"
    /\ ThreadGoes("read", "loop")
    /\ \/ UNCHANGED <<held, streams>>
       \/ held /\ held' = FALSE /\ streams' = streams - 1
    /\ UNCHANGED <<state, mic, stored, ready, rpc, sound, starved>>

\* The read fails; without a stop under way that is abnormal.
ReadFails ==
    /\ \/ /\ cap = "started" /\ state = "recording"
          /\ ThreadGoes("read", "abnormal")
       \/ /\ cap = "started" /\ state # "recording"
          /\ ThreadGoes("read", "leave")
       \/ cap = "stopping" /\ ThreadGoes("read", "leave")
    /\ UNCHANGED <<state, mic, asr, ready, rpc, sound, starved>>

Leave ==
    /\ ThreadGoes("leave", "exit")
    /\ stored' = held /\ held' = FALSE
    /\ UNCHANGED <<state, mic, streams, ready, rpc, sound, starved>>

\* Fault: the thread leaves the cleanup to a stop that never comes.
AbnormalExitOpen ==
    /\ ThreadGoes("abnormal", "exit")
    /\ held' = FALSE
    /\ stored' = held
    /\ state' = IF state = "recording" THEN "idle" ELSE state
    /\ UNCHANGED <<mic, streams, ready, rpc, sound, starved>>

\* recording_cleanup_locked.
Cleanup ==
    /\ stored' = FALSE /\ streams' = streams - Count(held)
    /\ cap' = "null" /\ captures' = captures - 1
    /\ state' = "idle"

\* The thread cleans up itself, unless a stop came first.
AbnormalExit ==
    /\ ThreadGoes("abnormal", "exit")
    /\ held' = FALSE
    /\ \/ state = "recording" /\ Cleanup
       \/ /\ state # "recording"
          /\ stored' = held
          /\ UNCHANGED <<state, mic, streams>>
    /\ UNCHANGED <<ready, rpc, sound, starved>>

Thread ==
    \/ Boot \/ AllocFails \/ Loop \/ Chunk \/ ReadFails \/ Leave
    \/ AbnormalExit

-----------------------------------------------------------------------------
(***************************************************************************)
(* voice_channel_speak.                                                    *)
(***************************************************************************)
SpeakGoes(s, from, to) == spc[s] = from /\ spc' = [spc EXCEPT ![s] = to]

\* Speech that is playing is stopped ...
Speak(s) ==
    /\ SpeakGoes(s, "idle", "lock")
    /\ abort' = (abort \/ pb # None) /\ out' = StopPlayback
    /\ UNCHANGED <<record, starved, pb, speakLock>>

Enter(s) ==
    /\ speakLock = None /\ speakLock' = s
    /\ SpeakGoes(s, "lock", "check")
    /\ UNCHANGED <<record, starved, abort, pb, out>>

\* ... a speaker is refused while the microphone is on, or has nothing to say.
Refused(s) ==
    /\ SpeakGoes(s, "check", "idle")
    /\ speakLock' = None
    /\ UNCHANGED <<record, starved, abort, pb, out>>

Begin(s) ==
    /\ state = "idle"
    /\ SpeakGoes(s, "check", "reset")
    /\ UNCHANGED <<record, starved, abort, pb, speakLock, out>>

Reset(s) ==
    /\ SpeakGoes(s, "reset", "stream")
    /\ abort' = FALSE /\ pb' = None
    /\ UNCHANGED <<record, starved, speakLock, out>>

\* tts_stream_cb: the first chunk of sound opens the playback ...
FirstChunk(s) ==
    /\ ~abort /\ out[s] = "closed"
    /\ SpeakGoes(s, "stream", "open")
    /\ UNCHANGED <<record, starved, abort, pb, speakLock, out>>

Open(s) ==
    /\ \/ SpeakGoes(s, "open", "register") /\ out' = [out EXCEPT ![s] = "playing"]
       \/ SpeakGoes(s, "open", "failed") /\ UNCHANGED out
    /\ UNCHANGED <<record, starved, abort, pb, speakLock>>

\* ... and registers it.
Register(s) ==
    /\ SpeakGoes(s, "register", "stream")
    /\ pb' = s
    /\ UNCHANGED <<record, starved, abort, speakLock, out>>

\* Fault: the playback stays registered.
EndStreamRegistered(s) ==
    /\ SpeakGoes(s, "stream", "close") \/ SpeakGoes(s, "failed", "close")
    /\ abort' = FALSE
    /\ UNCHANGED <<record, starved, pb, speakLock, out>>

\* Fault: the next speaker is let in before the device is free.
EndStreamUnlocked(s) ==
    /\ SpeakGoes(s, "stream", "close") \/ SpeakGoes(s, "failed", "close")
    /\ abort' = FALSE /\ pb' = None /\ speakLock' = None
    /\ UNCHANGED <<record, starved, out>>

\* The speech ends, by itself, by failure or stopped.
EndStream(s) ==
    /\ SpeakGoes(s, "stream", "close") \/ SpeakGoes(s, "failed", "close")
    /\ abort' = FALSE /\ pb' = None
    /\ UNCHANGED <<record, starved, speakLock, out>>

Close(s) ==
    /\ SpeakGoes(s, "close", "unlock")
    /\ out' = [out EXCEPT ![s] = "closed"]
    /\ UNCHANGED <<record, starved, abort, pb, speakLock>>

Unlock(s) ==
    /\ SpeakGoes(s, "unlock", "idle")
    /\ speakLock' = None
    /\ UNCHANGED <<record, starved, abort, pb, out>>

Speaker(s) ==
    \/ Refused(s) \/ Begin(s) \/ Reset(s) \/ FirstChunk(s) \/ Open(s)
    \/ Register(s) \/ EndStream(s) \/ Close(s) \/ Unlock(s)

-----------------------------------------------------------------------------
Next ==
    \/ StopTts \/ AwaitSpeak \/ Claim \/ Stop \/ Recorder \/ Thread
    \/ \E s \in Speakers : Speak(s) \/ Enter(s) \/ Speaker(s)

Spec == Init /\ [][Next]_vars

\* Threads run, speech ends (the connection has timeouts), and speak_lock is
\* handed to its waiters in turn, as semaphores of NuttX are.
FairSpec ==
    /\ Spec
    /\ WF_vars(Recorder)
    /\ WF_vars(Thread)
    /\ SF_vars(AwaitSpeak)
    /\ \A s \in Speakers : WF_vars(Speaker(s)) /\ SF_vars(Enter(s))

-----------------------------------------------------------------------------
(***************************************************************************)
(* Properties.                                                             *)
(***************************************************************************)
\* Type invariant of the channel and its handles.
TypeOK ==
    /\ state \in {"idle", "recording", "stopping"}
    /\ cap \in {"null", "open", "started", "stopping", "closed"}
    /\ captures \in 0 .. MaxOpen
    /\ stored \in BOOLEAN /\ held \in BOOLEAN
    /\ streams \in 0 .. MaxOpen + 1
    /\ ready \in 0 .. 1
    /\ rpc \in {"idle", "await", "retry", "spawn", "ready", "halt", "undo",
                "stop", "join", "close", "finish"}
    /\ tpc \in {"none", "boot", "loop", "read", "leave", "abnormal", "exit"}
    /\ abort \in BOOLEAN
    /\ pb \in Speakers \cup {None} /\ speakLock \in Speakers \cup {None}
    /\ spc \in [Speakers -> {"idle", "lock", "check", "reset", "stream",
                             "open", "register", "failed", "close", "unlock"}]
    /\ out \in [Speakers -> {"closed", "playing", "stopped"}]
    /\ starved \in BOOLEAN

\* The playback that start and speak stop from outside is one that is still
\* open: it is unregistered before it is closed.
PlaybackAlive == pb # None => out[pb] # "closed"

\* "Serialize concurrent speak calls": the device is open once, also while a
\* speech that was stopped is still closing.
OnePlayback ==
    Cardinality({s \in Speakers : out[s] # "closed"}) <= 1

\* The recording thread never reads a capture that was closed, whoever ends
\* the recording, a stop, a failed start or the thread itself.
ReadsOpenCapture ==
    tpc \in {"loop", "read"} => cap \in {"open", "started", "stopping"}

\* A channel at rest has closed the microphone and finished or aborted the
\* stream of the speech recognition, after a stop, a failed start and a failed
\* recording (unless memory ran out).
NothingLeftOpen ==
    ~starved /\ state = "idle" /\ rpc = "idle" =>
        cap = "null" /\ captures = 0 /\ streams = Count(held)

\* Start, stop and speak return: none waits for ever, for a speaker to finish,
\* for the recording thread or for a lock.
CallsReturn ==
    /\ rpc # "idle" ~> rpc = "idle"
    /\ \A s \in Speakers : spc[s] # "idle" ~> spc[s] = "idle"
=============================================================================
