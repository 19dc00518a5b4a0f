--------------------------- MODULE FrameAssembly ----------------------------
(***************************************************************************)
(* Screen casting from a phone (rvt_udp_receiver.c): frames come in pieces *)
(* over UDP, which loses, repeats and reorders them.  The receiving thread *)
(* puts them together in one buffer, tells new frames from old ones by a   *)
(* sequence number that wraps, and hands whole frames to the display.  The *)
(* TCP thread clears the stream when the phone says STREAM_STOP, without a *)
(* lock.  A frame is a number of units, a packet carries one of them.      *)
(***************************************************************************)
EXTENDS Integers, Sequences, FiniteSets

CONSTANTS
    SeqMod,     \* sequence numbers, 2^16 in the code
    MaxFrame,   \* MAX_FRAME_SIZE, in units
    Starts,     \* where a stream's sequence numbers may begin
    FrameLen,   \* FrameLen[f]: the units of the f-th frame that is sent
    Lag         \* a packet is less than so many frames late

ASSUME AssemblyAssumption ==
    /\ SeqMod \in Nat /\ SeqMod > 3 /\ SeqMod % 2 = 0
    /\ Starts \subseteq 0..(SeqMod - 1) /\ Starts # {}
    /\ MaxFrame \in Nat \ {0}
    /\ FrameLen \in Seq(Nat \ {0})
    /\ Lag \in 1..(SeqMod \div 2)

None == 0
Frames == DOMAIN FrameLen
Units  == 0..(MaxFrame - 1)

VARIABLES
    running,  \* udp_running
    thread,   \* the receiving thread: "off", "starting", "on" between two
              \* packets, "close" before it closes a frame, "switch" before
              \* it closes one and starts the next
    a,        \* the frame being assembled, see Init
    buf,      \* frame_buf: the frame each unit was last written by
    next,     \* the frame that is started next, while thread = "switch"
    clear,    \* the TCP thread in clear_stream: "idle", "map", "seq"
    sent,     \* frames that the phone has begun to send
    first,    \* the first of them in the present stream
    base,     \* where that stream's sequence numbers begin
    legacy,   \* the phone's packets do not give the length of the frame
    earlier,  \* the numbers of the frames of earlier streams
    heard,    \* the frame that the last frame_start was for
    shown,    \* what the last packet made the receiver submit
    prev,     \* the frame submitted before that
    torn      \* since the last clear or start the thread went on with the
              \* stream that was cleared: it handled a packet or closed a
              \* frame of it, or did so in the middle of the clear

phone == <<sent, first, base, legacy, earlier>>
past  == <<heard, shown, prev, torn>>
vars  == <<running, thread, a, buf, next, clear, phone, past>>

\* frame_started, frame_seq, frame_len, frame_has_expected_len,
\* frame_received_len, frame_cover_map, frame_finished_seq and its flag.
Init ==
    /\ running = FALSE /\ thread = "off" /\ clear = "idle"
    /\ a = [started |-> FALSE, seq |-> SeqMod - 1, len |-> 0, expected |-> FALSE,
            count |-> 0, cover |-> {}, finished |-> SeqMod - 1, valid |-> FALSE]
    /\ buf = [u \in Units |-> None] /\ next = None
    /\ sent = 0 /\ first = 1 /\ base = 0 /\ legacy \in BOOLEAN
    /\ earlier = [f \in Frames |-> 0]
    /\ heard = 0 /\ shown = <<>> /\ prev = 0
    /\ torn = FALSE

-----------------------------------------------------------------------------
(***************************************************************************)
(* The operations on the assembly x with the buffer b.                     *)
(***************************************************************************)
FrameAssemblyReset(x) ==
    [x EXCEPT !.len = 0, !.count = 0, !.expected = FALSE, !.cover = {}]

FrameStart(x, s, hdr) ==
    [FrameAssemblyReset(x) EXCEPT !.seq = s, !.started = TRUE,
                                  !.len = hdr, !.expected = (hdr > 0)]

\* Fault: a unit that comes twice is counted twice.
MarkAll(x, u) == [x EXCEPT !.cover = @ \cup {u}, !.count = @ + 1]

FrameMarkReceived(x, u) ==
    [x EXCEPT !.cover = @ \cup {u}, !.count = IF u \in x.cover THEN @ ELSE @ + 1]

FrameIsComplete(x) == x.expected /\ x.len > 0 /\ x.count >= x.len

\* The header is in the first unit, the end mark in the last one of a frame.
IsJpegValid(b, n) ==
    /\ b[0] # None
    /\ b[n - 1] # None /\ FrameLen[b[n - 1]] = n

FrameCanTryLegacyJpeg(x, b) ==
    ~x.expected /\ x.len > 0 /\ x.count >= x.len /\ IsJpegValid(b, x.len)

\* Fault: closing does not remember the number.
CloseForgets(x) == [FrameAssemblyReset(x) EXCEPT !.started = FALSE]

FrameCloseCurrent(x) ==
    [FrameAssemblyReset(x) EXCEPT !.finished = x.seq, !.valid = TRUE,
                                  !.started = FALSE]

\* Fault: plain comparison, as if the numbers never wrapped.
SeqIsGreater(s, old) == s > old

SeqIsNewer(s, old) == (s - old) % SeqMod < SeqMod \div 2 /\ s # old

\* What is handed to the display, if anything.
EnqueueCurrentFrame(x, b) ==
    IF /\ x.started /\ x.len > 0
       /\ FrameIsComplete(x) \/ FrameCanTryLegacyJpeg(x, b)
       /\ IsJpegValid(b, x.len)
    THEN <<[u \in 0..(x.len - 1) |-> b[u]]>>
    ELSE <<>>

-----------------------------------------------------------------------------
(***************************************************************************)
(* The receiving thread.                                                   *)
(***************************************************************************)
\* The frame number that is on the wire.
Seqno(f) == IF f >= first THEN (base + f) % SeqMod ELSE earlier[f]

\* The header gives the length: 0 from an old sender, and possibly wrong from
\* a new one.
Says(hdr) == hdr = 0 <=> legacy

\* A packet with unit u of frame f arrives, which may be one of a stream that
\* was cleared since.  A packet that gives more than MaxFrame is discarded.
Arrives(f, u, hdr) ==
    /\ thread = "on" /\ running
    /\ f <= sent /\ f > sent - Lag
    /\ u < FrameLen[f] /\ hdr <= MaxFrame /\ Says(hdr)

Shows(frames) ==
    /\ shown' = frames
    /\ prev' = IF shown = <<>> THEN prev ELSE shown[Len(shown)][0]

\* Lines 486-513 for the assembly x: a unit out of range gives the frame up,
\* one that completes it submits it; either is closed by the next step.
Store(x, f, u) ==
    IF u >= MaxFrame \/ (x.expected /\ u >= x.len)
    THEN a' = x /\ thread' = "close" /\ Shows(<<>>) /\ UNCHANGED buf
    ELSE LET b == [buf EXCEPT ![u] = f]
             m == FrameMarkReceived(x, u)
             y == IF ~x.expected /\ u >= x.len THEN [m EXCEPT !.len = u + 1] ELSE m
         IN /\ buf' = b /\ a' = y
            /\ thread' = IF FrameIsComplete(y) THEN "close" ELSE "on"
            /\ Shows(IF FrameIsComplete(y) THEN EnqueueCurrentFrame(y, b) ELSE <<>>)

\* The first packet of a frame when none is being assembled; those of frames
\* that were finished are passed over.
Begin(f, u, hdr) ==
    /\ ~a.started
    /\ ~(a.valid /\ ~SeqIsNewer(Seqno(f), a.finished))
    /\ Store(FrameStart(a, Seqno(f), hdr), f, u)
    /\ heard' = f /\ UNCHANGED next

\* The first packet of a newer frame: what was being assembled is submitted
\* or dropped.  Packets of older frames are passed over.
Switch(f) ==
    /\ a.started /\ Seqno(f) # a.seq /\ SeqIsNewer(Seqno(f), a.seq)
    /\ thread' = "switch" /\ next' = f
    /\ Shows(EnqueueCurrentFrame(a, buf))
    /\ UNCHANGED <<a, buf, heard>>

\* Another packet of the same frame; a length is taken over once.
Told(hdr) ==
    IF hdr > 0 /\ ~a.expected THEN [a EXCEPT !.len = hdr, !.expected = TRUE] ELSE a

SameFrame(f, hdr) ==
    /\ a.started /\ Seqno(f) = a.seq
    /\ ~(hdr > 0 /\ a.expected /\ a.len # hdr)

Continue(f, u, hdr) ==
    /\ SameFrame(f, hdr)
    /\ Store(Told(hdr), f, u)
    /\ UNCHANGED <<heard, next>>

\* The last packet was FRAME_TIMEOUT_MS ago; this one is dropped as well.
TimedOut(f, hdr) ==
    /\ SameFrame(f, hdr)
    /\ Shows(EnqueueCurrentFrame(Told(hdr), buf))
    /\ a' = Told(hdr) /\ thread' = "close"
    /\ UNCHANGED <<buf, heard, next>>

LenChanged(f, hdr) ==
    /\ a.started /\ Seqno(f) = a.seq
    /\ hdr > 0 /\ a.expected /\ a.len # hdr
    /\ thread' = "close" /\ Shows(<<>>)
    /\ UNCHANGED <<a, buf, heard, next>>

Packet ==
    /\ \E f \in Frames, hdr \in 0..MaxFrame :
         /\ \E u \in 0..(FrameLen[f] - 1) :
              /\ Arrives(f, u, hdr)
              /\ \/ Begin(f, u, hdr)
                 \/ Switch(f)
                 \/ Continue(f, u, hdr)
                 \/ TimedOut(f, hdr)
                 \/ LenChanged(f, hdr)
         /\ torn' = (torn \/ clear # "idle" \/ f < first)
    /\ UNCHANGED <<running, clear, phone>>

\* frame_close_current is called with no lock, and a clear_stream may have
\* come before it.
Close ==
    /\ thread = "close" /\ thread' = "on"
    /\ a' = FrameCloseCurrent(a)
    /\ torn' = (torn \/ clear # "idle" \/ heard < first)
    /\ UNCHANGED <<running, buf, next, clear, phone, heard, shown, prev>>

\* After a switch the packet in hand starts its frame.  Its number was found
\* newer than the one that is finished now, so that the test at line 464 lets
\* it pass.
CloseAndStart ==
    /\ thread = "switch"
    /\ \E hdr \in 0..MaxFrame, u \in 0..(FrameLen[next] - 1) :
          /\ Says(hdr)
          /\ Store(FrameStart(FrameCloseCurrent(a), Seqno(next), hdr), next, u)
    /\ heard' = next /\ next' = None
    /\ torn' = (torn \/ clear # "idle" \/ heard < first)
    /\ UNCHANGED <<running, clear, phone>>

\* Socket and bind; a failure is told to nobody but udp_running.
Bind ==
    /\ thread = "starting"
    /\ \/ thread' = "on" /\ UNCHANGED running
       \/ thread' = "off" /\ running' = FALSE
    /\ UNCHANGED <<a, buf, next, clear, phone, past>>

Exit ==
    /\ thread = "on" /\ ~running
    /\ thread' = "off"
    /\ a' = [FrameAssemblyReset(a) EXCEPT !.started = FALSE]
    /\ UNCHANGED <<running, buf, next, clear, phone, past>>

-----------------------------------------------------------------------------
(***************************************************************************)
(* The service and its TCP thread.                                         *)
(***************************************************************************)
\* A stream goes on from any of the numbers in Starts.
NewStream ==
    /\ earlier' = [f \in Frames |-> IF f <= sent THEN Seqno(f) ELSE 0]
    /\ IF sent < Len(FrameLen) THEN base' \in Starts ELSE UNCHANGED base
    /\ first' = sent + 1
    /\ UNCHANGED <<sent, legacy>>

\* The service waits three seconds before it gets here, so that the thread of
\* the last start, which looks up every half second, is gone.
UdpReceiverInit ==
    /\ ~running /\ thread = "off" /\ clear = "idle"
    /\ running' = TRUE /\ thread' = "starting"
    /\ a' = [FrameAssemblyReset(a) EXCEPT !.started = FALSE, !.valid = FALSE]
    /\ NewStream
    /\ torn' = FALSE /\ Shows(<<>>)
    /\ UNCHANGED <<buf, next, clear, heard>>

UdpReceiverStop ==
    /\ running /\ running' = FALSE
    /\ a' = [FrameAssemblyReset(a) EXCEPT !.started = FALSE]
    /\ UNCHANGED <<thread, buf, next, clear, phone, past>>

\* udp_receiver_clear_stream at the phone's STREAM_STOP: the flags and
\* lengths, then the map, which takes its time, then the finished number.
ClearStream ==
    /\ clear = "idle" /\ running /\ thread \in {"on", "close", "switch"}
    /\ clear' = "map"
    /\ torn' = FALSE /\ Shows(<<>>)
    /\ a' = [a EXCEPT !.started = FALSE, !.len = 0, !.count = 0, !.expected = FALSE]
    /\ UNCHANGED <<running, thread, buf, next, phone, heard>>

ClearMap ==
    /\ clear = "map" /\ clear' = "seq"
    /\ a' = [a EXCEPT !.cover = {}]
    /\ UNCHANGED <<running, thread, buf, next, phone, past>>

ClearSeq ==
    /\ clear = "seq" /\ clear' = "idle"
    /\ a' = [a EXCEPT !.valid = FALSE]
    /\ NewStream
    /\ UNCHANGED <<running, thread, buf, next, past>>

-----------------------------------------------------------------------------
\* The phone goes on to its next frame.  Loss never covers half of the
\* sequence numbers: 2^15 frames are more than the eight seconds after which
\* the heartbeat gives the phone up.
SendFrame ==
    /\ clear = "idle" /\ sent < Len(FrameLen)
    /\ \A f \in {heard, next} : f >= first => sent + 1 - f < SeqMod \div 2
    /\ sent' = sent + 1
    /\ UNCHANGED <<running, thread, a, buf, next, clear, first, base, legacy, earlier, past>>

Next ==
    \/ Packet \/ Close \/ CloseAndStart \/ Bind \/ Exit
    \/ UdpReceiverInit \/ UdpReceiverStop
    \/ ClearStream \/ ClearMap \/ ClearSeq
    \/ SendFrame

Spec == Init /\ [][Next]_vars

-----------------------------------------------------------------------------
Assembly ==
    [started : BOOLEAN, seq : 0..(SeqMod - 1), len : 0..MaxFrame,
     expected : BOOLEAN, count : Nat, cover : SUBSET Units,
     finished : 0..(SeqMod - 1), valid : BOOLEAN]

\* What may be handed to the display: a piece of the buffer.
Picture == UNION {[0..(n - 1) -> Frames \cup {None}] : n \in 1..MaxFrame}

\* Types; what is counted never exceeds the buffer, or twice the buffer after
\* a packet came in between the steps of clear_stream.
TypeOK ==
    /\ running \in BOOLEAN
    /\ thread \in {"off", "starting", "on", "close", "switch"}
    /\ a \in Assembly /\ a.count <= (IF torn THEN 2 * MaxFrame ELSE MaxFrame)
    /\ buf \in [Units -> Frames \cup {None}]
    /\ next \in 0..sent /\ (next # None <=> thread = "switch")
    /\ clear \in {"idle", "map", "seq"}
    /\ sent \in 0..Len(FrameLen) /\ first \in 1..(sent + 1)
    /\ base \in 0..(SeqMod - 1) /\ legacy \in BOOLEAN
    /\ earlier \in [Frames -> 0..(SeqMod - 1)]
    /\ heard \in 0..sent /\ shown \in Seq(Picture)
    /\ prev \in Frames \cup {None} /\ torn \in BOOLEAN

(***************************************************************************)
(* rvt_udp_receiver.c:283, "incomplete frames must not go to the           *)
(* decoder": what enqueue_current_frame hands over is one frame, all of it *)
(* and nothing of another one that was in the buffer before, unless the    *)
(* thread went on with a stream that was cleared (torn).                   *)
(***************************************************************************)
WholeFrame ==
    ~torn =>
        \A i \in DOMAIN shown : \E f \in Frames :
            shown[i] = [u \in 0..(FrameLen[f] - 1) |-> f]

(***************************************************************************)
(* rvt_udp_receiver.c:452-464: the picture never goes back: a frame is     *)
(* submitted once, and none after a later one, whatever arrives again of   *)
(* the present stream; a packet of a cleared one can make it go back.      *)
(***************************************************************************)
InOrder ==
    ~torn =>
        \A i \in DOMAIN shown :
            shown[i][0] > (IF i = 1 THEN prev ELSE shown[i - 1][0])

(***************************************************************************)
(* rvt_udp_receiver.c:237-240: the receiver does not go deaf: the packets  *)
(* of the frame that the phone sends now are not taken for old ones, after *)
(* losses, across the wrap, and when a stream begins anew.  It can after a *)
(* clear that the thread did not notice in time, until the next start or   *)
(* clear that it does not disturb: torn says when.                         *)
(***************************************************************************)
NeverDeaf ==
    ~torn /\ running /\ thread = "on" /\ clear = "idle" /\ sent >= first /\ sent > heard =>
        /\ a.started => SeqIsNewer(Seqno(sent), a.seq)
        /\ ~a.started /\ a.valid => SeqIsNewer(Seqno(sent), a.finished)
=============================================================================
