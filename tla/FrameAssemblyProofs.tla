------------------------ MODULE FrameAssemblyProofs -------------------------
(***************************************************************************)
(* Proofs about FrameAssembly, for every sequence-number space, buffer     *)
(* size and series of frames: the types, that only whole frames are        *)
(* submitted, in their order, and that the receiver never goes deaf.       *)
(***************************************************************************)
EXTENDS FrameAssembly, FiniteSetTheorems, TLAPS

USE AssemblyAssumption

Half == SeqMod \div 2

-----------------------------------------------------------------------------
(***************************************************************************)
(* Sequence numbers.                                                       *)
(***************************************************************************)
LEMMA HalfTwice == Half \in Nat \ {0} /\ SeqMod = 2 * Half
  BY DEF Half

\* A number with its multiples of M taken off is what % makes of it.
LEMMA ModUnique ==
    ASSUME NEW M \in Nat \ {0}, NEW q \in Int, NEW r \in 0..(M - 1)
    PROVE  (M * q + r) % M = r
  OBVIOUS

\* Quotient and remainder.
LEMMA ModSplit ==
    ASSUME NEW M \in Nat \ {0}, NEW y \in Int
    PROVE  /\ y \div M \in Int /\ y % M \in 0..(M - 1)
           /\ y = M * (y \div M) + (y % M)
  OBVIOUS

\* Less than M further on, a number wraps at most once.
LEMMA ModPlus ==
    ASSUME NEW M \in Nat \ {0}, NEW y \in Int, NEW d \in 0..(M - 1)
    PROVE  (y + d) % M = IF (y % M) + d < M THEN (y % M) + d
                                            ELSE (y % M) + d - M
  <1> DEFINE q == y \div M
             r == y % M
  <1>1. q \in Int /\ r \in 0..(M - 1) /\ y = M * q + r
    BY ModSplit
  <1> HIDE DEF q, r
  <1>2. CASE r + d < M
    <2>1. r + d \in 0..(M - 1)
      BY <1>1, <1>2
    <2>2. (M * q + (r + d)) % M = r + d
      BY <1>1, <2>1, ModUnique
    <2>3. y + d = M * q + (r + d)
      BY <1>1
    <2> QED
      BY <1>2, <2>2, <2>3 DEF r
  <1>3. CASE r + d >= M
    <2>1. r + d - M \in 0..(M - 1) /\ q + 1 \in Int
      BY <1>1, <1>3
    <2>2. (M * (q + 1) + (r + d - M)) % M = r + d - M
      BY <2>1, ModUnique
    <2>3. M * (q + 1) = M * q + M
      BY <1>1
    <2>4. y + d = M * (q + 1) + (r + d - M)
      BY <1>1, <2>3
    <2>5. (y + d) % M = r + d - M
      BY <2>2, <2>4
    <2> QED
      BY <1>1, <1>3, <2>5 DEF r
  <1> QED
    BY <1>1, <1>2, <1>3

\* The remainder of a difference of two sequence numbers.
LEMMA ModSmall ==
    ASSUME NEW M \in Nat \ {0}, NEW x \in (1 - M)..(M - 1)
    PROVE  x % M = IF x < 0 THEN x + M ELSE x
  <1>1. CASE x < 0
    <2>1. -1 \in Int /\ x + M \in 0..(M - 1)
      BY <1>1
    <2>2. (M * (-1) + (x + M)) % M = x + M
      BY Zenon, <2>1, ModUnique
    <2>3. M * (-1) + (x + M) = x
      OBVIOUS
    <2> QED
      BY <1>1, <2>2, <2>3
  <1>2. CASE x >= 0
    <2>1. (M * 0 + x) % M = x
      BY <1>2, ModUnique
    <2> QED
      BY <1>2, <2>1
  <1> QED
    BY <1>1, <1>2

\* Of two frames of the present stream less than half of the numbers apart the
\* later one is newer, and the earlier one is not.
LEMMA SeqOrder ==
    ASSUME base \in 0..(SeqMod - 1), first \in Nat, NEW f \in Nat, NEW g \in Nat,
           first <= f, f < g, g - f < Half
    PROVE  /\ Seqno(f) # Seqno(g)
           /\ SeqIsNewer(Seqno(g), Seqno(f))
           /\ ~SeqIsNewer(Seqno(f), Seqno(g))
  <1> DEFINE d == g - f
             s == Seqno(f)
             t == Seqno(g)
  <1>0. SeqMod \in Nat \ {0}
    OBVIOUS
  <1>1. d \in 1..(Half - 1) /\ d \in 0..(SeqMod - 1)
    BY HalfTwice
  <1>2. s \in 0..(SeqMod - 1)
    <2>1. base + f \in Int /\ s = (base + f) % SeqMod
      BY DEF Seqno
    <2> QED
      BY Zenon, <1>0, <2>1, ModSplit
  <1>3. t = IF s + d < SeqMod THEN s + d ELSE s + d - SeqMod
    <2>1. base + f \in Int /\ base + g = (base + f) + d
      OBVIOUS
    <2>2. ((base + f) + d) % SeqMod =
            IF ((base + f) % SeqMod) + d < SeqMod
            THEN ((base + f) % SeqMod) + d
            ELSE ((base + f) % SeqMod) + d - SeqMod
      BY Zenon, <1>0, <1>1, <2>1, ModPlus
    <2> QED
      BY <2>1, <2>2 DEF Seqno
  <1> HIDE DEF s, t
  <1>4. t - s \in (1 - SeqMod)..(SeqMod - 1) /\ s - t \in (1 - SeqMod)..(SeqMod - 1)
    BY <1>1, <1>2, <1>3
  <1>5. (t - s) % SeqMod = d /\ (s - t) % SeqMod = SeqMod - d
    <2>1. (t - s) % SeqMod = IF t - s < 0 THEN t - s + SeqMod ELSE t - s
      BY Zenon, <1>0, <1>4, ModSmall
    <2>2. (s - t) % SeqMod = IF s - t < 0 THEN s - t + SeqMod ELSE s - t
      BY Zenon, <1>0, <1>4, ModSmall
    <2> QED
      BY <1>1, <1>2, <1>3, <2>1, <2>2
  <1>6. s # t /\ (t - s) % SeqMod < Half /\ ~((s - t) % SeqMod < Half)
    BY <1>1, <1>2, <1>3, <1>5, HalfTwice
  <1> QED
    BY <1>6 DEF s, t, SeqIsNewer, Half

-----------------------------------------------------------------------------
(***************************************************************************)
(* The inductive invariant.                                                *)
(***************************************************************************)
\* The types, but for the bound on what is counted.
Types ==
    /\ running \in BOOLEAN
    /\ thread \in {"off", "starting", "on", "close", "switch"}
    /\ a \in Assembly
    /\ buf \in [Units -> Frames \cup {None}]
    /\ next \in 0..sent
    /\ clear \in {"idle", "map", "seq"}
    /\ sent \in 0..Len(FrameLen) /\ first \in 1..(sent + 1)
    /\ base \in 0..(SeqMod - 1) /\ legacy \in BOOLEAN
    /\ earlier \in [Frames -> 0..(SeqMod - 1)]
    /\ heard \in 0..sent /\ shown \in Seq(Picture)
    /\ prev \in Frames \cup {None} /\ torn \in BOOLEAN

\* A frame is in hand between the two frames of a switch.
Hand == next # None <=> thread = "switch"

\* What is counted is covered, but for what was counted before clear_stream
\* cleared the map beneath it.
Slack == IF torn /\ clear # "map" THEN MaxFrame ELSE 0
Bounded(x, slack) == x.count <= Cardinality(x.cover) + slack

Clearing == ~torn /\ clear # "idle" => ~a.started /\ a.count = 0

\* The phone is less than half of the numbers ahead.
Near ==
    /\ heard >= first => sent - heard < Half
    /\ next >= first => sent - next < Half

\* The assembly x with the buffer b holds units of frame f and no others.
Assembles(x, b, f) ==
    /\ x.started /\ x.seq = Seqno(f) /\ (x.expected <=> ~legacy)
    /\ x.count = Cardinality(x.cover)
    /\ x.cover \subseteq 0..(x.len - 1)
    /\ \A u \in x.cover : b[u] = f

\* Between two packets of a stream that goes on undisturbed the number that
\* packets are compared with is that of the frame heard last.
Live == ~torn /\ running /\ clear = "idle"
Closing == thread \in {"close", "switch"}

Position ==
    Live /\ ~Closing =>
        /\ a.started => heard >= first /\ Assembles(a, buf, heard)
        /\ ~a.started /\ a.valid => heard >= first /\ a.finished = Seqno(heard)
        /\ heard >= first => a.started \/ a.valid

\* What is about to be closed is the frame heard last, and what is started
\* then is a later one.
Ending ==
    ~torn /\ clear = "idle" /\ heard >= first =>
        /\ Live /\ Closing => a.seq = Seqno(heard)
        /\ thread = "switch" => heard < next

\* The frame submitted last, and its place among the frames.
Latest == IF shown = <<>> THEN prev ELSE shown[Len(shown)][0]

\* Nothing was stored or submitted that was not sent.
Seen == Latest <= sent /\ \A u \in Units : buf[u] <= sent

Order ==
    /\ ~torn /\ clear = "idle" =>
          /\ heard >= first => Latest <= heard
          /\ heard < first => Latest < first
    /\ Live /\ ~Closing /\ a.started => Latest < heard

IInv ==
    /\ Types /\ Hand /\ Bounded(a, Slack)
    /\ Clearing /\ Near /\ Position /\ Ending /\ Seen /\ Order
    /\ WholeFrame /\ InOrder

-----------------------------------------------------------------------------
(***************************************************************************)
(* The operations on an assembly.                                          *)
(***************************************************************************)
\* The units fit the buffer, and no more of them are covered.
LEMMA CoverFinite ==
    ASSUME NEW S \in SUBSET Units
    PROVE  IsFiniteSet(S) /\ Cardinality(S) \in Nat /\ Cardinality(S) <= MaxFrame
  <1>1. 0 \in Int /\ MaxFrame - 1 \in Int /\ ~(0 > MaxFrame - 1)
    OBVIOUS
  <1>2. IsFiniteSet(Units) /\ Cardinality(Units) = (MaxFrame - 1) - 0 + 1
    BY <1>1, FS_Interval DEF Units
  <1>3. IsFiniteSet(S) /\ Cardinality(S) <= Cardinality(Units)
    BY Zenon, <1>2, FS_Subset
  <1>4. Cardinality(S) \in Nat
    BY Zenon, <1>3, FS_CardinalityType
  <1> QED
    BY <1>2, <1>3, <1>4

\* Nothing covered is nothing counted.
LEMMA EmptyCard == Cardinality({}) = 0
  BY Zenon, FS_EmptySet

\* An assembly with some fields replaced.
LEMMA Replaced ==
    ASSUME NEW x \in Assembly
    PROVE  /\ \A l \in 0..MaxFrame, n \in Nat, e \in BOOLEAN, c \in SUBSET Units :
                [x EXCEPT !.len = l, !.count = n, !.expected = e, !.cover = c]
                    \in Assembly
           /\ \A s \in 0..(SeqMod - 1), t \in BOOLEAN, l \in 0..MaxFrame,
                 e \in BOOLEAN :
                [x EXCEPT !.seq = s, !.started = t, !.len = l, !.expected = e]
                    \in Assembly
           /\ \A t \in BOOLEAN, l \in 0..MaxFrame, n \in Nat, e \in BOOLEAN :
                [x EXCEPT !.started = t, !.len = l, !.count = n, !.expected = e]
                    \in Assembly
           /\ \A n \in Nat, c \in SUBSET Units :
                [x EXCEPT !.cover = c, !.count = n] \in Assembly
           /\ \A l \in 0..MaxFrame : [x EXCEPT !.len = l] \in Assembly
  BY DEF Assembly

\* An assembly that is reset, closed or begun covers nothing.
LEMMA ResetIs ==
    ASSUME NEW x \in Assembly
    PROVE  /\ FrameAssemblyReset(x) \in Assembly
           /\ FrameAssemblyReset(x).count = 0 /\ FrameAssemblyReset(x).cover = {}
  <1>1. 0 \in 0..MaxFrame /\ 0 \in Nat /\ FALSE \in BOOLEAN /\ {} \in SUBSET Units
    OBVIOUS
  <1>2. FrameAssemblyReset(x) \in Assembly
    BY Zenon, <1>1, Replaced DEF FrameAssemblyReset
  <1>3. FrameAssemblyReset(x).count = 0 /\ FrameAssemblyReset(x).cover = {}
    BY DEF Assembly, FrameAssemblyReset
  <1> QED
    BY <1>2, <1>3

\* frame_close_current remembers the number and forgets the rest.
LEMMA CloseIs ==
    ASSUME NEW x \in Assembly
    PROVE  /\ FrameCloseCurrent(x) \in Assembly
           /\ FrameCloseCurrent(x).count = 0 /\ FrameCloseCurrent(x).cover = {}
           /\ FrameCloseCurrent(x).finished = x.seq
           /\ FrameCloseCurrent(x).started = FALSE
           /\ FrameCloseCurrent(x).valid = TRUE
  <1> DEFINE r == FrameAssemblyReset(x)
             y == FrameCloseCurrent(x)
  <1>1. r \in Assembly /\ r.count = 0 /\ r.cover = {} /\ x.seq \in 0..(SeqMod - 1)
    BY ResetIs DEF Assembly
  <1>2. y = [r EXCEPT !.finished = x.seq, !.valid = TRUE, !.started = FALSE]
    BY DEF FrameCloseCurrent
  <1> HIDE DEF r, y
  <1>3. y \in Assembly
    BY <1>1, <1>2 DEF Assembly
  <1>4. y.count = 0 /\ y.cover = {} /\ y.finished = x.seq
    BY <1>1, <1>2 DEF Assembly
  <1>5. y.started = FALSE /\ y.valid = TRUE
    BY <1>1, <1>2 DEF Assembly
  <1> QED
    BY <1>3, <1>4, <1>5 DEF y

\* A closed assembly counts nothing.
LEMMA CloseBounded ==
    ASSUME NEW x \in Assembly, NEW slack \in Nat
    PROVE  FrameCloseCurrent(x) \in Assembly /\ Bounded(FrameCloseCurrent(x), slack)
  <1>1. FrameCloseCurrent(x) \in Assembly
    BY Zenon, CloseIs
  <1>2. FrameCloseCurrent(x).count = 0 /\ FrameCloseCurrent(x).cover = {}
    BY Zenon, CloseIs
  <1> QED
    BY <1>1, <1>2, EmptyCard DEF Bounded

\* frame_start begins an assembly that holds nothing but the new frame.
LEMMA StartIs ==
    ASSUME NEW x \in Assembly, NEW f, Seqno(f) \in 0..(SeqMod - 1),
           NEW hdr \in 0..MaxFrame, NEW slack \in Nat
    PROVE  /\ FrameStart(x, Seqno(f), hdr) \in Assembly
           /\ Bounded(FrameStart(x, Seqno(f), hdr), slack)
           /\ (hdr > 0 <=> ~legacy) =>
                 \A b : Assembles(FrameStart(x, Seqno(f), hdr), b, f)
  <1> DEFINE r == FrameAssemblyReset(x)
             y == FrameStart(x, Seqno(f), hdr)
  <1>1. r \in Assembly /\ r.count = 0 /\ r.cover = {}
    BY ResetIs
  <1>2. y = [r EXCEPT !.seq = Seqno(f), !.started = TRUE, !.len = hdr,
                      !.expected = (hdr > 0)]
    BY DEF FrameStart
  <1> HIDE DEF r, y
  <1>3. y \in Assembly
    <2>1. TRUE \in BOOLEAN /\ (hdr > 0) \in BOOLEAN
      OBVIOUS
    <2> QED
      BY Zenon, <1>1, <1>2, <2>1, Replaced
  <1>4. y.count = 0 /\ y.cover = {} /\ y.seq = Seqno(f)
    BY <1>1, <1>2 DEF Assembly
  <1>5. y.started /\ y.expected = (hdr > 0)
    BY <1>1, <1>2 DEF Assembly
  <1>6. Bounded(y, slack)
    BY <1>4, EmptyCard DEF Bounded
  <1>7. (hdr > 0 <=> ~legacy) => \A b : Assembles(y, b, f)
    BY <1>4, <1>5, EmptyCard DEF Assembles
  <1> QED
    BY <1>3, <1>6, <1>7 DEF y

\* What Store makes of the assembly with a unit that is in range.
Marked(x, u) ==
    LET m == FrameMarkReceived(x, u)
    IN  IF ~x.expected /\ u >= x.len THEN [m EXCEPT !.len = u + 1] ELSE m

\* Field by field, what marking a unit does.
LEMMA MarkedIs ==
    ASSUME NEW x \in Assembly, NEW u \in Units
    PROVE  /\ Marked(x, u) \in Assembly
           /\ Marked(x, u).started = x.started
           /\ Marked(x, u).expected = x.expected
           /\ Marked(x, u).seq = x.seq
           /\ Marked(x, u).cover = x.cover \cup {u}
           /\ Marked(x, u).count = IF u \in x.cover THEN x.count ELSE x.count + 1
           /\ Marked(x, u).len = IF ~x.expected /\ u >= x.len THEN u + 1 ELSE x.len
  <1> DEFINE m == FrameMarkReceived(x, u)
             y == Marked(x, u)
  <1>1. /\ m = [x EXCEPT !.cover = x.cover \cup {u},
                         !.count = IF u \in x.cover THEN x.count ELSE x.count + 1]
        /\ y = IF ~x.expected /\ u >= x.len THEN [m EXCEPT !.len = u + 1] ELSE m
    BY DEF FrameMarkReceived, Marked
  <1> HIDE DEF m, y
  <1>2. m \in Assembly
    <2>1. /\ x.cover \cup {u} \in SUBSET Units
          /\ (IF u \in x.cover THEN x.count ELSE x.count + 1) \in Nat
      BY DEF Assembly
    <2> QED
      BY Zenon, <1>1, <2>1, Replaced
  <1>3. /\ m.seq = x.seq /\ m.cover = x.cover \cup {u} /\ m.len = x.len
        /\ m.count = IF u \in x.cover THEN x.count ELSE x.count + 1
    BY <1>1 DEF Assembly
  <1>4. m.started = x.started /\ m.expected = x.expected
    BY <1>1 DEF Assembly
  <1>5. y \in Assembly
    <2>1. u + 1 \in 0..MaxFrame
      BY DEF Units
    <2> QED
      BY Zenon, <1>1, <1>2, <2>1, Replaced
  <1>6. /\ y.seq = x.seq /\ y.cover = x.cover \cup {u} /\ y.count = m.count
        /\ y.len = IF ~x.expected /\ u >= x.len THEN u + 1 ELSE x.len
    BY <1>1, <1>2, <1>3 DEF Assembly
  <1>7. y.started = x.started /\ y.expected = x.expected
    BY <1>1, <1>2, <1>4 DEF Assembly
  <1> QED
    BY <1>3, <1>5, <1>6, <1>7 DEF y

\* Counting keeps pace with covering.
LEMMA MarkedCount ==
    ASSUME NEW x \in Assembly, NEW u \in Units
    PROVE  Marked(x, u).count - Cardinality(Marked(x, u).cover)
               = x.count - Cardinality(x.cover)
  <1>1. x.cover \in SUBSET Units /\ x.count \in Nat
    BY DEF Assembly
  <1>2. IsFiniteSet(x.cover) /\ Cardinality(x.cover) \in Nat
    BY <1>1, CoverFinite
  <1>3. Cardinality(x.cover \cup {u}) =
            IF u \in x.cover THEN Cardinality(x.cover) ELSE Cardinality(x.cover) + 1
    BY Zenon, <1>2, FS_AddElement
  <1>4. /\ Marked(x, u).cover = x.cover \cup {u}
        /\ Marked(x, u).count = IF u \in x.cover THEN x.count ELSE x.count + 1
    BY Zenon, MarkedIs
  <1> QED
    BY <1>1, <1>2, <1>3, <1>4

\* What is submitted is a piece of the buffer.
LEMMA EnqueueType ==
    ASSUME NEW x \in Assembly, NEW b \in [Units -> Frames \cup {None}]
    PROVE  EnqueueCurrentFrame(x, b) \in Seq(Picture)
  <1>1. CASE x.len > 0
    <2>1. x.len \in 1..MaxFrame /\ 0..(x.len - 1) \subseteq Units
      BY <1>1 DEF Assembly, Units
    <2>2. [u \in 0..(x.len - 1) |-> b[u]] \in Picture
      BY <2>1 DEF Picture
    <2> QED
      BY <2>2 DEF EnqueueCurrentFrame
  <1>2. CASE ~(x.len > 0)
    BY <1>2 DEF EnqueueCurrentFrame
  <1> QED
    BY <1>1, <1>2

\* Frame f, all of it and nothing else.
Whole(f) == [u \in 0..(FrameLen[f] - 1) |-> f]

\* Covered by as many units as it is long, the assembly covers every one, and
\* the end mark tells that this is the length of the frame.
LEMMA EnqueueWhole ==
    ASSUME NEW x \in Assembly, NEW b \in [Units -> Frames \cup {None}],
           NEW f \in Frames, Assembles(x, b, f)
    PROVE  EnqueueCurrentFrame(x, b) \in {<<>>, <<Whole(f)>>}
  <1> SUFFICES ASSUME x.len > 0, x.count >= x.len, IsJpegValid(b, x.len)
               PROVE  [u \in 0..(x.len - 1) |-> b[u]] = Whole(f)
    BY DEF EnqueueCurrentFrame, FrameIsComplete, FrameCanTryLegacyJpeg
  <1> DEFINE S == 0..(x.len - 1)
  <1>1. x.len \in Nat /\ x.count \in Nat /\ x.len <= MaxFrame
    BY DEF Assembly
  <1>2. IsFiniteSet(S) /\ Cardinality(S) = x.len
    <2>1. 0 \in Int /\ x.len - 1 \in Int /\ ~(0 > x.len - 1)
      BY <1>1
    <2>2. IsFiniteSet(S) /\ Cardinality(S) = (x.len - 1) - 0 + 1
      BY <2>1, FS_Interval
    <2> QED
      BY <1>1, <2>2
  <1>3. x.cover = S
    <2>1. x.cover \subseteq S /\ Cardinality(x.cover) >= Cardinality(S)
      BY <1>1, <1>2 DEF Assembles
    <2>2. Cardinality(x.cover) <= Cardinality(S)
      BY Zenon, <1>2, <2>1, FS_Subset
    <2>3. Cardinality(x.cover) \in Nat
      BY <1>1 DEF Assembles
    <2>4. Cardinality(x.cover) = Cardinality(S)
      BY <1>1, <1>2, <2>1, <2>2, <2>3
    <2> QED
      BY Zenon, <1>2, <2>1, <2>4, FS_Subset
  <1>4. \A u \in S : b[u] = f
    BY <1>3 DEF Assembles
  <1>5. FrameLen[f] = x.len
    BY <1>1, <1>4 DEF IsJpegValid
  <1> QED
    BY <1>4, <1>5 DEF Whole

-----------------------------------------------------------------------------
(***************************************************************************)
(* What the display is shown.                                              *)
(***************************************************************************)
LEMMA LatestType ==
    ASSUME Types
    PROVE  Latest \in Frames \cup {None}
  <1>1. CASE shown # <<>>
    <2>1. Len(shown) \in DOMAIN shown /\ shown[Len(shown)] \in Picture
      BY <1>1 DEF Types
    <2>2. PICK n \in 1..MaxFrame : shown[Len(shown)] \in [0..(n - 1) -> Frames \cup {None}]
      BY <2>1 DEF Picture
    <2> QED
      BY <1>1, <2>2 DEF Latest
  <1> QED
    BY <1>1 DEF Latest, Types

\* Of every submission the last frame is remembered.
LEMMA ShowsTypes ==
    ASSUME Types, NEW frames \in Seq(Picture), Shows(frames)
    PROVE  shown' \in Seq(Picture) /\ prev' \in Frames \cup {None}
  BY LatestType DEF Shows, Latest

\* A packet that completes nothing submits nothing.
LEMMA ShowsNone ==
    ASSUME Shows(<<>>)
    PROVE  Latest' = Latest /\ WholeFrame' /\ InOrder'
  BY DEF Shows, Latest, WholeFrame, InOrder

\* A whole frame is known by its first unit.
LEMMA WholeIs ==
    ASSUME NEW f \in Frames
    PROVE  Whole(f)[0] = f
  BY DEF Whole, Frames

\* Submitting one whole frame that is later than the last one.
LEMMA ShowsOne ==
    ASSUME NEW f \in Frames, Latest < f, Shows(<<Whole(f)>>)
    PROVE  Latest' = f /\ WholeFrame' /\ InOrder'
  <1>1. shown' = <<Whole(f)>> /\ prev' = Latest
    BY DEF Shows, Latest
  <1>2. DOMAIN shown' = {1} /\ shown'[1] = Whole(f) /\ Len(shown') = 1
        /\ shown' # <<>>
    BY <1>1
  <1> QED
    BY <1>1, <1>2, WholeIs DEF Latest, WholeFrame, InOrder, Whole

\* Nothing is shown of a frame that was not sent.
LEMMA ShowsSeen ==
    ASSUME Types, Seen, NEW x \in Assembly, NEW b \in [Units -> Frames \cup {None}],
           \A u \in Units : b[u] <= sent,
           Shows(<<>>) \/ Shows(EnqueueCurrentFrame(x, b))
    PROVE  Latest' <= sent
  <1>1. CASE Shows(<<>>)
    BY <1>1, ShowsNone DEF Seen
  <1>2. CASE EnqueueCurrentFrame(x, b) # <<>> /\ ~Shows(<<>>)
    <2> DEFINE p == [u \in 0..(x.len - 1) |-> b[u]]
    <2>1. x.len > 0 /\ EnqueueCurrentFrame(x, b) = <<p>>
      BY <1>2 DEF EnqueueCurrentFrame
    <2>2. shown' = <<p>>
      BY <1>2, <2>1 DEF Shows
    <2>3. 0 \in Units /\ 0 \in 0..(x.len - 1)
      BY <2>1 DEF Units, Assembly
    <2>4. p[0] = b[0]
      BY <2>3
    <2> HIDE DEF p
    <2>5. Latest' = p[0]
      BY <2>2 DEF Latest
    <2> QED
      BY <2>3, <2>4, <2>5
  <1> QED
    BY <1>1, <1>2

-----------------------------------------------------------------------------
(***************************************************************************)
(* Storing a unit.                                                         *)
(***************************************************************************)
LEMMA StoreTypes ==
    ASSUME Types, Seen, NEW x \in Assembly, NEW f \in Frames, f <= sent,
           NEW u \in Nat, NEW slack \in Nat, Bounded(x, slack), Store(x, f, u)
    PROVE  /\ a' \in Assembly /\ Bounded(a', slack)
           /\ buf' \in [Units -> Frames \cup {None}]
           /\ \A v \in Units : buf'[v] <= sent
           /\ shown' \in Seq(Picture) /\ prev' \in Frames \cup {None}
           /\ Latest' <= sent
           /\ thread' \in {"on", "close"}
  <1>0. <<>> \in Seq(Picture)
    OBVIOUS
  <1>1. CASE u >= MaxFrame \/ (x.expected /\ u >= x.len)
    <2>1. a' = x /\ Shows(<<>>) /\ buf' = buf /\ thread' = "close"
      BY <1>1 DEF Store
    <2>2. shown' \in Seq(Picture) /\ prev' \in Frames \cup {None}
      BY <1>0, <2>1, ShowsTypes
    <2>3. Latest' <= sent
      BY <2>1, ShowsNone DEF Seen
    <2> QED
      BY <2>1, <2>2, <2>3 DEF Types, Seen
  <1>2. CASE ~(u >= MaxFrame \/ (x.expected /\ u >= x.len))
    <2> DEFINE b == [buf EXCEPT ![u] = f]
               y == Marked(x, u)
    <2>1. /\ buf' = b /\ a' = y
          /\ thread' = IF FrameIsComplete(y) THEN "close" ELSE "on"
          /\ Shows(IF FrameIsComplete(y) THEN EnqueueCurrentFrame(y, b) ELSE <<>>)
      BY <1>2 DEF Store, Marked
    <2>2. u \in Units
      BY <1>2 DEF Units
    <2>3. y \in Assembly /\ b \in [Units -> Frames \cup {None}]
      BY <2>2, MarkedIs DEF Types
    <2>4. Bounded(y, slack)
      <3>1. y.count - Cardinality(y.cover) = x.count - Cardinality(x.cover)
        BY <2>2, MarkedCount
      <3>2. /\ x.count \in Nat /\ Cardinality(x.cover) \in Nat
            /\ y.count \in Nat /\ Cardinality(y.cover) \in Nat
        BY <2>3, CoverFinite DEF Assembly
      <3> HIDE DEF y
      <3> QED
        BY <3>1, <3>2 DEF Bounded
    <2>5. \A v \in Units : b[v] <= sent
      BY DEF Seen, Types
    <2> HIDE DEF y, b
    <2>6. Shows(<<>>) \/ Shows(EnqueueCurrentFrame(y, b))
      BY <2>1
    <2>7. Latest' <= sent
      BY <2>3, <2>5, <2>6, ShowsSeen
    <2>8. shown' \in Seq(Picture) /\ prev' \in Frames \cup {None}
      <3>1. EnqueueCurrentFrame(y, b) \in Seq(Picture)
        BY <2>3, EnqueueType
      <3> QED
        BY <1>0, <2>6, <3>1, ShowsTypes
    <2> QED
      BY <2>1, <2>3, <2>4, <2>5, <2>7, <2>8
  <1> QED
    BY <1>1, <1>2

\* A unit of the frame that is assembled leaves it assembled, or to be closed,
\* submitted or not.
LEMMA StoreFrame ==
    ASSUME Types, NEW x \in Assembly, NEW f \in Frames,
           Assembles(x, buf, f), NEW u \in Nat, Store(x, f, u)
    PROVE  /\ a'.seq = Seqno(f)
           /\ \/ thread' = "on" /\ Assembles(a', buf', f) /\ Shows(<<>>)
              \/ thread' = "close" /\ (Shows(<<>>) \/ Shows(<<Whole(f)>>))
  <1>1. CASE u >= MaxFrame \/ (x.expected /\ u >= x.len)
    BY <1>1 DEF Store, Assembles
  <1>2. CASE ~(u >= MaxFrame \/ (x.expected /\ u >= x.len))
    <2> DEFINE b == [buf EXCEPT ![u] = f]
               y == Marked(x, u)
    <2>1. /\ buf' = b /\ a' = y
          /\ thread' = IF FrameIsComplete(y) THEN "close" ELSE "on"
          /\ Shows(IF FrameIsComplete(y) THEN EnqueueCurrentFrame(y, b) ELSE <<>>)
      BY <1>2 DEF Store, Marked
    <2>2. u \in Units
      BY <1>2 DEF Units
    <2>3. y \in Assembly /\ b \in [Units -> Frames \cup {None}]
      BY <2>2, MarkedIs DEF Types
    <2>4. Assembles(y, b, f)
      <3>1. /\ y.started = x.started /\ y.expected = x.expected /\ y.seq = x.seq
            /\ y.cover = x.cover \cup {u}
            /\ y.len = IF ~x.expected /\ u >= x.len THEN u + 1 ELSE x.len
        BY Zenon, <2>2, MarkedIs
      <3>2. x.len \in Nat /\ x.cover \subseteq Units /\ x.cover \subseteq 0..(x.len - 1)
        BY DEF Assembly, Assembles
      <3>3. y.cover \subseteq 0..(y.len - 1)
        <4>1. CASE ~x.expected /\ u >= x.len
          BY <3>1, <3>2, <4>1
        <4>2. CASE ~(~x.expected /\ u >= x.len)
          <5>1. u < x.len
            BY <1>2, <3>2, <4>2
          <5> QED
            BY <3>1, <3>2, <4>2, <5>1
        <4> QED
          BY <4>1, <4>2
      <3>4. \A v \in y.cover : b[v] = f
        BY <2>2, <3>1, <3>2 DEF Assembles, Types
      <3>5. y.count = Cardinality(y.cover)
        <4>1. y.count - Cardinality(y.cover) = x.count - Cardinality(x.cover)
          BY <2>2, MarkedCount
        <4>2. x.count = Cardinality(x.cover) /\ x.count \in Nat
          BY DEF Assembles, Assembly
        <4>3. y.count \in Nat /\ Cardinality(y.cover) \in Nat
          BY <2>3, CoverFinite DEF Assembly
        <4> HIDE DEF y
        <4> QED
          BY <4>1, <4>2, <4>3
      <3> HIDE DEF y, b
      <3> QED
        BY <3>1, <3>3, <3>4, <3>5 DEF Assembles
    <2> HIDE DEF y, b
    <2>5. a'.seq = Seqno(f)
      BY <2>1, <2>4 DEF Assembles
    <2>6. EnqueueCurrentFrame(y, b) \in {<<>>, <<Whole(f)>>}
      BY <2>3, <2>4, EnqueueWhole
    <2> QED
      BY <2>1, <2>4, <2>5, <2>6
  <1> QED
    BY <1>1, <1>2

-----------------------------------------------------------------------------
(***************************************************************************)
(* A packet.                                                               *)
(***************************************************************************)
Handled(f, u, hdr) ==
    \/ Begin(f, u, hdr) \/ Switch(f) \/ Continue(f, u, hdr)
    \/ TimedOut(f, hdr) \/ LenChanged(f, hdr)

\* The numbers are those of a stream.
LEMMA SeqnoType ==
    ASSUME Types, NEW f \in Frames
    PROVE  Seqno(f) \in 0..(SeqMod - 1)
  <1>1. f \in Nat /\ first \in Nat /\ base + f \in Int /\ SeqMod \in Nat \ {0}
    BY DEF Frames, Types
  <1>2. (base + f) % SeqMod \in 0..(SeqMod - 1)
    BY Zenon, <1>1, ModSplit
  <1>3. earlier[f] \in 0..(SeqMod - 1)
    BY DEF Types
  <1> QED
    BY <1>2, <1>3 DEF Seqno

\* What arrives is a unit of a frame that was sent not long ago.
LEMMA ArrivesIs ==
    ASSUME Types, NEW f \in Frames, NEW hdr \in 0..MaxFrame,
           NEW u \in 0..(FrameLen[f] - 1), Arrives(f, u, hdr)
    PROVE  /\ f \in Nat /\ u \in Nat /\ f <= sent /\ sent - f < Half
           /\ Seqno(f) \in 0..(SeqMod - 1) /\ (hdr > 0 <=> ~legacy)
           /\ thread = "on" /\ running
  <1>1. f \in Nat /\ FrameLen[f] \in Nat
    BY DEF Frames
  <1>2. Seqno(f) \in 0..(SeqMod - 1)
    BY SeqnoType
  <1>3. hdr > 0 <=> ~legacy
    BY DEF Arrives, Says
  <1> QED
    BY <1>1, <1>2, <1>3 DEF Arrives, Types, Half

\* Learning the length from a header keeps the assembly sound.
LEMMA ToldType ==
    ASSUME Types, NEW hdr \in 0..MaxFrame, NEW slack \in Nat, Bounded(a, slack)
    PROVE  Told(hdr) \in Assembly /\ Bounded(Told(hdr), slack)
  <1>1. CASE hdr > 0 /\ ~a.expected
    <2>1. Told(hdr) = [a EXCEPT !.len = hdr, !.expected = TRUE]
      BY <1>1 DEF Told
    <2>2. Told(hdr) \in Assembly
      BY <2>1 DEF Types, Assembly
    <2>3. Told(hdr).count = a.count /\ Told(hdr).cover = a.cover
      BY <2>1 DEF Types, Assembly
    <2> QED
      BY <2>2, <2>3 DEF Bounded
  <1>2. CASE ~(hdr > 0 /\ ~a.expected)
    BY <1>2 DEF Told, Types
  <1> QED
    BY <1>1, <1>2

\* Whatever a packet is taken for, types and bound are kept.
LEMMA PacketTypes ==
    ASSUME Types, Seen, Hand, NEW f \in Frames, NEW hdr \in 0..MaxFrame,
           NEW u \in 0..(FrameLen[f] - 1), Arrives(f, u, hdr),
           NEW slack \in Nat, Bounded(a, slack), Handled(f, u, hdr)
    PROVE  /\ a' \in Assembly /\ Bounded(a', slack)
           /\ buf' \in [Units -> Frames \cup {None}]
           /\ \A v \in Units : buf'[v] <= sent
           /\ shown' \in Seq(Picture) /\ prev' \in Frames \cup {None}
           /\ Latest' <= sent
           /\ heard' \in {heard, f}
           /\ \/ thread' \in {"on", "close"} /\ next' = None
              \/ thread' = "switch" /\ next' = f
  <1>1. a \in Assembly /\ buf \in [Units -> Frames \cup {None}] /\ <<>> \in Seq(Picture)
        /\ next = None
    BY ArrivesIs DEF Types, Hand
  <1>2. u \in Nat /\ f <= sent /\ Seqno(f) \in 0..(SeqMod - 1)
    BY ArrivesIs
  <1>3. CASE Begin(f, u, hdr)
    <2>1. Store(FrameStart(a, Seqno(f), hdr), f, u) /\ heard' = f /\ next' = next
      BY <1>3 DEF Begin
    <2>2. /\ FrameStart(a, Seqno(f), hdr) \in Assembly
          /\ Bounded(FrameStart(a, Seqno(f), hdr), slack)
      BY <1>1, <1>2, StartIs
    <2> QED
      BY <1>1, <1>2, <2>1, <2>2, StoreTypes
  <1>4. CASE Continue(f, u, hdr)
    <2>1. Store(Told(hdr), f, u) /\ heard' = heard /\ next' = next
      BY <1>4 DEF Continue
    <2>2. Told(hdr) \in Assembly /\ Bounded(Told(hdr), slack)
      BY ToldType
    <2> QED
      BY <1>1, <1>2, <2>1, <2>2, StoreTypes
  <1>5. CASE Switch(f)
    <2>1. /\ UNCHANGED <<a, buf, heard>> /\ thread' = "switch" /\ next' = f
          /\ Shows(EnqueueCurrentFrame(a, buf))
      BY <1>5 DEF Switch
    <2>2. \A v \in Units : buf[v] <= sent
      BY DEF Seen
    <2>3. shown' \in Seq(Picture) /\ prev' \in Frames \cup {None}
      BY <1>1, <2>1, EnqueueType, ShowsTypes
    <2>4. Latest' <= sent
      BY <1>1, <2>1, <2>2, ShowsSeen
    <2> QED
      BY <1>1, <2>1, <2>2, <2>3, <2>4
  <1>6. CASE TimedOut(f, hdr) \/ LenChanged(f, hdr)
    <2>1. PICK x \in {a, Told(hdr)} :
            /\ a' = x /\ UNCHANGED <<buf, heard, next>> /\ thread' = "close"
            /\ Shows(<<>>) \/ Shows(EnqueueCurrentFrame(x, buf))
      BY <1>6 DEF TimedOut, LenChanged
    <2>2. x \in Assembly /\ Bounded(x, slack)
      BY <1>1, <2>1, ToldType
    <2>3. \A v \in Units : buf[v] <= sent
      BY DEF Seen
    <2>4. shown' \in Seq(Picture) /\ prev' \in Frames \cup {None}
      BY <1>1, <2>1, <2>2, EnqueueType, ShowsTypes
    <2>5. Latest' <= sent
      BY <1>1, <2>1, <2>2, <2>3, ShowsSeen
    <2> QED
      BY <1>1, <2>1, <2>2, <2>3, <2>4, <2>5
  <1> QED
    BY <1>3, <1>4, <1>5, <1>6 DEF Handled

\* A packet of the number that is assembled is of the frame heard last: the
\* frames on the way are too few to have the same number twice.
LEMMA SameNumber ==
    ASSUME Types, Near, NEW f \in Nat, first <= f, f <= sent, sent - f < Half,
           heard >= first, Seqno(f) = Seqno(heard)
    PROVE  f = heard
  <1>1. /\ heard \in Nat /\ sent \in Nat /\ first \in Nat
        /\ base \in 0..(SeqMod - 1) /\ Half \in Nat
    BY HalfTwice DEF Types
  <1>2. sent - heard < Half /\ f <= sent /\ heard <= sent
    BY DEF Near, Types
  <1>3. ~(f < heard)
    BY <1>1, <1>2, SeqOrder
  <1>4. ~(heard < f)
    BY <1>1, <1>2, SeqOrder
  <1> QED
    BY <1>1, <1>3, <1>4

\* A packet that is taken for a newer frame is of a later frame.
LEMMA NewerIsLater ==
    ASSUME Types, Near, NEW f \in Nat, first <= f, f <= sent, sent - f < Half,
           heard >= first, SeqIsNewer(Seqno(f), Seqno(heard))
    PROVE  heard < f
  <1>1. /\ heard \in Nat /\ sent \in Nat /\ first \in Nat /\ heard <= sent
        /\ base \in 0..(SeqMod - 1) /\ Half \in Nat
    BY HalfTwice DEF Types
  <1>2. f # heard
    BY DEF SeqIsNewer
  <1>3. ~(f < heard)
    BY <1>1, SeqOrder
  <1> QED
    BY <1>1, <1>2, <1>3

\* What a step of the thread leaves of a stream that goes on undisturbed.
After ==
    /\ heard' >= first /\ Latest' <= heard'
    /\ WholeFrame' /\ InOrder'
    /\ \/ thread' = "on" /\ Assembles(a', buf', heard') /\ Latest' < heard'
       \/ thread' = "close" /\ a'.seq = Seqno(heard')
       \/ thread' = "switch" /\ a'.seq = Seqno(heard') /\ heard' < next'

\* Storing a unit of a frame later than all that was submitted.
LEMMA StoreAfter ==
    ASSUME Types, NEW x \in Assembly, NEW f \in Frames, NEW u \in Nat,
           Assembles(x, buf, f), Latest < f, f >= first,
           Store(x, f, u), heard' = f
    PROVE  After
  <1>1. f \in Nat /\ Latest \in Nat
    BY LatestType DEF Frames, None
  <1>2. /\ a'.seq = Seqno(f)
        /\ \/ thread' = "on" /\ Assembles(a', buf', f) /\ Shows(<<>>)
           \/ thread' = "close" /\ (Shows(<<>>) \/ Shows(<<Whole(f)>>))
    BY StoreFrame
  <1>3. CASE Shows(<<>>)
    <2>1. Latest' = Latest
      BY <1>3, ShowsNone
    <2> QED
      BY <1>1, <1>2, <2>1, <1>3, ShowsNone DEF After
  <1>4. CASE Shows(<<Whole(f)>>) /\ ~Shows(<<>>)
    <2>1. Latest' = f /\ thread' = "close" /\ WholeFrame' /\ InOrder'
      BY <1>2, <1>4, ShowsOne
    <2> QED
      BY <1>1, <1>2, <2>1 DEF After
  <1> QED
    BY <1>2, <1>3, <1>4

\* What the invariant says between two packets of an undisturbed stream.
LEMMA Undisturbed ==
    ASSUME IInv, Live, thread = "on"
    PROVE  /\ Types /\ Near /\ a \in Assembly /\ buf \in [Units -> Frames \cup {None}]
           /\ heard \in Nat /\ first \in Nat /\ sent \in Nat /\ Latest \in Nat
           /\ heard >= first => Latest <= heard
           /\ heard < first => Latest < first
           /\ a.started => heard >= first /\ Assembles(a, buf, heard) /\ Latest < heard
           /\ ~a.started /\ a.valid => heard >= first /\ a.finished = Seqno(heard)
           /\ heard >= first => a.started \/ a.valid
  <1>1. Types /\ Near /\ ~Closing
    BY DEF IInv, Closing
  <1>2. Latest \in Nat
    BY <1>1, LatestType DEF Frames, None
  <1> QED
    BY <1>1, <1>2 DEF IInv, Live, Types, Position, Order

\* The first packet of a frame.
LEMMA BeginFrame ==
    ASSUME IInv, Live, NEW f \in Frames, NEW hdr \in 0..MaxFrame,
           NEW u \in 0..(FrameLen[f] - 1), Arrives(f, u, hdr), f >= first,
           Begin(f, u, hdr)
    PROVE  After
  <1> DEFINE x == FrameStart(a, Seqno(f), hdr)
  <1>1. Types /\ thread = "on"
    BY ArrivesIs DEF IInv
  <1>2. /\ f \in Nat /\ u \in Nat /\ f <= sent /\ sent - f < Half
        /\ Seqno(f) \in 0..(SeqMod - 1) /\ (hdr > 0 <=> ~legacy)
    BY <1>1, ArrivesIs
  <1>3. /\ ~a.started /\ Store(x, f, u) /\ heard' = f
        /\ ~(a.valid /\ ~SeqIsNewer(Seqno(f), a.finished))
    BY DEF Begin
  <1>4. /\ Near /\ a \in Assembly
        /\ heard \in Nat /\ first \in Nat /\ Latest \in Nat
        /\ heard >= first => Latest <= heard
        /\ heard < first => Latest < first
        /\ heard >= first => a.valid /\ a.finished = Seqno(heard)
    BY <1>1, <1>3, Undisturbed
  <1>5. Latest < f
    <2>1. CASE heard < first
      BY <1>2, <1>4, <2>1
    <2>2. CASE heard >= first
      <3>1. SeqIsNewer(Seqno(f), Seqno(heard))
        BY <1>3, <1>4, <2>2
      <3>2. heard < f
        BY <1>1, <1>2, <1>4, <2>2, <3>1, NewerIsLater
      <3> QED
        BY <1>2, <1>4, <2>2, <3>2
    <2> QED
      BY <1>4, <2>1, <2>2
  <1>6. x \in Assembly /\ Assembles(x, buf, f)
    BY <1>2, <1>4, StartIs
  <1> HIDE DEF x
  <1> QED
    BY <1>1, <1>2, <1>3, <1>5, <1>6, StoreAfter

\* A packet of a newer frame ends the current one.
LEMMA SwitchFrame ==
    ASSUME IInv, Live, NEW f \in Frames, NEW hdr \in 0..MaxFrame,
           NEW u \in 0..(FrameLen[f] - 1), Arrives(f, u, hdr), f >= first, Switch(f)
    PROVE  After
  <1>1. Types /\ thread = "on"
    BY ArrivesIs DEF IInv
  <1>2. f \in Nat /\ f <= sent /\ sent - f < Half
    BY <1>1, ArrivesIs
  <1>3. /\ a.started /\ SeqIsNewer(Seqno(f), a.seq)
        /\ thread' = "switch" /\ next' = f /\ UNCHANGED <<a, buf, heard>>
        /\ Shows(EnqueueCurrentFrame(a, buf))
    BY DEF Switch
  <1>4. /\ Near /\ a \in Assembly /\ buf \in [Units -> Frames \cup {None}]
        /\ heard \in Nat /\ first \in Nat /\ Latest \in Nat /\ sent \in Nat
        /\ heard >= first /\ Assembles(a, buf, heard) /\ Latest < heard
    BY <1>1, <1>3, Undisturbed
  <1>5. a.seq = Seqno(heard)
    BY <1>4 DEF Assembles
  <1>6. heard < f
    BY <1>1, <1>2, <1>3, <1>4, <1>5, NewerIsLater
  <1>7. heard \in Frames
    BY <1>1, <1>4 DEF Types, Frames
  <1>8. EnqueueCurrentFrame(a, buf) \in {<<>>, <<Whole(heard)>>}
    BY <1>4, <1>7, EnqueueWhole
  <1>9. CASE Shows(<<>>)
    <2>1. Latest' = Latest /\ WholeFrame' /\ InOrder'
      BY <1>9, ShowsNone
    <2> QED
      BY <1>3, <1>4, <1>5, <1>6, <2>1 DEF After
  <1>10. CASE Shows(<<Whole(heard)>>)
    <2>1. Latest' = heard /\ WholeFrame' /\ InOrder'
      BY <1>4, <1>7, <1>10, ShowsOne
    <2> QED
      BY <1>3, <1>4, <1>5, <1>6, <2>1 DEF After
  <1> QED
    BY <1>3, <1>8, <1>9, <1>10

\* Continue, a timeout and a changed length are about the frame that is being
\* assembled; its length is known already if the packets give it.
LEMMA SameFrameIs ==
    ASSUME IInv, Live, NEW f \in Frames, NEW hdr \in 0..MaxFrame,
           NEW u \in 0..(FrameLen[f] - 1), Arrives(f, u, hdr), f >= first,
           a.started, Seqno(f) = a.seq
    PROVE  /\ Types /\ f \in Nat /\ u \in Nat /\ f = heard
           /\ a \in Assembly /\ buf \in [Units -> Frames \cup {None}]
           /\ Latest < f /\ Latest \in Nat /\ Assembles(a, buf, f)
           /\ Told(hdr) = a
  <1>1. Types /\ thread = "on"
    BY ArrivesIs DEF IInv
  <1>2. /\ f \in Nat /\ u \in Nat /\ f <= sent /\ sent - f < Half
        /\ (hdr > 0 <=> ~legacy)
    BY <1>1, ArrivesIs
  <1>3. /\ Near /\ a \in Assembly /\ buf \in [Units -> Frames \cup {None}]
        /\ first \in Nat /\ Latest \in Nat
        /\ heard >= first /\ Assembles(a, buf, heard) /\ Latest < heard
    BY <1>1, Undisturbed
  <1>4. Seqno(f) = Seqno(heard)
    BY <1>3 DEF Assembles
  <1>5. f = heard
    BY <1>1, <1>2, <1>3, <1>4, SameNumber
  <1>6. Told(hdr) = a
    BY <1>2, <1>3 DEF Told, Assembles
  <1> QED
    BY <1>1, <1>2, <1>3, <1>5, <1>6

\* A packet of the frame that is being assembled.
LEMMA ContinueFrame ==
    ASSUME IInv, Live, NEW f \in Frames, NEW hdr \in 0..MaxFrame,
           NEW u \in 0..(FrameLen[f] - 1), Arrives(f, u, hdr), f >= first,
           Continue(f, u, hdr)
    PROVE  After
  <1>1. a.started /\ Seqno(f) = a.seq /\ Store(Told(hdr), f, u) /\ heard' = heard
    BY DEF Continue, SameFrame
  <1>2. /\ Types /\ f \in Nat /\ u \in Nat /\ f = heard /\ a \in Assembly
        /\ Latest < f /\ Assembles(a, buf, f) /\ Told(hdr) = a
    BY <1>1, SameFrameIs
  <1>3. Store(a, f, u) /\ heard' = f
    BY <1>1, <1>2
  <1> QED
    BY <1>2, <1>3, StoreAfter

\* A packet of a frame that took too long, or changed its length.
LEMMA TimedOutFrame ==
    ASSUME IInv, Live, NEW f \in Frames, NEW hdr \in 0..MaxFrame,
           NEW u \in 0..(FrameLen[f] - 1), Arrives(f, u, hdr), f >= first,
           TimedOut(f, hdr) \/ LenChanged(f, hdr)
    PROVE  After
  <1>1. a.started /\ Seqno(f) = a.seq /\ heard' = heard /\ thread' = "close"
    BY DEF TimedOut, LenChanged, SameFrame
  <1>2. /\ Types /\ f \in Nat /\ f = heard
        /\ a \in Assembly /\ buf \in [Units -> Frames \cup {None}]
        /\ Latest < f /\ Latest \in Nat /\ Assembles(a, buf, f) /\ Told(hdr) = a
    BY <1>1, SameFrameIs
  <1>3. a' = a /\ (Shows(<<>>) \/ Shows(EnqueueCurrentFrame(a, buf)))
    BY <1>2 DEF TimedOut, LenChanged
  <1>4. a'.seq = Seqno(f)
    BY <1>2, <1>3 DEF Assembles
  <1>5. EnqueueCurrentFrame(a, buf) \in {<<>>, <<Whole(f)>>}
    BY <1>2, EnqueueWhole
  <1>6. CASE Shows(<<>>)
    <2>1. Latest' = Latest /\ WholeFrame' /\ InOrder'
      BY <1>6, ShowsNone
    <2> QED
      BY <1>1, <1>2, <1>4, <2>1 DEF After
  <1>7. CASE Shows(<<Whole(f)>>)
    <2>1. Latest' = f /\ WholeFrame' /\ InOrder'
      BY <1>2, <1>7, ShowsOne
    <2> QED
      BY <1>1, <1>2, <1>4, <2>1 DEF After
  <1> QED
    BY <1>3, <1>5, <1>6, <1>7

-----------------------------------------------------------------------------
(***************************************************************************)
(* The steps of the receiving thread.                                      *)
(***************************************************************************)
\* Once the thread went on with a cleared stream, little is claimed.
LEMMA TornKeeps ==
    ASSUME Types', Hand', Bounded(a, Slack)', Near', Seen', torn'
    PROVE  IInv'
  BY DEF IInv, Clearing, Position, Ending, Order, Live, WholeFrame, InOrder

\* What an undisturbed step leaves is the invariant.
LEMMA AfterKeeps ==
    ASSUME Types', Hand', Bounded(a, Slack)', Near', Seen', ~torn', clear' = "idle",
           UNCHANGED <<first, base, legacy, earlier>>, After
    PROVE  IInv'
  <1>1. Seqno(heard)' = Seqno(heard')
    BY DEF Seqno
  <1>2. Assembles(a', buf', heard') => Assembles(a, buf, heard)' /\ a'.started
    BY <1>1 DEF Assembles
  <1>3. heard' \in Nat /\ first' \in Nat /\ ~(heard' < first')
    BY DEF After, Types
  <1>4. Closing' <=> thread' \in {"close", "switch"}
    BY DEF Closing
  <1>5. Position'
    BY <1>2, <1>4 DEF After, Position
  <1>6. Ending'
    BY <1>1, <1>4 DEF After, Ending
  <1>7. Order'
    BY <1>3, <1>4 DEF After, Order
  <1>8. Clearing' /\ WholeFrame' /\ InOrder'
    BY DEF After, Clearing
  <1> QED
    BY <1>5, <1>6, <1>7, <1>8 DEF IInv

\* Handling a packet, in all the cases above.
LEMMA PacketKeeps ==
    ASSUME IInv, Packet
    PROVE  IInv'
  <1>1. PICK f \in Frames, hdr \in 0..MaxFrame :
            /\ \E u \in 0..(FrameLen[f] - 1) : Arrives(f, u, hdr) /\ Handled(f, u, hdr)
            /\ torn' = (torn \/ clear # "idle" \/ f < first)
    BY DEF Packet, Handled
  <1>2. PICK u \in 0..(FrameLen[f] - 1) : Arrives(f, u, hdr) /\ Handled(f, u, hdr)
    BY <1>1
  <1>3. UNCHANGED <<running, clear, sent, first, base, legacy, earlier>>
    BY DEF Packet, phone
  <1>4. Types /\ Hand /\ Seen /\ Near /\ Bounded(a, Slack)
    BY DEF IInv
  <1>5. Slack \in Nat /\ Slack' \in Nat /\ Slack <= Slack'
    BY <1>1, <1>3, <1>4 DEF Slack, Types
  <1>6. /\ f \in Nat /\ f <= sent /\ sent - f < Half /\ thread = "on" /\ running
        /\ first \in Nat /\ sent \in Nat /\ heard \in Nat /\ heard <= sent
    BY <1>2, <1>4, ArrivesIs DEF Types
  <1>7. /\ a' \in Assembly /\ Bounded(a', Slack)
        /\ buf' \in [Units -> Frames \cup {None}]
        /\ \A v \in Units : buf'[v] <= sent
        /\ shown' \in Seq(Picture) /\ prev' \in Frames \cup {None}
        /\ Latest' <= sent
        /\ heard' \in {heard, f}
        /\ \/ thread' \in {"on", "close"} /\ next' = None
           \/ thread' = "switch" /\ next' = f
    BY <1>2, <1>4, <1>5, PacketTypes
  <1>8. torn' \in BOOLEAN
    BY <1>1
  <1>9. Types'
    <2>1. next' \in 0..sent /\ heard' \in 0..sent
      BY <1>6, <1>7 DEF None
    <2>2. thread' \in {"off", "starting", "on", "close", "switch"}
      BY <1>7
    <2> QED
      BY <1>3, <1>4, <1>7, <1>8, <2>1, <2>2 DEF Types
  <1>10. Bounded(a, Slack)'
    <2>1. a'.count \in Nat /\ Cardinality(a'.cover) \in Nat
      BY <1>7, CoverFinite DEF Assembly
    <2> QED
      BY <1>5, <1>7, <2>1 DEF Bounded
  <1>11. Hand'
    BY <1>7 DEF Hand, Frames, None
  <1>12. Near'
    <2>1. heard' >= first => sent - heard' < Half
      BY <1>4, <1>6, <1>7 DEF Near
    <2>2. next' >= first => sent - next' < Half
      <3>1. first >= 1
        BY <1>4 DEF Types
      <3>2. next' = None => ~(next' >= first)
        BY <1>6, <3>1 DEF None
      <3> QED
        BY <1>6, <1>7, <3>2
    <2> QED
      BY <1>3, <2>1, <2>2 DEF Near
  <1>13. Seen'
    BY <1>3, <1>7 DEF Seen
  <1>14. CASE torn'
    BY <1>9, <1>10, <1>11, <1>12, <1>13, <1>14, TornKeeps
  <1>15. CASE ~torn'
    <2>0. ~torn /\ clear = "idle" /\ ~(f < first)
      BY Zenon, <1>1, <1>15
    <2>1. Live /\ clear' = "idle" /\ f >= first
      BY <1>3, <1>6, <2>0 DEF Live
    <2>2. After
      BY <1>2, <2>1, BeginFrame, SwitchFrame, ContinueFrame, TimedOutFrame DEF Handled
    <2> QED
      BY <1>3, <1>9, <1>10, <1>11, <1>12, <1>13, <1>15, <2>1, <2>2, AfterKeeps
  <1> QED
    BY <1>14, <1>15

\* Closing a frame.
LEMMA CloseKeeps ==
    ASSUME IInv, Close
    PROVE  IInv'
  <1>1. /\ thread = "close" /\ thread' = "on" /\ a' = FrameCloseCurrent(a)
        /\ torn' = (torn \/ clear # "idle" \/ heard < first)
        /\ UNCHANGED <<running, buf, next, clear, sent, first, base, legacy,
                       earlier, heard, shown, prev>>
    BY DEF Close, phone
  <1>2. /\ Types /\ Hand /\ Seen /\ Near /\ a \in Assembly
    BY DEF IInv, Types
  <1>3. Slack' \in Nat
    BY <1>1, <1>2 DEF Slack, Types
  <1>4. /\ a' \in Assembly /\ a'.finished = a.seq /\ ~a'.started /\ a'.valid
        /\ Bounded(a', Slack')
    BY <1>1, <1>2, <1>3, CloseIs, CloseBounded
  <1>5. torn' \in BOOLEAN
    BY <1>1
  <1>6. Types'
    BY <1>1, <1>2, <1>4, <1>5 DEF Types
  <1>7. Hand' /\ Near' /\ Bounded(a, Slack)' /\ Latest' = Latest
    BY <1>1, <1>2, <1>4 DEF Hand, Near, Bounded, Latest
  <1>8. Seen'
    BY <1>1, <1>2, <1>7 DEF Seen
  <1>9. CASE torn'
    BY <1>6, <1>7, <1>8, <1>9, TornKeeps
  <1>10. CASE ~torn'
    <2>0. ~torn /\ clear = "idle" /\ ~(heard < first)
      BY Zenon, <1>1, <1>10
    <2>1. ~torn /\ clear = "idle" /\ heard >= first /\ heard \in Nat /\ first \in Nat
      BY <1>2, <2>0 DEF Types
    <2>2. Seqno(heard)' = Seqno(heard)
      BY <1>1 DEF Seqno
    <2>3. running => a.seq = Seqno(heard)
      BY <1>1, <2>1 DEF IInv, Ending, Live, Closing
    <2>4. Position'
      BY <1>1, <1>4, <2>1, <2>2, <2>3 DEF Position, Live
    <2>5. Ending' /\ Clearing'
      BY <1>1, <2>1 DEF Ending, Closing, Clearing
    <2>6. Order'
      <3>1. Latest <= heard
        BY <2>1 DEF IInv, Order
      <3> QED
        BY <1>1, <1>4, <1>7, <2>1, <3>1 DEF Order
    <2>7. WholeFrame' /\ InOrder'
      BY <1>1, <2>1 DEF IInv, WholeFrame, InOrder
    <2> QED
      BY <1>6, <1>7, <1>8, <2>4, <2>5, <2>6, <2>7 DEF IInv
  <1> QED
    BY <1>9, <1>10

\* Closing a frame and starting the one in hand.
LEMMA CloseAndStartKeeps ==
    ASSUME IInv, CloseAndStart
    PROVE  IInv'
  <1> DEFINE y == FrameCloseCurrent(a)
  <1>1. PICK hdr \in 0..MaxFrame, u \in 0..(FrameLen[next] - 1) :
            Says(hdr) /\ Store(FrameStart(y, Seqno(next), hdr), next, u)
    BY DEF CloseAndStart
  <1>2. /\ thread = "switch" /\ heard' = next /\ next' = None
        /\ torn' = (torn \/ clear # "idle" \/ heard < first)
        /\ UNCHANGED <<running, clear, sent, first, base, legacy, earlier>>
    BY DEF CloseAndStart, phone
  <1>3. /\ Types /\ Hand /\ Seen /\ Near /\ a \in Assembly
    BY DEF IInv, Types
  <1>4. /\ next \in Frames /\ next \in Nat /\ next <= sent /\ u \in Nat
        /\ heard \in Nat /\ first \in Nat /\ sent \in Nat
    <2>1. next # None /\ next \in 0..sent /\ sent \in 0..Len(FrameLen)
      BY <1>2, <1>3 DEF Hand, Types
    <2>2. next \in Frames
      BY <2>1 DEF Frames, None
    <2>3. FrameLen[next] \in Nat
      BY <2>2 DEF Frames
    <2> QED
      BY <1>3, <2>1, <2>2, <2>3 DEF Types
  <1>5. y \in Assembly /\ Seqno(next) \in 0..(SeqMod - 1) /\ (hdr > 0 <=> ~legacy)
    <2>1. y \in Assembly
      BY <1>3, CloseIs
    <2>2. Seqno(next) \in 0..(SeqMod - 1)
      BY <1>3, <1>4, SeqnoType
    <2>3. hdr > 0 <=> ~legacy
      BY <1>1 DEF Says
    <2> QED
      BY <2>1, <2>2, <2>3
  <1> DEFINE x == FrameStart(y, Seqno(next), hdr)
  <1> HIDE DEF y
  <1>6. Slack' \in Nat
    BY <1>2, <1>3 DEF Slack, Types
  <1>7. x \in Assembly /\ Bounded(x, Slack') /\ Assembles(x, buf, next)
    BY <1>4, <1>5, <1>6, StartIs
  <1> HIDE DEF x
  <1>8. Store(x, next, u)
    BY <1>1 DEF x
  <1>9. /\ a' \in Assembly /\ Bounded(a', Slack')
        /\ buf' \in [Units -> Frames \cup {None}]
        /\ \A v \in Units : buf'[v] <= sent
        /\ shown' \in Seq(Picture) /\ prev' \in Frames \cup {None}
        /\ Latest' <= sent
        /\ thread' \in {"on", "close"}
    BY <1>3, <1>4, <1>6, <1>7, <1>8, StoreTypes
  <1>10. torn' \in BOOLEAN
    BY <1>2
  <1>11. Types'
    <2>1. next' \in 0..sent /\ heard' \in 0..sent
      BY <1>2, <1>4 DEF None
    <2>2. thread' \in {"off", "starting", "on", "close", "switch"}
      BY <1>9
    <2> QED
      BY <1>2, <1>3, <1>9, <1>10, <2>1, <2>2 DEF Types
  <1>12. Hand' /\ Bounded(a, Slack)'
    BY <1>2, <1>9 DEF Hand, Bounded
  <1>13. Near' /\ Seen'
    <2>1. first >= 1
      BY <1>3 DEF Types
    <2>2. ~(next' >= first) /\ (heard' >= first => sent - heard' < Half)
      BY <1>2, <1>3, <1>4, <2>1 DEF Near, None
    <2> QED
      BY <1>2, <1>9, <2>2 DEF Near, Seen
  <1>14. CASE torn'
    BY <1>11, <1>12, <1>13, <1>14, TornKeeps
  <1>15. CASE ~torn'
    <2>0. ~torn /\ clear = "idle" /\ ~(heard < first)
      BY Zenon, <1>2, <1>15
    <2>1. ~torn /\ clear = "idle" /\ clear' = "idle" /\ heard >= first
      BY <1>2, <1>4, <2>0
    <2>2. heard < next /\ Latest <= heard
      BY <1>2, <2>1 DEF IInv, Ending, Order
    <2>3. Latest < next /\ next >= first
      BY <1>3, <1>4, <2>1, <2>2, LatestType DEF Frames, None
    <2>4. After
      BY <1>2, <1>3, <1>4, <1>7, <1>8, <2>3, StoreAfter
    <2> QED
      BY <1>2, <1>11, <1>12, <1>13, <1>15, <2>1, <2>4, AfterKeeps
  <1> QED
    BY <1>14, <1>15

-----------------------------------------------------------------------------
(***************************************************************************)
(* The other steps: they submit nothing.                                   *)
(***************************************************************************)
\* What a step that submits nothing leaves of a submission.
LEMMA Quiet ==
    ASSUME IInv, UNCHANGED <<buf, sent>>, Shows(<<>>) \/ UNCHANGED <<shown, prev, torn>>
    PROVE  WholeFrame' /\ InOrder' /\ Latest' = Latest /\ Seen'
  <1>1. CASE Shows(<<>>)
    <2>1. WholeFrame' /\ InOrder' /\ Latest' = Latest
      BY <1>1, ShowsNone
    <2> QED
      BY <2>1 DEF IInv, Seen
  <1>2. CASE UNCHANGED <<shown, prev, torn>>
    BY <1>2 DEF IInv, WholeFrame, InOrder, Latest, Seen
  <1> QED
    BY <1>1, <1>2

\* Resetting the assembly leaves nothing counted.
LEMMA ResetKeeps ==
    ASSUME NEW x \in Assembly, NEW slack \in Nat
    PROVE  LET y == [FrameAssemblyReset(x) EXCEPT !.started = FALSE]
               z == [FrameAssemblyReset(x) EXCEPT !.started = FALSE, !.valid = FALSE]
           IN  /\ y \in Assembly /\ ~y.started /\ y.count = 0 /\ Bounded(y, slack)
               /\ z \in Assembly /\ ~z.started /\ z.count = 0 /\ Bounded(z, slack)
               /\ ~z.valid
  <1> DEFINE r == FrameAssemblyReset(x)
             y == [r EXCEPT !.started = FALSE]
             z == [r EXCEPT !.started = FALSE, !.valid = FALSE]
  <1>1. r \in Assembly /\ r.count = 0 /\ r.cover = {}
    BY ResetIs
  <1> HIDE DEF r
  <1>2. y \in Assembly /\ z \in Assembly
    BY <1>1 DEF Assembly
  <1>3. y.count = 0 /\ y.cover = {} /\ z.count = 0 /\ z.cover = {}
    BY <1>1 DEF Assembly
  <1>4. ~y.started /\ ~z.started /\ ~z.valid
    BY <1>1 DEF Assembly
  <1> HIDE DEF y, z
  <1>5. Bounded(y, slack) /\ Bounded(z, slack)
    BY <1>3, EmptyCard DEF Bounded
  <1> QED
    BY <1>2, <1>3, <1>4, <1>5 DEF r, y, z

\* A new stream: its numbers, and those of the frames before it.
LEMMA NewStreamIs ==
    ASSUME Types, NewStream
    PROVE  /\ first' = sent + 1 /\ UNCHANGED <<sent, legacy>>
           /\ base' \in 0..(SeqMod - 1)
           /\ earlier' \in [Frames -> 0..(SeqMod - 1)]
           /\ ~(heard >= first') /\ ~(next >= first')
  <1>1. /\ earlier' = [f \in Frames |-> IF f <= sent THEN Seqno(f) ELSE 0]
        /\ first' = sent + 1 /\ UNCHANGED <<sent, legacy>>
        /\ base' \in Starts \/ base' = base
    BY DEF NewStream
  <1>2. base' \in 0..(SeqMod - 1)
    BY <1>1 DEF Types
  <1>3. \A f \in Frames : Seqno(f) \in 0..(SeqMod - 1)
    BY SeqnoType
  <1>4. earlier' \in [Frames -> 0..(SeqMod - 1)]
    BY <1>1, <1>3
  <1>5. ~(heard >= first') /\ ~(next >= first')
    BY <1>1 DEF Types
  <1> QED
    BY <1>1, <1>2, <1>4, <1>5

\* Starting and stopping the receiver and its thread.
LEMMA StartStopKeeps ==
    ASSUME IInv, Bind \/ Exit \/ UdpReceiverInit \/ UdpReceiverStop
    PROVE  IInv'
  <1>1. /\ UNCHANGED <<buf, next, clear, sent, heard>>
        /\ Shows(<<>>) \/ UNCHANGED <<shown, prev, torn>>
    BY DEF Bind, Exit, UdpReceiverInit, UdpReceiverStop, NewStream, phone, past
  <1>2. WholeFrame' /\ InOrder' /\ Latest' = Latest /\ Seen'
    BY <1>1, Quiet
  <1>3. Types /\ Hand /\ a \in Assembly /\ Bounded(a, Slack)
    BY DEF IInv, Types
  <1>4. CASE Bind
    <2>1. /\ thread = "starting" /\ thread' \in {"on", "off"}
          /\ UNCHANGED <<a, first, base, legacy, earlier, shown, prev, torn>>
          /\ running' = running \/ running' = FALSE
      BY <1>4 DEF Bind, phone, past
    <2>2. Types'
      <3>1. running' \in BOOLEAN
        BY <1>3, <2>1 DEF Types
      <3> QED
        BY <1>1, <1>3, <2>1, <3>1 DEF Types
    <2>3. Hand' /\ Bounded(a, Slack)' /\ Clearing' /\ Near'
      BY <1>1, <1>3, <2>1 DEF IInv, Hand, Bounded, Slack, Clearing, Near
    <2>4. ~Closing /\ ~Closing' /\ (Live' => Live)
      BY <1>1, <2>1 DEF Closing, Live
    <2>5. Seqno(heard)' = Seqno(heard)
      BY <1>1, <2>1 DEF Seqno
    <2>6. Position'
      BY <1>1, <2>1, <2>4, <2>5 DEF IInv, Position, Assembles
    <2>7. Ending' /\ Order'
      BY <1>1, <1>2, <2>1, <2>4 DEF IInv, Ending, Order
    <2> QED
      BY <1>2, <2>2, <2>3, <2>6, <2>7 DEF IInv
  <1>5. CASE Exit \/ UdpReceiverStop
    <2>1. /\ a' = [FrameAssemblyReset(a) EXCEPT !.started = FALSE]
          /\ ~running'
          /\ UNCHANGED <<first, base, legacy, earlier, shown, prev, torn>>
      BY <1>5 DEF Exit, UdpReceiverStop, phone, past
    <2>2. thread' = thread \/ (thread = "on" /\ thread' = "off")
      BY <1>5 DEF Exit, UdpReceiverStop
    <2>3. running' \in BOOLEAN
      BY <1>3, <1>5 DEF Exit, UdpReceiverStop, Types
    <2>4. Slack \in Nat /\ Slack' = Slack
      BY <1>1, <2>1 DEF Slack
    <2>5. a' \in Assembly /\ ~a'.started /\ a'.count = 0 /\ Bounded(a', Slack)
      BY <1>3, <2>1, <2>4, ResetKeeps
    <2>6. Types'
      BY <1>1, <1>3, <2>1, <2>2, <2>3, <2>5 DEF Types
    <2>7. Hand' /\ Bounded(a, Slack)' /\ Clearing' /\ Near'
      BY <1>1, <1>3, <2>1, <2>2, <2>4, <2>5
         DEF IInv, Hand, Bounded, Clearing, Near
    <2>8. ~Live' /\ (thread' = "switch" => thread = "switch")
      BY <2>1, <2>2 DEF Live
    <2>9. Position' /\ Ending' /\ Order'
      BY <1>1, <1>2, <2>1, <2>8 DEF IInv, Position, Ending, Order
    <2> QED
      BY <1>2, <2>6, <2>7, <2>9 DEF IInv
  <1>6. CASE UdpReceiverInit
    <2>1. /\ a' = [FrameAssemblyReset(a) EXCEPT !.started = FALSE, !.valid = FALSE]
          /\ running' = TRUE /\ thread = "off" /\ thread' = "starting"
          /\ clear = "idle" /\ NewStream /\ torn' = FALSE /\ Shows(<<>>)
      BY <1>6 DEF UdpReceiverInit
    <2>2. /\ first' = sent + 1 /\ UNCHANGED legacy /\ base' \in 0..(SeqMod - 1)
          /\ earlier' \in [Frames -> 0..(SeqMod - 1)]
          /\ ~(heard' >= first') /\ ~(next' >= first')
      BY <1>1, <1>3, <2>1, NewStreamIs
    <2>3. Slack' = 0
      BY <2>1 DEF Slack
    <2>4. /\ a' \in Assembly /\ ~a'.started /\ ~a'.valid /\ a'.count = 0
          /\ Bounded(a', 0)
      BY <1>3, <2>1, ResetKeeps
    <2>5. shown' \in Seq(Picture) /\ prev' \in Frames \cup {None}
      <3>1. <<>> \in Seq(Picture)
        OBVIOUS
      <3> QED
        BY <1>3, <2>1, <3>1, ShowsTypes
    <2>6. Types'
      <3>1. sent \in Nat /\ first' \in 1..(sent' + 1)
        BY <1>1, <1>3, <2>2 DEF Types
      <3>2. /\ running' \in BOOLEAN /\ torn' \in BOOLEAN /\ legacy' \in BOOLEAN
            /\ thread' \in {"off", "starting", "on", "close", "switch"}
        BY <1>3, <2>1, <2>2 DEF Types
      <3> QED
        BY <1>1, <1>3, <2>2, <2>4, <2>5, <3>1, <3>2 DEF Types
    <2>7. Hand' /\ Bounded(a, Slack)' /\ Clearing' /\ Near'
      BY <1>1, <1>3, <2>1, <2>2, <2>3, <2>4 DEF Hand, Bounded, Clearing, Near
    <2>8. Latest' < first'
      <3>1. Latest' <= sent /\ sent \in Nat /\ Latest' \in Nat
        BY <1>1, <1>2, <1>3, LatestType DEF Seen, Types, Frames, None
      <3> QED
        BY <2>2, <3>1
    <2>9. Position' /\ Ending' /\ Order'
      BY <2>2, <2>4, <2>8 DEF Position, Ending, Order
    <2> QED
      BY <1>2, <2>6, <2>7, <2>9 DEF IInv
  <1> QED
    BY <1>4, <1>5, <1>6

\* The three steps of udp_receiver_clear_stream.
LEMMA ClearKeeps ==
    ASSUME IInv, ClearStream \/ ClearMap \/ ClearSeq
    PROVE  IInv'
  <1>1. /\ UNCHANGED <<running, thread, buf, next, sent, heard>>
        /\ Shows(<<>>) \/ UNCHANGED <<shown, prev, torn>>
    BY DEF ClearStream, ClearMap, ClearSeq, NewStream, phone, past
  <1>2. WholeFrame' /\ InOrder' /\ Latest' = Latest /\ Seen'
    BY <1>1, Quiet
  <1>3. Types /\ Hand /\ a \in Assembly /\ Bounded(a, Slack) /\ Clearing
    BY DEF IInv, Types
  <1>4. a.count \in Nat /\ Cardinality(a.cover) \in Nat /\ Cardinality(a.cover) <= MaxFrame
    BY <1>3, CoverFinite DEF Assembly
  <1>5. Hand'
    BY <1>1, <1>3 DEF Hand
  <1>6. CASE ClearStream
    <2>1. /\ a' = [a EXCEPT !.started = FALSE, !.len = 0, !.count = 0,
                            !.expected = FALSE]
          /\ clear' = "map" /\ UNCHANGED <<first, base, legacy, earlier>>
          /\ torn' = FALSE /\ Shows(<<>>)
      BY <1>6 DEF ClearStream, phone
    <2>2. a' \in Assembly
      <3>1. 0 \in 0..MaxFrame /\ 0 \in Nat /\ FALSE \in BOOLEAN
        OBVIOUS
      <3> QED
        BY Zenon, <1>3, <2>1, <3>1, Replaced
    <2>3. a'.count = 0 /\ a'.cover = a.cover
      BY <1>3, <2>1 DEF Assembly
    <2>4. ~a'.started
      BY <1>3, <2>1 DEF Assembly
    <2>5. shown' \in Seq(Picture) /\ prev' \in Frames \cup {None}
      <3>1. <<>> \in Seq(Picture)
        OBVIOUS
      <3> QED
        BY <1>3, <2>1, <3>1, ShowsTypes
    <2>6. Types' /\ Slack' = 0
      BY <1>1, <1>3, <2>1, <2>2, <2>5 DEF Types, Slack
    <2>7. Bounded(a, Slack)' /\ Clearing' /\ Near'
      BY <1>1, <1>4, <2>1, <2>3, <2>4, <2>6 DEF IInv, Clearing, Near, Bounded
    <2>8. Position' /\ Ending' /\ Order'
      BY <2>1, <2>4 DEF Position, Ending, Order, Live
    <2> QED
      BY <1>2, <1>5, <2>6, <2>7, <2>8 DEF IInv
  <1>7. CASE ClearMap
    <2>1. /\ a' = [a EXCEPT !.cover = {}]
          /\ clear = "map" /\ clear' = "seq"
          /\ UNCHANGED <<first, base, legacy, earlier, shown, prev, torn>>
      BY <1>7 DEF ClearMap, phone, past
    <2>2. a' \in Assembly /\ a'.count = a.count /\ a'.cover = {}
      BY <1>3, <2>1 DEF Assembly
    <2>3. a'.started = a.started
      BY <1>3, <2>1 DEF Assembly
    <2>4. Types' /\ Slack = 0 /\ Slack' = IF torn THEN MaxFrame ELSE 0
      BY <1>1, <1>3, <2>1, <2>2 DEF Types, Slack
    <2>5. Bounded(a, Slack)'
      <3>1. a.count <= Slack'
        <4>1. CASE torn
          <5>1. a.count <= Cardinality(a.cover)
            BY <1>3, <1>4, <2>4 DEF Bounded
          <5> QED
            BY <1>4, <2>4, <4>1, <5>1
        <4>2. CASE ~torn
          BY <1>3, <2>1, <2>4, <4>2 DEF Clearing
        <4> QED
          BY <4>1, <4>2
      <3>2. Slack' \in Nat
        BY <2>4
      <3> QED
        BY <1>4, <2>2, <3>1, <3>2, EmptyCard DEF Bounded
    <2>6. Clearing' /\ Near' /\ Position' /\ Ending' /\ Order'
      BY <1>1, <2>1, <2>2, <2>3
         DEF IInv, Clearing, Near, Position, Ending, Order, Live
    <2> QED
      BY <1>2, <1>5, <2>4, <2>5, <2>6 DEF IInv
  <1>8. CASE ClearSeq
    <2>1. /\ a' = [a EXCEPT !.valid = FALSE]
          /\ clear = "seq" /\ clear' = "idle" /\ NewStream
          /\ UNCHANGED <<shown, prev, torn>>
      BY <1>8 DEF ClearSeq, past
    <2>2. a' \in Assembly /\ a'.count = a.count /\ a'.cover = a.cover
      BY <1>3, <2>1 DEF Assembly
    <2>3. a'.started = a.started /\ ~a'.valid
      BY <1>3, <2>1 DEF Assembly
    <2>4. /\ first' = sent + 1 /\ UNCHANGED legacy /\ base' \in 0..(SeqMod - 1)
          /\ earlier' \in [Frames -> 0..(SeqMod - 1)]
          /\ ~(heard' >= first') /\ ~(next' >= first')
      BY <1>1, <1>3, <2>1, NewStreamIs
    <2>5. Types' /\ Slack' = Slack
      <3>1. sent \in Nat /\ first' \in 1..(sent' + 1)
        BY <1>1, <1>3, <2>4 DEF Types
      <3>2. Types'
        BY <1>1, <1>3, <2>1, <2>2, <2>4, <3>1 DEF Types
      <3> QED
        BY <2>1, <3>2 DEF Slack
    <2>6. Bounded(a, Slack)' /\ Clearing' /\ Near'
      BY <1>3, <2>1, <2>2, <2>4, <2>5 DEF Clearing, Near, Bounded
    <2>7. Latest' < first'
      <3>1. Latest' <= sent /\ sent \in Nat /\ Latest' \in Nat
        BY <1>1, <1>2, <1>3, LatestType DEF Seen, Types, Frames, None
      <3> QED
        BY <2>4, <3>1
    <2>8. ~torn' => ~a'.started
      BY <1>3, <2>1, <2>3 DEF Clearing
    <2>9. Position' /\ Ending' /\ Order'
      BY <2>3, <2>4, <2>7, <2>8 DEF Position, Ending, Order, Live
    <2> QED
      BY <1>2, <1>5, <2>5, <2>6, <2>9 DEF IInv
  <1> QED
    BY <1>6, <1>7, <1>8

\* The phone goes on to its next frame.
LEMMA SendKeeps ==
    ASSUME IInv, SendFrame
    PROVE  IInv'
  <1>1. /\ UNCHANGED <<running, thread, a, buf, next, clear, first, base, legacy,
                       earlier, heard, shown, prev, torn>>
        /\ sent' = sent + 1 /\ sent < Len(FrameLen)
        /\ heard >= first => sent + 1 - heard < Half
        /\ next >= first => sent + 1 - next < Half
    BY DEF SendFrame, past, Half
  <1>2. Types /\ sent \in Nat
    BY DEF IInv, Types
  <1>3. WholeFrame' /\ InOrder' /\ Latest' = Latest
    BY <1>1 DEF IInv, WholeFrame, InOrder, Latest
  <1>4. Types'
    BY <1>1, <1>2 DEF Types
  <1>5. Hand' /\ Bounded(a, Slack)' /\ Clearing' /\ Near'
    <2>1. Hand' /\ Bounded(a, Slack)' /\ Clearing'
      BY <1>1 DEF IInv, Hand, Bounded, Slack, Clearing
    <2>2. /\ heard' = heard /\ next' = next /\ first' = first /\ sent' = sent + 1
          /\ heard >= first => sent + 1 - heard < Half
          /\ next >= first => sent + 1 - next < Half
      BY <1>1
    <2>3. sent \in Nat /\ heard \in Nat /\ next \in Nat /\ first \in Nat /\ Half \in Nat
      BY <1>2, HalfTwice DEF Types
    <2>4. Near'
      BY <2>2, <2>3 DEF Near
    <2> QED
      BY <2>1, <2>4
  <1>6. Seen'
    <2>1. Latest \in Nat /\ \A u \in Units : buf[u] \in Frames \cup {None}
      BY <1>2, LatestType DEF Types, Frames, None
    <2>2. Frames \cup {None} \subseteq Nat
      BY DEF Frames, None
    <2>3. Latest <= sent /\ \A u \in Units : buf[u] <= sent
      BY DEF IInv, Seen
    <2>4. \A n \in Nat : n <= sent => n <= sent + 1
      BY <1>2
    <2>5. Latest <= sent + 1
      BY <2>1, <2>3, <2>4
    <2>6. ASSUME NEW u \in Units PROVE buf[u] <= sent + 1
      <3>1. buf[u] \in Nat /\ buf[u] <= sent
        BY <2>1, <2>2, <2>3
      <3> QED
        BY <2>4, <3>1
    <2> QED
      BY <1>1, <1>3, <2>5, <2>6 DEF Seen
  <1>7. Seqno(heard)' = Seqno(heard)
    BY <1>1 DEF Seqno
  <1>8. Position' /\ Ending' /\ Order'
    BY <1>1, <1>3, <1>7 DEF IInv, Position, Ending, Order, Live, Closing, Assembles
  <1> QED
    BY <1>3, <1>4, <1>5, <1>6, <1>8 DEF IInv

\* A receiver that has never run holds nothing.
LEMMA InitInv == Init => IInv
  <1> SUFFICES ASSUME Init PROVE IInv
    OBVIOUS
  <1>1. a \in Assembly /\ a.count = 0 /\ a.cover = {} /\ ~a.started /\ ~a.valid
    <2>1. 0 \in 0..MaxFrame /\ SeqMod - 1 \in 0..(SeqMod - 1) /\ 0 \in Nat
      OBVIOUS
    <2> QED
      BY <2>1 DEF Init, Assembly
  <1>2. Types
    <2>1. sent \in 0..Len(FrameLen) /\ first \in 1..(sent + 1) /\ heard \in 0..sent
      BY DEF Init
    <2>2. base \in 0..(SeqMod - 1) /\ prev \in Frames \cup {None}
      BY DEF Init, None
    <2>3. /\ shown \in Seq(Picture) /\ buf \in [Units -> Frames \cup {None}]
          /\ earlier \in [Frames -> 0..(SeqMod - 1)] /\ next \in 0..sent
      BY DEF Init, None
    <2>4. running \in BOOLEAN /\ legacy \in BOOLEAN /\ torn \in BOOLEAN
      BY DEF Init
    <2>5. /\ thread \in {"off", "starting", "on", "close", "switch"}
          /\ clear \in {"idle", "map", "seq"}
      BY DEF Init
    <2> QED
      BY <1>1, <2>1, <2>2, <2>3, <2>4, <2>5 DEF Types
  <1>3. Hand /\ Bounded(a, Slack) /\ Clearing /\ Near /\ Position /\ Ending
    BY <1>1, EmptyCard DEF Init, Hand, Bounded, Slack, Clearing, Near, Position,
                           Ending, None
  <1>4. Seen /\ Order
    BY <1>1 DEF Init, Seen, Order, Latest, None
  <1>5. WholeFrame /\ InOrder
    BY DEF Init, WholeFrame, InOrder
  <1> QED
    BY <1>2, <1>3, <1>4, <1>5 DEF IInv

\* Every step keeps the invariant.
LEMMA NextInv == IInv /\ [Next]_vars => IInv'
  <1> SUFFICES ASSUME IInv, [Next]_vars PROVE IInv'
    OBVIOUS
  <1>1. CASE UNCHANGED vars
    BY <1>1 DEF vars, phone, past, IInv, Types, Hand, Bounded, Slack, Clearing,
                Near, Position, Ending, Seen, Order, Live, Closing, Latest,
                Assembles, Seqno, WholeFrame, InOrder
  <1> QED
    BY Zenon, <1>1, PacketKeeps, CloseKeeps, CloseAndStartKeeps, StartStopKeeps,
       ClearKeeps, SendKeeps DEF Next

\* The invariant holds in every behaviour of the receiver and the phone.
THEOREM AssemblyInvariant == Spec => []IInv
  BY InitInv, NextInv, PTL DEF Spec

\* Types of the receiver, and a count within the buffer.
THEOREM AssemblyTypeCorrect == Spec => []TypeOK
  <1>1. IInv => TypeOK
    <2> SUFFICES ASSUME IInv PROVE TypeOK
      OBVIOUS
    <2>1. Types /\ Hand /\ a.count <= Cardinality(a.cover) + Slack
      BY DEF IInv, Bounded
    <2>2. a.count \in Nat /\ Cardinality(a.cover) \in Nat /\ Cardinality(a.cover) <= MaxFrame
      BY <2>1, CoverFinite DEF Types, Assembly
    <2>3. a.count <= (IF torn THEN 2 * MaxFrame ELSE MaxFrame)
      BY <2>1, <2>2 DEF Slack, Types
    <2> QED
      BY <2>1, <2>3 DEF Types, Hand, TypeOK
  <1> QED
    BY <1>1, AssemblyInvariant, PTL

\* Only whole frames are submitted, whatever is lost, repeated or reordered.
THEOREM AssemblyWholeFrame == Spec => []WholeFrame
  <1>1. IInv => WholeFrame
    BY DEF IInv
  <1> QED
    BY <1>1, AssemblyInvariant, PTL

\* No frame is submitted twice or after a later one.
THEOREM AssemblyInOrder == Spec => []InOrder
  <1>1. IInv => InOrder
    BY DEF IInv
  <1> QED
    BY <1>1, AssemblyInvariant, PTL

\* The frame that the phone sends now is never taken for an old one.
THEOREM AssemblyNeverDeaf == Spec => []NeverDeaf
  <1>1. IInv => NeverDeaf
    <2> SUFFICES ASSUME IInv, Live, thread = "on", sent >= first, sent > heard
                 PROVE  /\ a.started => SeqIsNewer(Seqno(sent), a.seq)
                        /\ ~a.started /\ a.valid =>
                              SeqIsNewer(Seqno(sent), a.finished)
      BY DEF NeverDeaf, Live
    <2>1. /\ Types /\ Near
          /\ heard \in Nat /\ sent \in Nat /\ first \in Nat /\ base \in 0..(SeqMod - 1)
          /\ a.started => heard >= first /\ Assembles(a, buf, heard)
          /\ ~a.started /\ a.valid => heard >= first /\ a.finished = Seqno(heard)
      BY Undisturbed DEF Types
    <2>2. heard >= first => SeqIsNewer(Seqno(sent), Seqno(heard))
      BY <2>1, SeqOrder DEF Near
    <2> QED
      BY <2>1, <2>2 DEF Assembles
  <1> QED
    BY <1>1, AssemblyInvariant, PTL
=============================================================================
