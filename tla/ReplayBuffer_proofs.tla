------------------------- MODULE ReplayBuffer_proofs -------------------------
(***************************************************************************)
(* What is proved of the replay buffer for every set of audio tracks,      *)
(* buffer time and bound: that the deque is the newest part of the log,    *)
(* that frames_erased says whether it is all of it, that a file's streams  *)
(* keep their order, and that the buffer implements ReplayService.         *)
(***************************************************************************)
EXTENDS ReplayBuffer, SequenceTheorems, FiniteSetTheorems,
        WellFoundedInduction, TLAPS

-----------------------------------------------------------------------------
(* Lemmas about the operators.                                             *)

(* First, the loop that looks for the first packet of a kind, finds it.    *)
LEMMA FirstIsLeast ==
    ASSUME NEW S, S \subseteq Nat, S # {}
    PROVE  /\ First(S) \in S
           /\ \A j \in S : First(S) <= j
<1>1. PICK i \in S : \A j \in S : <<j, i>> \notin OpToRel(<, Nat)
  BY WFMin, NatLessThanWellFounded, Zenon
<1>2. \A j \in S : ~(j < i)
  BY <1>1, Zenon DEF OpToRel
<1>3. \A j \in S : i <= j
  BY <1>2, SMT
<1>. QED
  BY <1>3, Zenon DEF First

(* The audio offset is the pts of a packet of the buffer, or 0.            *)
LEMMA AudioOffsetType ==
    ASSUME NEW q \in Seq(Packet), NEW start \in 1 .. Len(q)
    PROVE  AudioOffset(q, start) \in 0 .. MaxPackets
<1>. DEFINE audio == {i \in start .. Len(q) : q[i].stream # Video}
<1>1. CASE audio = {}
  BY <1>1, ReplayAssumption DEF AudioOffset
<1>2. CASE audio # {}
  <2>1. First(audio) \in audio
    <3>1. audio \subseteq Nat
      BY LenProperties
    <3>. HIDE DEF audio
    <3>. QED
      BY <1>2, <3>1, FirstIsLeast
  <2>2. q[First(audio)] \in Packet
    BY <2>1, ElementOfSeq
  <2>. QED
    BY <1>2, <2>2 DEF AudioOffset, Packet
<1>. QED
  BY <1>1, <1>2

(* A save starts inside the buffer, with offsets that are pts.             *)
LEMMA CutType ==
    ASSUME NEW q \in Seq(Packet), KeyFrames(q) # {}, NEW erased \in BOOLEAN
    PROVE  /\ Cut(q, erased).start \in 1 .. Len(q)
           /\ Cut(q, erased).videoOffset \in 0 .. MaxPackets
           /\ Cut(q, erased).audioOffset \in 0 .. MaxPackets
<1>1. KeyFrames(q) \subseteq 1 .. Len(q)
  BY LenProperties DEF KeyFrames
<1>2. Len(q) \in Nat /\ Len(q) >= 1
  BY <1>1, LenProperties
<1>3. CASE ~erased
  BY <1>2, <1>3, ReplayAssumption DEF Cut
<1>4. CASE erased
  <2>. DEFINE start == First(KeyFrames(q))
  <2>1. start \in 1 .. Len(q)
    <3>1. KeyFrames(q) \subseteq Nat
      BY <1>1
    <3>. QED
      BY <1>1, <3>1, FirstIsLeast
  <2>2. q[start].pts \in 0 .. MaxPackets
    <3>1. q[start] \in Packet
      BY <2>1, ElementOfSeq
    <3>. QED
      BY <3>1 DEF Packet
  <2>3. AudioOffset(q, start) \in 0 .. MaxPackets
    BY <2>1, AudioOffsetType
  <2>. QED
    BY <1>4, <2>1, <2>2, <2>3 DEF Cut
<1>. QED
  BY <1>3, <1>4

(* What a push leaves in the deque: all of it, or all but the oldest.      *)
LEMMA TrimmedAppend ==
    ASSUME NEW q \in Seq(Packet), NEW p \in Packet, NEW elapsed
    PROVE  LET t == Trimmed(Append(q, p), elapsed)
               d == IF elapsed >= BufferSecs THEN 1 ELSE 0
           IN  /\ t \in Seq(Packet)
               /\ Len(t) = Len(q) + 1 - d
               /\ \A i \in 1 .. Len(t) :
                     t[i] = IF i + d = Len(q) + 1 THEN p ELSE q[i + d]
<1>. DEFINE a == Append(q, p)
<1>1. /\ a \in Seq(Packet)
      /\ a # <<>>
      /\ Len(a) = Len(q) + 1
      /\ \A i \in 1 .. Len(q) : a[i] = q[i]
      /\ a[Len(q) + 1] = p
  BY AppendProperties
<1>2. Len(q) \in Nat
  BY LenProperties
<1>3. CASE elapsed >= BufferSecs
  <2>1. /\ Tail(a) \in Seq(Packet)
        /\ Len(Tail(a)) = Len(a) - 1
        /\ \A i \in 1 .. Len(Tail(a)) : Tail(a)[i] = a[i + 1]
    BY <1>1, HeadTailProperties
  <2>2. Trimmed(a, elapsed) = Tail(a)
    BY <1>3 DEF Trimmed
  <2>. HIDE DEF a
  <2>3. /\ Len(Tail(a)) = Len(q)
        /\ \A i \in 1 .. Len(Tail(a)) :
              Tail(a)[i] = IF i + 1 = Len(q) + 1 THEN p ELSE q[i + 1]
    BY <1>1, <1>2, <2>1
  <2>. QED
    BY <1>3, <2>1, <2>2, <2>3, <1>2 DEF a
<1>4. CASE ~(elapsed >= BufferSecs)
  <2>1. Trimmed(a, elapsed) = a
    BY <1>4 DEF Trimmed
  <2>. HIDE DEF a
  <2>2. \A i \in 1 .. Len(a) : a[i] = IF i = Len(q) + 1 THEN p ELSE q[i]
    BY <1>1, <1>2
  <2>. QED
    BY <1>1, <1>2, <1>4, <2>1, <2>2 DEF a
<1>. QED
  BY <1>3, <1>4

-----------------------------------------------------------------------------
(* The inductive invariant.                                                *)

(* The steps of the clock and of what measures the age of a packet.        *)
ClockStep ==
    Tick \/ Pause \/ Unpause \/ \E s \in AudioStreams : ReceiveFrames(s)

(* They leave everything else alone.                                       *)
LEMMA ClockStepFrame ==
    ClockStep =>
        UNCHANGED <<nextPts, queue, frames_erased, main, erasedArg, save,
                    saver, file, pushed, early>>
BY DEF ClockStep, Tick, Pause, Unpause, ReceiveFrames

(* The clocks: what was recorded is the clock less the pauses, and an      *)
(* offset that was passed is at most what it is now.                       *)
ClockOK ==
    /\ now \in 0 .. MaxNow
    /\ paused \in BOOLEAN
    /\ paused_time_start \in 0 .. MaxNow
    /\ paused_time_offset \in 0 .. MaxNow
    /\ offsetArg \in [AudioStreams -> 0 .. MaxNow]
    /\ recorded \in 0 .. MaxNow
    /\ RecordedIsUnpaused

LEMMA ClockInv ==
    ASSUME ClockOK, ClockStep
    PROVE  ClockOK'
<1>. USE ReplayAssumption DEF ClockOK, RecordedIsUnpaused
<1>1. CASE Tick
  BY <1>1 DEF Tick
<1>2. CASE Pause
  BY <1>2 DEF Pause
<1>3. CASE Unpause
  <2>1. /\ paused /\ ~paused'
        /\ paused_time_offset' = paused_time_offset + (now - paused_time_start)
        /\ UNCHANGED <<now, paused_time_start, offsetArg, recorded>>
    BY <1>3 DEF Unpause
  <2>2. recorded = paused_time_start - paused_time_offset
    BY <2>1
  <2>3. /\ paused_time_offset' \in 0 .. MaxNow
        /\ paused_time_offset <= paused_time_offset'
        /\ recorded' = now' - paused_time_offset'
    BY <2>1, <2>2
  <2>4. \A s \in AudioStreams : offsetArg'[s] <= paused_time_offset'
    BY <2>1, <2>3
  <2>5. paused' \in BOOLEAN
    BY <1>3, Zenon DEF Unpause
  <2>6. RecordedIsUnpaused'
    BY <2>1, <2>3, <2>4
  <2>. QED
    BY <2>1, <2>3, <2>5, <2>6
<1>4. ASSUME NEW s \in AudioStreams, ReceiveFrames(s)
      PROVE  ClockOK'
  BY <1>4 DEF ReceiveFrames
<1>. QED
  BY <1>1, <1>2, <1>3, <1>4 DEF ClockStep

(* What leaves the clocks alone keeps this.                                *)
LEMMA ClocksKept ==
    RecordedIsUnpaused /\ UNCHANGED <<now, pauseVars>> => RecordedIsUnpaused'
BY DEF RecordedIsUnpaused, pauseVars

(* The age a packet is given lies between what was recorded and the clock. *)
LEMMA ElapsedBetween ==
    ASSUME ClockOK, NEW s \in Streams, s = Video => ~paused
    PROVE  /\ Elapsed(s) \in Int
           /\ recorded <= Elapsed(s)
           /\ Elapsed(s) <= now
<1>. USE ReplayAssumption DEF ClockOK, RecordedIsUnpaused, Elapsed
<1>1. CASE s = Video
  BY <1>1
<1>2. CASE s # Video
  <2>1. s \in AudioStreams
    BY <1>2 DEF Streams
  <2>2. offsetArg[s] \in 0 .. MaxNow /\ offsetArg[s] <= paused_time_offset
    BY <2>1
  <2>. QED
    BY <1>2, <2>2
<1>. QED
  BY <1>1, <1>2

LEMMA InitInv == Init => IInv
<1>. SUFFICES ASSUME Init PROVE IInv
  OBVIOUS
<1>. USE ReplayAssumption DEF Init, NoSave
<1>1. <<>> \in Seq(Packet) /\ <<>> \in Seq(WrittenPacket) /\ Len(<<>>) = 0
  BY EmptySeq
<1>2. save \in [packets : Seq(Packet), start : Nat \ {0},
                videoOffset : 0 .. MaxPackets, audioOffset : 0 .. MaxPackets,
                last : Nat, erased : BOOLEAN]
  <2>1. 0 \in 0 .. MaxPackets /\ FALSE \in BOOLEAN
    OBVIOUS
  <2>2. 1 \in Nat \ {0} /\ 0 \in Nat
    OBVIOUS
  <2>. QED
    BY <1>1, <2>1, <2>2, Zenon
<1>3. TypeOK
  <2>1. /\ now \in 0 .. MaxNow
        /\ nextPts \in [Streams -> 0 .. MaxPackets]
        /\ paused_time_start \in 0 .. MaxNow
        /\ paused_time_offset \in 0 .. MaxNow
        /\ offsetArg \in [AudioStreams -> 0 .. MaxNow]
        /\ recorded \in 0 .. MaxNow
        /\ early \in [clock : Nat, recorded : Nat]
    OBVIOUS
  <2>. QED
    BY <1>1, <1>2, <2>1, Zenon DEF TypeOK
<1>. QED
  BY <1>1, <1>3
     DEF IInv, PtsBounded, PushedInOrder, QueueIsNewest, ErasedIffForgotten,
         OneSave, SnapshotIsRun, FileIsPrefix, FileTimestampsIncrease,
         RecordedIsUnpaused

(* A packet is queued, and the oldest dropped once the buffer time passed. *)
LEMMA PushInv ==
    ASSUME IInv, NEW s \in Streams, NEW key \in BOOLEAN, Push(s, key)
    PROVE  IInv'
<1>. DEFINE p == [stream |-> s, key |-> key, pts |-> nextPts[s]]
            d == IF Elapsed(s) >= BufferSecs THEN 1 ELSE 0
<1>1. p \in Packet
  BY DEF IInv, TypeOK, Packet
<1>2. /\ Len(pushed) < MaxPackets
      /\ queue' = Trimmed(Append(queue, p), Elapsed(s))
      /\ frames_erased' = (frames_erased \/ Elapsed(s) >= BufferSecs)
      /\ pushed' = Append(pushed, p)
      /\ nextPts' = [nextPts EXCEPT ![s] = @ + 1]
      /\ UNCHANGED <<now, main, erasedArg, save, saver, file, pauseVars>>
      /\ early' = [clock |-> early.clock + Within(now),
                   recorded |-> early.recorded + Within(recorded)]
  BY DEF Push
<1>3. p.stream = s /\ p.pts = nextPts[s]
  OBVIOUS
<1>. HIDE DEF p
<1>4. /\ queue \in Seq(Packet)
      /\ pushed \in Seq(Packet)
      /\ Len(queue) \in Nat
      /\ Len(pushed) \in Nat
      /\ DOMAIN queue = 1 .. Len(queue)
      /\ DOMAIN pushed = 1 .. Len(pushed)
      /\ now \in Nat
  BY LenProperties DEF IInv, TypeOK
<1>5. /\ queue' \in Seq(Packet)
      /\ Len(queue') = Len(queue) + 1 - d
      /\ \A i \in 1 .. Len(queue') :
            queue'[i] = IF i + d = Len(queue) + 1 THEN p ELSE queue[i + d]
      /\ DOMAIN queue' = 1 .. Len(queue')
  BY <1>1, <1>2, <1>4, TrimmedAppend, LenProperties
<1>6. /\ pushed' \in Seq(Packet)
      /\ Len(pushed') = Len(pushed) + 1
      /\ \A i \in 1 .. Len(pushed) : pushed'[i] = pushed[i]
      /\ pushed'[Len(pushed) + 1] = p
      /\ DOMAIN pushed' = 1 .. Len(pushed')
  BY <1>1, <1>2, <1>4, AppendProperties, LenProperties
<1>7. /\ nextPts \in [Streams -> 0 .. MaxPackets]
      /\ \A t \in Streams : nextPts[t] <= Len(pushed)
  BY DEF IInv, TypeOK, PtsBounded
<1>8. /\ nextPts' \in [Streams -> 0 .. MaxPackets]
      /\ nextPts'[s] = nextPts[s] + 1
      /\ \A t \in Streams : nextPts[t] <= nextPts'[t]
      /\ \A t \in Streams : nextPts'[t] <= Len(pushed')
  BY <1>2, <1>4, <1>6, <1>7, ReplayAssumption
<1>9. TypeOK' /\ RecordedIsUnpaused'
  <2>1. frames_erased' \in BOOLEAN
    BY <1>2
  <2>2. early' \in [clock : Nat, recorded : Nat]
    <3>1. early \in [clock : Nat, recorded : Nat]
      BY DEF IInv, TypeOK
    <3>. QED
      BY <1>2, <3>1 DEF Within
  <2>3. TypeOK'
    BY <1>2, <1>5, <1>6, <1>8, <2>1, <2>2 DEF IInv, TypeOK, pauseVars
  <2>. QED
    BY <1>2, <2>3, ClocksKept DEF IInv
<1>10. PtsBounded'
  BY <1>2, <1>4, <1>6, <1>8, ReplayAssumption DEF PtsBounded
<1>11. PushedInOrder'
  <2>1. \A i \in 1 .. Len(pushed) :
            /\ pushed[i].stream \in Streams
            /\ pushed[i].pts \in Nat
    <3>1. \A i \in 1 .. Len(pushed) : pushed[i] \in Packet
      BY <1>4, ElementOfSeq
    <3>. QED
      BY <3>1, ReplayAssumption DEF Packet
  <2>2. \A i \in 1 .. Len(pushed) :
            pushed[i].pts < nextPts[pushed[i].stream]
    BY <1>4 DEF IInv, PushedInOrder
  <2>3. \A i, j \in 1 .. Len(pushed) :
            i < j /\ pushed[i].stream = pushed[j].stream =>
                pushed[i].pts < pushed[j].pts
    BY <1>4 DEF IInv, PushedInOrder
  <2>4. \A i \in 1 .. Len(pushed') :
            pushed'[i].pts < nextPts'[pushed'[i].stream]
    <3>. SUFFICES ASSUME NEW i \in 1 .. Len(pushed')
                  PROVE  pushed'[i].pts < nextPts'[pushed'[i].stream]
      OBVIOUS
    <3>1. CASE i = Len(pushed) + 1
      BY <1>3, <1>6, <1>7, <1>8, <3>1
    <3>2. CASE i \in 1 .. Len(pushed)
      BY <1>6, <1>7, <1>8, <2>1, <2>2, <3>2
    <3>. QED
      BY <1>4, <1>6, <3>1, <3>2
  <2>5. \A i, j \in 1 .. Len(pushed') :
            i < j /\ pushed'[i].stream = pushed'[j].stream =>
                pushed'[i].pts < pushed'[j].pts
    <3>. SUFFICES ASSUME NEW i \in 1 .. Len(pushed'),
                         NEW j \in 1 .. Len(pushed'),
                         i < j, pushed'[i].stream = pushed'[j].stream
                  PROVE  pushed'[i].pts < pushed'[j].pts
      OBVIOUS
    <3>1. i \in 1 .. Len(pushed)
      BY <1>4, <1>6
    <3>2. CASE j = Len(pushed) + 1
      BY <1>3, <1>6, <2>2, <3>1, <3>2
    <3>3. CASE j \in 1 .. Len(pushed)
      BY <1>6, <2>3, <3>1, <3>3
    <3>. QED
      BY <1>4, <1>6, <3>2, <3>3
  <2>. QED
    BY <1>6, <2>4, <2>5 DEF PushedInOrder
<1>12. QueueIsNewest'
  <2>1. /\ Len(queue) <= Len(pushed)
        /\ \A i \in 1 .. Len(queue) :
              queue[i] = pushed[Len(pushed) - Len(queue) + i]
    BY <1>4 DEF IInv, QueueIsNewest
  <2>2. Len(queue') <= Len(pushed')
    BY <1>4, <1>5, <1>6, <2>1
  <2>3. ASSUME NEW i \in 1 .. Len(queue')
        PROVE  queue'[i] = pushed'[Len(pushed') - Len(queue') + i]
    <3>1. CASE i + d = Len(queue) + 1
      BY <1>4, <1>5, <1>6, <3>1
    <3>2. CASE i + d \in 1 .. Len(queue)
      <4>1. queue'[i] = pushed[Len(pushed) - Len(queue) + (i + d)]
        BY <1>4, <1>5, <2>1, <3>2
      <4>2. Len(pushed) - Len(queue) + (i + d) \in 1 .. Len(pushed)
        BY <1>4, <2>1, <3>2
      <4>3. Len(pushed') - Len(queue') + i = Len(pushed) - Len(queue) + (i + d)
        <5>1. d \in Int /\ i \in Int
          OBVIOUS
        <5>. HIDE DEF d
        <5>. QED
          BY <1>4, <1>5, <1>6, <5>1
      <4>. QED
        BY <1>6, <4>1, <4>2, <4>3
    <3>. QED
      BY <1>4, <1>5, <3>1, <3>2
  <2>. QED
    BY <1>5, <2>2, <2>3 DEF QueueIsNewest
<1>13. ErasedIffForgotten'
  <2>1. Len(queue) <= Len(pushed)
    BY DEF IInv, QueueIsNewest
  <2>2. CASE Elapsed(s) >= BufferSecs
    <3>1. Len(queue') < Len(pushed')
      BY <1>4, <1>5, <1>6, <2>1, <2>2
    <3>2. frames_erased'
      BY <1>2, <2>2
    <3>. QED
      BY <3>1, <3>2 DEF ErasedIffForgotten
  <2>3. CASE ~(Elapsed(s) >= BufferSecs)
    <3>1. Len(queue') < Len(pushed') <=> Len(queue) < Len(pushed)
      BY <1>4, <1>5, <1>6, <2>3
    <3>2. frames_erased' <=> frames_erased
      BY <1>2, <2>3
    <3>. QED
      BY <3>1, <3>2 DEF IInv, ErasedIffForgotten
  <2>. QED
    BY <2>2, <2>3
<1>14. OneSave'
  BY <1>2 DEF IInv, OneSave
<1>15. SnapshotIsRun'
  <2>. SUFFICES ASSUME main = "opening" \/ saver = "writing"
                PROVE  SnapshotIsRun'
    BY <1>2 DEF SnapshotIsRun
  <2>1. /\ save.start <= Len(save.packets)
        /\ Len(save.packets) <= save.last
        /\ save.last <= Len(pushed)
        /\ \A i \in DOMAIN save.packets :
              save.packets[i] = pushed[save.last - Len(save.packets) + i]
    BY DEF IInv, SnapshotIsRun
  <2>2. /\ save.last \in Nat
        /\ Len(save.packets) \in Nat
        /\ DOMAIN save.packets = 1 .. Len(save.packets)
    BY LenProperties DEF IInv, TypeOK
  <2>3. \A i \in DOMAIN save.packets :
            pushed'[save.last - Len(save.packets) + i]
                = pushed[save.last - Len(save.packets) + i]
    BY <1>4, <1>6, <2>1, <2>2
  <2>4. save.last <= Len(pushed')
    BY <1>4, <1>6, <2>1, <2>2
  <2>. QED
    BY <1>2, <2>1, <2>3, <2>4 DEF SnapshotIsRun
<1>16. FileIsPrefix' /\ FileTimestampsIncrease'
  BY <1>2 DEF IInv, FileIsPrefix, FileTimestampsIncrease, Cursor, Shifted,
              Offset
<1>. QED
  BY <1>9, <1>10, <1>11, <1>12, <1>13, <1>14, <1>15, <1>16 DEF IInv

(* The type of save, as the provers see it: field by field.                *)
LEMMA SaveType ==
    TypeOK =>
        /\ save.packets \in Seq(Packet)
        /\ save.start \in Nat \ {0}
        /\ save.videoOffset \in 0 .. MaxPackets
        /\ save.audioOffset \in 0 .. MaxPackets
        /\ save.last \in Nat
        /\ save.erased \in BOOLEAN
        /\ Len(save.packets) \in Nat
        /\ DOMAIN save.packets = 1 .. Len(save.packets)
  BY LenProperties DEF TypeOK

(* The snapshot is the whole deque, cut inside it.                         *)
LEMMA SnapshotInv ==
    ASSUME IInv, Snapshot
    PROVE  IInv'
<1>1. /\ main = "calling"
      /\ UNCHANGED <<now, nextPts, queue, frames_erased, erasedArg, saver,
                     file, pushed, pauseVars, early>>
  BY DEF Snapshot
<1>2. saver = "none" /\ TypeOK
  BY <1>1 DEF IInv, OneSave
<1>3. /\ PtsBounded' /\ PushedInOrder' /\ QueueIsNewest'
      /\ ErasedIffForgotten' /\ OneSave' /\ FileIsPrefix'
      /\ FileTimestampsIncrease' /\ RecordedIsUnpaused'
  BY <1>1, <1>2, ClocksKept
     DEF IInv, PtsBounded, PushedInOrder, QueueIsNewest,
         ErasedIffForgotten, OneSave, FileIsPrefix, FileTimestampsIncrease
<1>4. CASE KeyFrames(queue) = {}
  <2>1. main' = "loop" /\ save' = save
    BY <1>4 DEF Snapshot
  <2>2. TypeOK'
    BY <1>1, <1>2, <2>1 DEF TypeOK, pauseVars
  <2>3. SnapshotIsRun'
    BY <1>1, <1>2, <2>1 DEF SnapshotIsRun
  <2>. QED
    BY <1>3, <2>2, <2>3 DEF IInv
<1>5. CASE KeyFrames(queue) # {}
  <2>. DEFINE cut == Cut(queue, erasedArg)
  <2>1. /\ main' = "opening"
        /\ save' = [packets |-> queue, start |-> cut.start,
                    videoOffset |-> cut.videoOffset,
                    audioOffset |-> cut.audioOffset, last |-> Len(pushed),
                    erased |-> Len(queue) < Len(pushed)]
    BY <1>5 DEF Snapshot
  <2>2. /\ queue \in Seq(Packet) /\ erasedArg \in BOOLEAN
        /\ Len(queue) \in Nat /\ Len(pushed) \in Nat
        /\ DOMAIN queue = 1 .. Len(queue)
    BY <1>2, LenProperties DEF TypeOK
  <2>3. /\ cut.start \in 1 .. Len(queue)
        /\ cut.videoOffset \in 0 .. MaxPackets
        /\ cut.audioOffset \in 0 .. MaxPackets
    BY <1>5, <2>2, CutType
  <2>. HIDE DEF cut
  <2>4. TypeOK'
    <3>1. cut.start \in Nat \ {0}
      BY <2>2, <2>3
    <3>2. (Len(queue) < Len(pushed)) \in BOOLEAN
      OBVIOUS
    <3>3. save' \in [packets : Seq(Packet), start : Nat \ {0},
                     videoOffset : 0 .. MaxPackets,
                     audioOffset : 0 .. MaxPackets, last : Nat,
                     erased : BOOLEAN]
      BY <2>1, <2>2, <2>3, <3>1, <3>2, Zenon
    <3>. QED
      BY <1>1, <1>2, <2>1, <3>3, Zenon DEF TypeOK, pauseVars
  <2>5. SnapshotIsRun'
    <3>1. /\ save'.packets = queue
          /\ save'.start = cut.start
          /\ save'.last = Len(pushed)
      BY <2>1
    <3>2. /\ Len(queue) <= Len(pushed)
          /\ \A i \in 1 .. Len(queue) :
                queue[i] = pushed[Len(pushed) - Len(queue) + i]
      BY <2>2 DEF IInv, QueueIsNewest
    <3>. QED
      BY <1>1, <2>2, <2>3, <3>1, <3>2 DEF SnapshotIsRun
  <2>. QED
    BY <1>3, <2>4, <2>5 DEF IInv
<1>. QED
  BY <1>4, <1>5

(* A shifted packet keeps its stream and its key flag.                     *)
LEMMA ShiftedType ==
    ASSUME TypeOK, NEW p \in Packet
    PROVE  /\ Shifted(p) \in WrittenPacket
           /\ Shifted(p).stream = p.stream
           /\ Shifted(p).pts = p.pts - Offset(p.stream)
<1>1. Offset(p.stream) \in 0 .. MaxPackets
  BY SaveType DEF Offset
<1>2. p.pts \in 0 .. MaxPackets /\ MaxPackets \in Nat
  BY ReplayAssumption DEF Packet
<1>3. p.pts - Offset(p.stream) \in -MaxPackets .. MaxPackets
  BY <1>1, <1>2
<1>. QED
  BY <1>3 DEF Shifted, Packet, WrittenPacket

(* The task appends the next packet of its copy, shifted.                  *)
LEMMA WritePacketInv ==
    ASSUME IInv, WritePacket
    PROVE  IInv'
<1>. DEFINE next == save.packets[Cursor]
<1>1. /\ saver = "writing"
      /\ Cursor <= Len(save.packets)
      /\ file' = Append(file, Shifted(next))
      /\ UNCHANGED <<now, nextPts, queue, frames_erased, main, erasedArg,
                     save, saver, pushed, pauseVars, early>>
  BY DEF WritePacket
<1>2. /\ TypeOK
      /\ file \in Seq(WrittenPacket)
      /\ Len(file) \in Nat
      /\ DOMAIN file = 1 .. Len(file)
  BY LenProperties DEF IInv, TypeOK
<1>3. /\ Cursor \in 1 .. Len(save.packets)
      /\ Cursor = save.start + Len(file)
      /\ save.start \in Nat
      /\ save.start >= 1
      /\ save.last \in Nat
      /\ Len(save.packets) \in Nat
  <2>1. /\ save.start \in Nat \ {0}
        /\ save.last \in Nat
        /\ Len(save.packets) \in Nat
    BY <1>2, SaveType
  <2>. QED
    BY <1>1, <1>2, <2>1 DEF Cursor
<1>4. next \in Packet
  BY <1>2, <1>3, SaveType, ElementOfSeq
<1>5. /\ Shifted(next) \in WrittenPacket
      /\ Shifted(next).stream = next.stream
      /\ Shifted(next).pts = next.pts - Offset(next.stream)
  BY <1>2, <1>4, ShiftedType
<1>6. /\ file' \in Seq(WrittenPacket)
      /\ Len(file') = Len(file) + 1
      /\ \A i \in 1 .. Len(file) : file'[i] = file[i]
      /\ file'[Len(file) + 1] = Shifted(next)
      /\ DOMAIN file' = 1 .. Len(file')
  BY <1>1, <1>2, <1>5, AppendProperties, LenProperties
<1>7. TypeOK'
  BY <1>1, <1>2, <1>6 DEF TypeOK, pauseVars
<1>8. FileIsPrefix'
  <2>1. Cursor' <= Len(save.packets)' + 1
    BY <1>1, <1>2, <1>3, <1>6 DEF Cursor
  <2>2. \A i \in 1 .. Len(file) :
            file[i] = Shifted(save.packets[save.start + i - 1])
    BY <1>1, <1>2 DEF IInv, FileIsPrefix
  <2>3. \A i \in 1 .. Len(file') :
            file'[i] = Shifted(save.packets[save.start + i - 1])
    <3>. SUFFICES ASSUME NEW i \in 1 .. Len(file')
                  PROVE  file'[i] = Shifted(save.packets[save.start + i - 1])
      OBVIOUS
    <3>1. CASE i \in 1 .. Len(file)
      BY <1>6, <2>2, <3>1
    <3>2. CASE i = Len(file) + 1
      <4>1. save.start + i - 1 = Cursor
        BY <1>2, <1>3, <3>2
      <4>. QED
        BY <1>6, <3>2, <4>1
    <3>. QED
      BY <1>2, <1>6, <3>1, <3>2
  <2>4. \A p : Shifted(p)' = Shifted(p)
    BY <1>1 DEF Shifted, Offset
  <2>. QED
    BY <1>1, <1>6, <2>1, <2>3, <2>4 DEF FileIsPrefix, Shifted, Offset
<1>9. FileTimestampsIncrease'
  <2>. SUFFICES ASSUME NEW i \in 1 .. Len(file'), NEW j \in 1 .. Len(file'),
                       i < j, file'[i].stream = file'[j].stream
                PROVE  file'[i].pts < file'[j].pts
    BY <1>6 DEF FileTimestampsIncrease
  <2>1. i \in 1 .. Len(file)
    BY <1>2, <1>6
  <2>2. CASE j \in 1 .. Len(file)
    BY <1>2, <1>6, <2>1, <2>2 DEF IInv, FileTimestampsIncrease
  <2>3. CASE j = Len(file) + 1
    <3>. DEFINE k == save.start + i - 1
                prior == save.packets[k]
    <3>1. /\ k \in 1 .. Len(save.packets)
          /\ k < Cursor
          /\ k \in Nat
      BY <1>2, <1>3, <2>1
    <3>2. prior \in Packet
      BY <1>2, <3>1, SaveType, ElementOfSeq
    <3>3. /\ file'[i] = Shifted(prior)
          /\ file'[j] = Shifted(next)
      BY <1>1, <1>2, <1>6, <2>1, <2>3 DEF IInv, FileIsPrefix
    <3>4. /\ file'[i].stream = prior.stream
          /\ file'[i].pts = prior.pts - Offset(prior.stream)
      BY <1>2, <3>2, <3>3, ShiftedType
    <3>5. prior.stream = next.stream
      BY <1>5, <3>3, <3>4
    <3>6. prior.pts < next.pts
      <4>. DEFINE base == save.last - Len(save.packets)
      <4>1. /\ base + k \in 1 .. Len(pushed)
            /\ base + Cursor \in 1 .. Len(pushed)
            /\ prior = pushed[base + k]
            /\ next = pushed[base + Cursor]
        <5>1. /\ Len(save.packets) <= save.last
              /\ save.last <= Len(pushed)
              /\ \A n \in 1 .. Len(save.packets) :
                    save.packets[n] = pushed[base + n]
          BY <1>1, <1>2, SaveType DEF IInv, SnapshotIsRun
        <5>2. Len(pushed) \in Nat
          BY <1>2, LenProperties DEF TypeOK
        <5>3. base \in Nat /\ base + Len(save.packets) <= Len(pushed)
          BY <1>3, <5>1, <5>2
        <5>4. \A n \in 1 .. Len(save.packets) : base + n \in 1 .. Len(pushed)
          <6>. HIDE DEF base
          <6>. QED
            BY <1>3, <5>2, <5>3
        <5>. QED
          BY <1>3, <3>1, <5>1, <5>4
      <4>2. DOMAIN pushed = 1 .. Len(pushed)
        BY <1>2, LenProperties DEF TypeOK
      <4>3. base + k < base + Cursor
        BY <1>3, <3>1
      <4>. HIDE DEF base, k, prior, next
      <4>. QED
        BY <3>5, <4>1, <4>2, <4>3 DEF IInv, PushedInOrder
    <3>7. /\ prior.pts \in Int /\ next.pts \in Int
          /\ Offset(next.stream) \in Int
      <4>1. \A p \in Packet : p.pts \in Int
        BY ReplayAssumption DEF Packet
      <4>2. save.videoOffset \in Int /\ save.audioOffset \in Int
        BY <1>2, SaveType, ReplayAssumption
      <4>3. Offset(next.stream) \in Int
        BY <4>2 DEF Offset
      <4>. QED
        BY <1>4, <3>2, <4>1, <4>3
    <3>. QED
      BY <1>5, <3>3, <3>4, <3>5, <3>6, <3>7
  <2>. QED
    BY <1>2, <1>6, <2>2, <2>3
<1>10. /\ PtsBounded' /\ PushedInOrder' /\ QueueIsNewest'
       /\ ErasedIffForgotten' /\ OneSave' /\ SnapshotIsRun'
       /\ RecordedIsUnpaused'
  BY <1>1, ClocksKept
     DEF IInv, PtsBounded, PushedInOrder, QueueIsNewest,
         ErasedIffForgotten, OneSave, SnapshotIsRun
<1>. QED
  BY <1>7, <1>8, <1>9, <1>10 DEF IInv

(* The steps that leave the log and the deque alone.                       *)
LEMMA QuietInv ==
    ASSUME IInv,
           \/ ClockStep \/ RequestSave \/ OpenFile \/ OpenFails \/ FinishFile
           \/ Collect \/ UNCHANGED vars
    PROVE  IInv'
<1>. USE DEF IInv
<1>1. UNCHANGED <<nextPts, queue, frames_erased, pushed>>
  BY ClockStepFrame
     DEF RequestSave, OpenFile, OpenFails, FinishFile, Collect, vars
<1>2. /\ PtsBounded' /\ PushedInOrder' /\ QueueIsNewest'
      /\ ErasedIffForgotten' /\ RecordedIsUnpaused'
  <2>1. /\ PtsBounded' /\ PushedInOrder' /\ QueueIsNewest'
        /\ ErasedIffForgotten'
    BY <1>1 DEF PtsBounded, PushedInOrder, QueueIsNewest, ErasedIffForgotten
  <2>2. CASE ClockStep
    BY <2>1, <2>2, ClockInv DEF ClockOK, TypeOK
  <2>3. CASE UNCHANGED <<now, pauseVars>>
    BY <2>1, <2>3, ClocksKept
  <2>. QED
    BY <2>2, <2>3
       DEF RequestSave, OpenFile, OpenFails, FinishFile, Collect, vars
<1>3. CASE ClockStep
  <2>1. TypeOK'
    <3>1. ClockOK'
      BY <1>3, ClockInv DEF ClockOK, TypeOK
    <3>. QED
      BY <1>3, <3>1, ClockStepFrame DEF ClockOK, TypeOK
  <2>2. OneSave' /\ SnapshotIsRun' /\ FileIsPrefix' /\ FileTimestampsIncrease'
    BY <1>3, ClockStepFrame
       DEF OneSave, SnapshotIsRun, FileIsPrefix, Cursor, Shifted, Offset,
           FileTimestampsIncrease
  <2>. QED
    BY <1>2, <2>1, <2>2
<1>4. CASE RequestSave
  <2>1. TypeOK'
    BY <1>4 DEF RequestSave, pauseVars, TypeOK
  <2>2. OneSave' /\ SnapshotIsRun' /\ FileIsPrefix' /\ FileTimestampsIncrease'
    BY <1>4 DEF RequestSave, OneSave, SnapshotIsRun, FileIsPrefix,
                FileTimestampsIncrease
  <2>. QED
    BY <1>2, <2>1, <2>2
<1>5. CASE OpenFile
  <2>1. <<>> \in Seq(WrittenPacket) /\ Len(<<>>) = 0 /\ DOMAIN <<>> = {}
    BY EmptySeq, LenProperties
  <2>2. TypeOK'
    BY <1>5, <2>1 DEF OpenFile, pauseVars, TypeOK
  <2>3. OneSave' /\ SnapshotIsRun'
    BY <1>5 DEF OpenFile, OneSave, SnapshotIsRun
  <2>4. Cursor' = save.start
    BY <1>5, <2>1, SaveType DEF OpenFile, Cursor
  <2>5. save'.start = save.start /\ save'.packets = save.packets
    BY <1>5 DEF OpenFile
  <2>6. save.start <= Len(save.packets)
    BY <1>5 DEF OpenFile, SnapshotIsRun
  <2>7. FileIsPrefix'
    BY <1>5, <2>1, <2>4, <2>5, <2>6, SaveType DEF OpenFile, FileIsPrefix
  <2>8. FileTimestampsIncrease'
    BY <1>5, <2>1 DEF OpenFile, FileTimestampsIncrease
  <2>. QED
    BY <1>2, <2>2, <2>3, <2>7, <2>8
<1>6. CASE OpenFails
  <2>1. TypeOK'
    BY <1>6 DEF OpenFails, pauseVars, TypeOK
  <2>2. OneSave' /\ SnapshotIsRun' /\ FileIsPrefix' /\ FileTimestampsIncrease'
    BY <1>6 DEF OpenFails, OneSave, SnapshotIsRun, FileIsPrefix, Cursor,
                Shifted, Offset, FileTimestampsIncrease
  <2>. QED
    BY <1>2, <2>1, <2>2
<1>7. CASE FinishFile
  <2>1. TypeOK'
    BY <1>7 DEF FinishFile, pauseVars, TypeOK
  <2>2. main = "loop"
    BY <1>7 DEF FinishFile, OneSave
  <2>3. OneSave' /\ SnapshotIsRun' /\ FileIsPrefix' /\ FileTimestampsIncrease'
    BY <1>7, <2>2 DEF FinishFile, OneSave, SnapshotIsRun, FileIsPrefix,
                      FileTimestampsIncrease
  <2>. QED
    BY <1>2, <2>1, <2>3
<1>8. CASE Collect
  <2>1. save' = [save EXCEPT !.packets = <<>>]
    BY <1>8 DEF Collect
  <2>2. save' \in [packets : Seq(Packet), start : Nat \ {0},
                   videoOffset : 0 .. MaxPackets,
                   audioOffset : 0 .. MaxPackets, last : Nat,
                   erased : BOOLEAN]
    BY <2>1, EmptySeq DEF TypeOK
  <2>3. TypeOK'
    BY <1>8, <2>2, Zenon DEF Collect, pauseVars, TypeOK
  <2>4. OneSave' /\ SnapshotIsRun' /\ FileIsPrefix' /\ FileTimestampsIncrease'
    BY <1>8 DEF Collect, OneSave, SnapshotIsRun, FileIsPrefix,
                FileTimestampsIncrease
  <2>. QED
    BY <1>2, <2>3, <2>4
<1>9. CASE UNCHANGED vars
  <2>1. TypeOK'
    BY <1>9 DEF vars, pauseVars, TypeOK
  <2>2. OneSave' /\ SnapshotIsRun' /\ FileIsPrefix' /\ FileTimestampsIncrease'
    BY <1>9 DEF vars, OneSave, SnapshotIsRun, FileIsPrefix, Cursor, Shifted,
                Offset, FileTimestampsIncrease
  <2>. QED
    BY <1>2, <2>1, <2>2
<1>. QED
  BY <1>3, <1>4, <1>5, <1>6, <1>7, <1>8, <1>9

LEMMA NextInv == IInv /\ [Next]_vars => IInv'
<1>. SUFFICES ASSUME IInv, [Next]_vars PROVE IInv'
  OBVIOUS
<1>1. ASSUME NEW s \in Streams, NEW key \in BOOLEAN, Push(s, key)
      PROVE  IInv'
  BY <1>1, PushInv
<1>2. CASE Snapshot
  BY <1>2, SnapshotInv
<1>3. CASE WritePacket
  BY <1>3, WritePacketInv
<1>4. CASE ClockStep \/ RequestSave \/ OpenFile \/ OpenFails \/ FinishFile
           \/ Collect \/ UNCHANGED vars
  BY <1>4, QuietInv
<1>. QED
  BY <1>1, <1>2, <1>3, <1>4 DEF Next, ClockStep

(* Every behaviour keeps the inductive invariant.                          *)
LEMMA Invariance == Spec => []IInv
<1>. QED
  BY InitInv, NextInv, PTL DEF Spec

-----------------------------------------------------------------------------
(* The theorems.                                                           *)

(* Every variable keeps to its values, whatever the bounds: in particular  *)
(* a save always finds its start inside the copied packets.                *)
THEOREM ReplayTypeCorrect == Spec => []TypeOK
<1>1. IInv => TypeOK
  BY DEF IInv
<1>. QED
  BY <1>1, Invariance, PTL

(* The deque is the unbroken newest part of everything received.           *)
THEOREM ReplayQueueIsNewest == Spec => []QueueIsNewest
<1>1. IInv => QueueIsNewest
  BY DEF IInv
<1>. QED
  BY <1>1, Invariance, PTL

(* frames_erased is set exactly when something has been dropped.           *)
THEOREM ReplayErasedIffForgotten == Spec => []ErasedIffForgotten
<1>1. IInv => ErasedIffForgotten
  BY DEF IInv
<1>. QED
  BY <1>1, Invariance, PTL

(* A saved file keeps every stream's packets in the order of their pts,    *)
(* with any number of audio tracks and whatever arrives during the save.   *)
THEOREM ReplayFileInOrder == Spec => []FileTimestampsIncrease
<1>1. IInv => FileTimestampsIncrease
  BY DEF IInv
<1>. QED
  BY <1>1, Invariance, PTL

(* A packet that is dropped for was queued after BufferSecs seconds of the *)
(* clock, one that grows the deque within BufferSecs seconds of recording. *)
LEMMA CapacityStep ==
    ASSUME IInv, CapacityIsPreroll, [Next]_vars
    PROVE  CapacityIsPreroll'
<1>1. ASSUME NEW s \in Streams, NEW key \in BOOLEAN, Push(s, key)
      PROVE  CapacityIsPreroll'
  <2>. DEFINE p == [stream |-> s, key |-> key, pts |-> nextPts[s]]
  <2>1. p \in Packet
    BY DEF IInv, TypeOK, Packet
  <2>2. /\ queue' = Trimmed(Append(queue, p), Elapsed(s))
        /\ early' = [clock |-> early.clock + Within(now),
                     recorded |-> early.recorded + Within(recorded)]
        /\ s = Video => ~paused
    BY <1>1 DEF Push
  <2>. HIDE DEF p
  <2>3. queue \in Seq(Packet) /\ Len(queue) \in Nat
    BY LenProperties DEF IInv, TypeOK
  <2>4. Len(queue') = Len(queue) + 1
                        - (IF Elapsed(s) >= BufferSecs THEN 1 ELSE 0)
    BY <2>1, <2>2, <2>3, TrimmedAppend
  <2>5. /\ Elapsed(s) \in Int
        /\ recorded <= Elapsed(s)
        /\ Elapsed(s) <= now
    BY <2>2, ElapsedBetween DEF ClockOK, IInv, TypeOK
  <2>6. /\ now \in Nat /\ recorded \in Nat /\ BufferSecs \in Nat
        /\ early.clock \in Nat /\ early.recorded \in Nat
    BY ReplayAssumption DEF IInv, TypeOK
  <2>7. /\ early'.clock = early.clock + Within(now)
        /\ early'.recorded = early.recorded + Within(recorded)
    BY <2>2
  <2>8. early.clock <= Len(queue) /\ Len(queue) <= early.recorded
    BY DEF CapacityIsPreroll
  <2>9. early'.clock <= Len(queue') /\ Len(queue') <= early'.recorded
    BY <2>3, <2>4, <2>5, <2>6, <2>7, <2>8 DEF Within
  <2>. QED
    BY <2>9 DEF CapacityIsPreroll
<1>2. CASE UNCHANGED <<queue, early>>
  BY <1>2 DEF CapacityIsPreroll
<1>3. (\E s \in Streams, key \in BOOLEAN : Push(s, key))
        \/ UNCHANGED <<queue, early>>
  BY ClockStepFrame
     DEF Next, ClockStep, vars, RequestSave, Snapshot, OpenFile, OpenFails,
         WritePacket, FinishFile, Collect
<1>. QED
  BY <1>1, <1>2, <1>3

(* The buffer never holds fewer packets than were produced in the first    *)
(* BufferSecs seconds, nor more than in the first BufferSecs seconds of    *)
(* recording, however the bit rate or frame rate changes, whenever it is   *)
(* paused and however old the offset is that a thread passes.              *)
THEOREM ReplayCapacity == Spec => []CapacityIsPreroll
<1>1. Init => CapacityIsPreroll
  <2>. SUFFICES ASSUME Init PROVE CapacityIsPreroll
    OBVIOUS
  <2>1. Len(queue) = 0 /\ early.clock = 0 /\ early.recorded = 0
    BY EmptySeq DEF Init
  <2>. QED
    BY <2>1 DEF CapacityIsPreroll
<1>2. IInv /\ CapacityIsPreroll /\ [Next]_vars => CapacityIsPreroll'
  BY CapacityStep
<1>. QED
  BY <1>1, <1>2, Invariance, PTL DEF Spec

-----------------------------------------------------------------------------
(* The buffer implements the replay service.                               *)

(* Undoing the shift gives the packet back.                                *)
LEMMA ShiftUndone ==
    ASSUME TypeOK, NEW p \in Packet
    PROVE  [Shifted(p) EXCEPT !.pts = @ + Offset(Shifted(p).stream)] = p
<1>1. /\ p.pts \in Int
      /\ p = [stream |-> p.stream, key |-> p.key, pts |-> p.pts]
  BY ReplayAssumption DEF Packet
<1>2. Offset(p.stream) \in Int
  <2>1. save.videoOffset \in Int /\ save.audioOffset \in Int
    BY SaveType, ReplayAssumption
  <2>. QED
    BY <2>1 DEF Offset
<1>3. Shifted(p) = [stream |-> p.stream, key |-> p.key,
                    pts |-> p.pts - Offset(p.stream)]
  BY <1>1 DEF Shifted
<1>4. [Shifted(p) EXCEPT !.pts = @ + Offset(Shifted(p).stream)]
        = [stream |-> p.stream, key |-> p.key,
           pts |-> (p.pts - Offset(p.stream)) + Offset(p.stream)]
  BY <1>3
<1>5. (p.pts - Offset(p.stream)) + Offset(p.stream) = p.pts
  BY <1>1, <1>2
<1>. QED
  BY <1>1, <1>4, <1>5

(* Index arithmetic for a run of length l that follows the first b entries *)
(* of the log, n of which from its s-th on have been written.              *)
LEMMA RunIndex ==
    ASSUME NEW b \in Nat, NEW s \in Nat, s >= 1, NEW l \in Nat, NEW n \in Nat,
           s + n <= l + 1, NEW i \in 1 .. n
    PROVE  /\ s + i - 1 \in 1 .. l
           /\ b + (s + i - 1) = (b + s) + i - 1
OBVIOUS

LEMMA RunEnd ==
    ASSUME NEW b \in Nat, NEW s \in Nat, NEW l \in Nat, NEW n \in Nat,
           s + n <= l + 1
    PROVE  (b + s) + n <= (b + l) + 1
OBVIOUS

(* The file being written, shifted back, is the log from Position on.      *)
LEMMA OpenedFileIsRun ==
    ASSUME IInv, saver = "writing"
    PROVE  /\ OpenedFile = [i \in 1 .. Len(file) |-> pushed[Position + i - 1]]
           /\ Position + Len(file) <= save.last + 1
           /\ Position \in Nat \ {0}
           /\ save.last <= Len(pushed)
<1>. DEFINE base == save.last - Len(save.packets)
<1>1. /\ TypeOK
      /\ save.start <= Len(save.packets)
      /\ Len(save.packets) <= save.last
      /\ save.last <= Len(pushed)
      /\ \A i \in DOMAIN save.packets : save.packets[i] = pushed[base + i]
      /\ Cursor <= Len(save.packets) + 1
      /\ \A i \in DOMAIN file :
            file[i] = Shifted(save.packets[save.start + i - 1])
  BY DEF IInv, SnapshotIsRun, FileIsPrefix
<1>2. /\ save.packets \in Seq(Packet)
      /\ save.start \in Nat /\ save.start >= 1
      /\ save.last \in Nat
      /\ Len(save.packets) \in Nat
      /\ DOMAIN save.packets = 1 .. Len(save.packets)
  BY <1>1, SaveType
<1>3. Len(file) \in Nat /\ DOMAIN file = 1 .. Len(file)
  BY <1>1, LenProperties DEF TypeOK
<1>4. /\ base \in Nat
      /\ Position = base + save.start
      /\ save.start + Len(file) <= Len(save.packets) + 1
  BY <1>1, <1>2 DEF Position, Cursor
<1>5. ASSUME NEW i \in 1 .. Len(file)
      PROVE  [file[i] EXCEPT !.pts = @ + Offset(file[i].stream)]
               = pushed[Position + i - 1]
  <2>. DEFINE k == save.start + i - 1
  <2>1. k \in 1 .. Len(save.packets) /\ base + k = Position + i - 1
    <3>. HIDE DEF base
    <3>. QED
      BY <1>2, <1>3, <1>4, RunIndex
  <2>2. save.packets[k] \in Packet /\ save.packets[k] = pushed[base + k]
    BY <1>1, <1>2, <2>1, ElementOfSeq
  <2>3. file[i] = Shifted(save.packets[k])
    BY <1>1, <1>3
  <2>4. [file[i] EXCEPT !.pts = @ + Offset(file[i].stream)] = save.packets[k]
    BY <1>1, <2>2, <2>3, ShiftUndone
  <2>. QED
    BY <2>1, <2>2, <2>4
<1>6. OpenedFile = [i \in 1 .. Len(file) |-> pushed[Position + i - 1]]
  BY <1>5 DEF OpenedFile
<1>. HIDE DEF base
<1>7. Position + Len(file) <= save.last + 1
  <2>1. base + Len(save.packets) = save.last
    BY <1>2 DEF base
  <2>2. (base + save.start) + Len(file) <= (base + Len(save.packets)) + 1
    BY <1>2, <1>3, <1>4, RunEnd
  <2>. QED
    BY <1>4, <2>1, <2>2
<1>. QED
  BY <1>1, <1>2, <1>4, <1>6, <1>7

LEMMA ServiceInit == Init => Service!Init
<1>. SUFFICES ASSUME Init PROVE Service!Init
  OBVIOUS
<1>1. Len(<<>>) = 0
  BY EmptySeq
<1>. QED
  BY <1>1 DEF Init, Service!Init, Service!Idle, Job, OpenedFile

LEMMA ServicePush ==
    ASSUME IInv, NEW s \in Streams, NEW key \in BOOLEAN, Push(s, key)
    PROVE  Service!Next
<1>. DEFINE p == [stream |-> s, key |-> key, pts |-> nextPts[s]]
            d == IF Elapsed(s) >= BufferSecs THEN 1 ELSE 0
<1>1. p \in Packet
  BY DEF IInv, TypeOK, Packet
<1>2. /\ queue' = Trimmed(Append(queue, p), Elapsed(s))
      /\ pushed' = Append(pushed, p)
      /\ UNCHANGED <<main, save, saver, file>>
  BY DEF Push
<1>. HIDE DEF p
<1>3. /\ queue \in Seq(Packet) /\ Len(queue) \in Nat
      /\ pushed \in Seq(Packet) /\ Len(pushed) \in Nat
  BY LenProperties DEF IInv, TypeOK
<1>4. Len(queue') = Len(queue) + 1 - d
  BY <1>1, <1>2, <1>3, TrimmedAppend
<1>5. Len(pushed') = Len(pushed) + 1
  BY <1>1, <1>2, <1>3, AppendProperties
<1>6. Len(pushed') - Len(queue') + 1
        \in {Len(pushed) - Len(queue) + 1, (Len(pushed) - Len(queue) + 1) + 1}
  BY <1>3, <1>4, <1>5
<1>7. Job' = Job /\ OpenedFile' = OpenedFile
  BY <1>2 DEF Job, OpenedFile, Position, Offset
<1>8. Service!Receive(p)
  BY <1>2, <1>6, <1>7 DEF Service!Receive
<1>. QED
  BY <1>1, <1>8 DEF Service!Next

LEMMA ServiceSnapshot ==
    ASSUME IInv, Snapshot
    PROVE  [Service!Next]_(Service!vars)
<1>1. /\ main = "calling" /\ saver = "none"
      /\ UNCHANGED <<queue, saver, file, pushed>>
  BY DEF Snapshot, IInv, OneSave
<1>2. OpenedFile = <<>> /\ OpenedFile' = <<>>
  BY <1>1 DEF OpenedFile
<1>3. Job = [state |-> "idle", from |-> 0, to |-> 0]
  BY <1>1 DEF Job
<1>4. CASE KeyFrames(queue) = {}
  <2>1. main' = "loop" /\ save' = save
    BY <1>4 DEF Snapshot
  <2>2. Job' = Job
    BY <1>1, <1>3, <2>1 DEF Job
  <2>. QED
    BY <1>1, <1>2, <2>2 DEF Service!vars
<1>5. CASE KeyFrames(queue) # {}
  <2>. DEFINE cut == Cut(queue, erasedArg)
              from == Len(pushed) - Len(queue) + cut.start
  <2>1. /\ main' = "opening"
        /\ save'.packets = queue /\ save'.start = cut.start
        /\ save'.last = Len(pushed)
    BY <1>5 DEF Snapshot
  <2>2. /\ queue \in Seq(Packet) /\ erasedArg \in BOOLEAN
        /\ Len(queue) \in Nat /\ Len(pushed) \in Nat
        /\ Len(queue) <= Len(pushed)
    BY LenProperties DEF IInv, TypeOK, QueueIsNewest
  <2>3. cut.start \in 1 .. Len(queue)
    BY <1>5, <2>2, CutType
  <2>. HIDE DEF cut
  <2>4. from \in Len(pushed) - Len(queue) + 1 .. Len(pushed)
    BY <2>2, <2>3
  <2>5. Job' = [state |-> "promised", from |-> from, to |-> Len(pushed)]
    <3>1. Position' = from
      BY <2>1 DEF Position
    <3>. HIDE DEF from
    <3>. QED
      BY <1>1, <2>1, <3>1 DEF Job
  <2>6. Service!Promise(from)
    BY <1>1, <1>2, <1>3, <2>4, <2>5 DEF Service!Promise
  <2>. QED
    BY <2>4, <2>6 DEF Service!Next
<1>. QED
  BY <1>4, <1>5

LEMMA ServiceWrite ==
    ASSUME IInv, WritePacket
    PROVE  Service!Next
<1>1. /\ saver = "writing" /\ main = "loop"
      /\ Cursor <= Len(save.packets)
      /\ file' = Append(file, Shifted(save.packets[Cursor]))
      /\ UNCHANGED <<main, saver, save, queue, pushed>>
  BY DEF WritePacket, IInv, TypeOK, OneSave
<1>2. IInv'
  BY WritePacketInv
<1>3. /\ OpenedFile = [i \in 1 .. Len(file) |-> pushed[Position + i - 1]]
      /\ Position \in Nat \ {0}
      /\ save.last <= Len(pushed)
  BY <1>1, OpenedFileIsRun
<1>4. Position' = Position
  BY <1>1 DEF Position
<1>5. Len(file) \in Nat /\ Len(file') = Len(file) + 1
  <2>1. /\ Cursor \in 1 .. Len(save.packets)
        /\ file \in Seq(WrittenPacket)
        /\ Len(file) \in Nat
    <3>1. /\ save.start \in Nat \ {0}
          /\ file \in Seq(WrittenPacket)
          /\ Len(file) \in Nat
          /\ Len(save.packets) \in Nat
      BY SaveType, LenProperties DEF IInv, TypeOK
    <3>. QED
      BY <1>1, <3>1 DEF Cursor
  <2>2. save.packets[Cursor] \in Packet
    BY <2>1, SaveType, ElementOfSeq DEF IInv
  <2>3. Shifted(save.packets[Cursor]) \in WrittenPacket
    BY <2>2, ShiftedType DEF IInv
  <2>. QED
    BY <1>1, <2>1, <2>3, AppendProperties
<1>6. OpenedFile' = [i \in 1 .. Len(file) + 1 |-> pushed[Position + i - 1]]
  <2>1. (saver = "writing")'
    BY <1>1
  <2>2. (OpenedFile = [i \in 1 .. Len(file) |-> pushed[Position + i - 1]])'
    <3>1. (IInv /\ saver = "writing"
             => OpenedFile = [i \in 1 .. Len(file) |->
                                pushed[Position + i - 1]])'
      BY OpenedFileIsRun, PTL
    <3>. QED
      BY <1>2, <2>1, <3>1
  <2>. QED
    BY <1>1, <1>4, <1>5, <2>2
<1>7. Position + Len(file) <= save.last
  <2>1. /\ save.last \in Nat
        /\ save.start \in Nat
        /\ Len(save.packets) \in Nat
    BY SaveType DEF IInv
  <2>2. save.start + Len(file) <= Len(save.packets)
    BY <1>1 DEF Cursor
  <2>. QED
    BY <1>5, <2>1, <2>2 DEF Position
<1>8. Len(OpenedFile) = Len(file)
  BY <1>3, <1>5
<1>9. OpenedFile' = Append(OpenedFile, pushed[Position + Len(OpenedFile)])
  <2>. DEFINE log == [i \in 1 .. Len(file) |-> pushed[Position + i - 1]]
  <2>1. Len(log) = Len(file)
    BY <1>5
  <2>2. Append(log, pushed[Position + Len(file)])
          = [i \in 1 .. Len(file) + 1 |-> pushed[Position + i - 1]]
    BY <1>3, <1>5, <2>1
  <2>. QED
    BY <1>3, <1>6, <1>8, <2>2
<1>10. Job = [state |-> "writing", from |-> Position, to |-> save.last]
  BY <1>1 DEF Job
<1>11. Job' = Job
  BY <1>1 DEF Job, Position
<1>12. Service!Deliver
  BY <1>1, <1>7, <1>8, <1>9, <1>10, <1>11 DEF Service!Deliver
<1>. QED
  BY <1>12 DEF Service!Next

(* Opening, failing to open and finishing a file are steps of the service; *)
(* the clock, the request and the collecting of the future are not.        *)
LEMMA ServiceQuiet ==
    ASSUME IInv,
           \/ ClockStep \/ RequestSave \/ OpenFile \/ OpenFails \/ FinishFile
           \/ Collect \/ UNCHANGED vars
    PROVE  [Service!Next]_(Service!vars)
<1>1. UNCHANGED <<queue, pushed>>
  BY ClockStepFrame
     DEF RequestSave, OpenFile, OpenFails, FinishFile, Collect, vars
<1>2. CASE ClockStep \/ UNCHANGED vars
  <2>1. UNCHANGED <<main, saver, save, file>>
    BY <1>2, ClockStepFrame DEF vars
  <2>2. Job' = Job /\ OpenedFile' = OpenedFile
    BY <2>1 DEF Job, OpenedFile, Position, Offset
  <2>. QED
    BY <1>1, <2>2 DEF Service!vars
<1>3. CASE RequestSave \/ Collect
  <2>1. /\ main \notin {"opening"} /\ saver # "writing"
        /\ main' \notin {"opening"} /\ saver' # "writing"
    BY <1>3 DEF RequestSave, Collect
  <2>2. Job' = Job /\ OpenedFile' = OpenedFile
    BY <2>1 DEF Job, OpenedFile
  <2>. QED
    BY <1>1, <2>2 DEF Service!vars
<1>4. CASE OpenFile
  <2>1. /\ main = "opening" /\ main' = "loop"
        /\ saver = "none" /\ saver' = "writing"
        /\ save' = save /\ file' = <<>>
    BY <1>4 DEF OpenFile, IInv, OneSave
  <2>2. Job = [state |-> "promised", from |-> Position, to |-> save.last]
    BY <2>1 DEF Job
  <2>3. Job' = [state |-> "writing", from |-> Position, to |-> save.last]
    BY <2>1 DEF Job, Position
  <2>4. Len(<<>>) = 0
    BY EmptySeq
  <2>5. OpenedFile = <<>> /\ OpenedFile' = <<>>
    BY <2>1, <2>4 DEF OpenedFile
  <2>6. Service!Start
    BY <1>1, <2>2, <2>3, <2>5 DEF Service!Start
  <2>. QED
    BY <2>6 DEF Service!Next
<1>5. CASE OpenFails
  <2>1. /\ main = "opening" /\ main' = "loop"
        /\ saver = "none" /\ saver' = "none"
    BY <1>5 DEF OpenFails, IInv, OneSave
  <2>2. Job.state = "promised"
    BY <2>1 DEF Job
  <2>3. Job' = [state |-> "idle", from |-> 0, to |-> 0]
    BY <2>1 DEF Job
  <2>4. OpenedFile = <<>> /\ OpenedFile' = <<>>
    BY <2>1 DEF OpenedFile
  <2>5. Service!Abandon
    BY <1>1, <2>2, <2>3, <2>4 DEF Service!Abandon, Service!Idle
  <2>. QED
    BY <2>5 DEF Service!Next
<1>6. CASE FinishFile
  <2>1. /\ saver = "writing" /\ saver' = "ready"
        /\ main = "loop" /\ main' = "loop"
        /\ Cursor > Len(save.packets)
    BY <1>6 DEF FinishFile, IInv, OneSave
  <2>2. Job = [state |-> "writing", from |-> Position, to |-> save.last]
    BY <2>1 DEF Job
  <2>3. Job' = [state |-> "idle", from |-> 0, to |-> 0]
    BY <2>1 DEF Job
  <2>4. OpenedFile' = <<>>
    BY <2>1 DEF OpenedFile
  <2>5. Len(OpenedFile) = Len(file) /\ Len(file) \in Nat
    <3>1. OpenedFile = [i \in 1 .. Len(file) |-> pushed[Position + i - 1]]
      BY <2>1, OpenedFileIsRun
    <3>2. Len(file) \in Nat
      BY LenProperties DEF IInv, TypeOK
    <3>. QED
      BY <3>1, <3>2
  <2>6. Position + Len(file) = save.last + 1
    <3>1. Position + Len(file) <= save.last + 1
      BY <2>1, OpenedFileIsRun
    <3>2. /\ save.start \in Nat /\ save.last \in Nat
          /\ Len(save.packets) \in Nat
      BY SaveType DEF IInv
    <3>. QED
      BY <2>1, <2>5, <3>1, <3>2 DEF Position, Cursor
  <2>7. Service!Complete
    BY <1>1, <2>2, <2>3, <2>4, <2>5, <2>6
       DEF Service!Complete, Service!Idle
  <2>. QED
    BY <2>7 DEF Service!Next
<1>. QED
  BY <1>2, <1>3, <1>4, <1>5, <1>6

(* The deque, the mutex and the task give exactly what the service         *)
(* promises: a save writes an unbroken run of what was received, up to the *)
(* newest packet at the time of the snapshot, in order and complete, with  *)
(* any number of tracks and whatever is received or dropped meanwhile.     *)
THEOREM ReplayImplementsService == Spec => ImplementsService
<1>1. IInv /\ [Next]_vars => [Service!Next]_(Service!vars)
  <2>. SUFFICES ASSUME IInv, [Next]_vars
                PROVE  [Service!Next]_(Service!vars)
    OBVIOUS
  <2>1. ASSUME NEW s \in Streams, NEW key \in BOOLEAN, Push(s, key)
        PROVE  Service!Next
    BY <2>1, ServicePush
  <2>2. CASE Snapshot
    BY <2>2, ServiceSnapshot
  <2>3. CASE WritePacket
    BY <2>3, ServiceWrite
  <2>4. CASE ClockStep \/ RequestSave \/ OpenFile \/ OpenFails \/ FinishFile
             \/ Collect \/ UNCHANGED vars
    BY <2>4, ServiceQuiet
  <2>. QED
    BY <2>1, <2>2, <2>3, <2>4 DEF Next, ClockStep
<1>. QED
  BY <1>1, ServiceInit, Invariance, PTL
     DEF Spec, ImplementsService, Service!Spec

-----------------------------------------------------------------------------
(* What makes a file playable.                                             *)

(* The first video packet of all is a key frame.                           *)
VideoBeginsWithKey ==
    /\ nextPts[Video] # 0 =>
          \E j \in DOMAIN pushed : pushed[j].stream = Video
    /\ \A i \in DOMAIN pushed :
          pushed[i].stream = Video /\ ~pushed[i].key =>
              \E j \in DOMAIN pushed : j < i /\ pushed[j].stream = Video

(* Nothing from the start on is shifted below zero.                        *)
OffsetsFit ==
    \A i \in DOMAIN save.packets :
        i >= save.start =>
            save.packets[i].pts >= Offset(save.packets[i].stream)

(* Until the file is finished, what the save was cut at stays what it is:  *)
(* a key frame if a packet was known to be dropped, the oldest one if not. *)
CutStays ==
    main = "opening" \/ saver = "writing" =>
        /\ OffsetsFit
        /\ erasedArg => IsKeyFrame(save.packets[save.start])
        /\ ~erasedArg => save.start = 1
        /\ save.erased <=> Len(save.packets) < save.last

PlayIInv == VideoBeginsWithKey /\ CutStays /\ FileTimestampsNotNegative

(* Of one stream, no packet of the deque is older than one before it.      *)
LEMMA QueueInOrder ==
    ASSUME IInv, NEW i \in DOMAIN queue, NEW j \in DOMAIN queue, i <= j,
           queue[i].stream = queue[j].stream
    PROVE  queue[i].pts <= queue[j].pts
<1>. DEFINE base == Len(pushed) - Len(queue)
<1>1. /\ Len(queue) \in Nat /\ Len(pushed) \in Nat
      /\ DOMAIN queue = 1 .. Len(queue) /\ DOMAIN pushed = 1 .. Len(pushed)
      /\ Len(queue) <= Len(pushed)
      /\ \A k \in DOMAIN queue : queue[k] = pushed[base + k]
  BY LenProperties DEF IInv, TypeOK, QueueIsNewest
<1>2. queue[j] \in Packet
  BY <1>1, ElementOfSeq DEF IInv, TypeOK
<1>3. CASE i = j
  BY <1>2, <1>3, ReplayAssumption DEF Packet
<1>4. CASE i # j
  <2>1. /\ base + i \in DOMAIN pushed /\ base + j \in DOMAIN pushed
        /\ base + i < base + j
    BY <1>1, <1>4
  <2>2. queue[i] = pushed[base + i] /\ queue[j] = pushed[base + j]
    BY <1>1
  <2>. HIDE DEF base
  <2>3. pushed[base + i].pts < pushed[base + j].pts
    BY <2>1, <2>2 DEF IInv, PushedInOrder
  <2>4. queue[i].pts \in Nat /\ queue[j].pts \in Nat
    <3>1. queue[i] \in Packet
      BY <1>1, ElementOfSeq DEF IInv, TypeOK
    <3>. QED
      BY <1>2, <3>1, ReplayAssumption DEF Packet
  <2>. QED
    BY <2>2, <2>3, <2>4
<1>. QED
  BY <1>3, <1>4

(* The video is the deque's from a key frame on, the audio from the first  *)
(* packet after it; with one audio track both offsets are the least.       *)
LEMMA CutFits ==
    ASSUME IInv, \A s, t \in AudioStreams : s = t,
           KeyFrames(queue) # {}, NEW erased \in BOOLEAN,
           NEW i \in DOMAIN queue, i >= Cut(queue, erased).start
    PROVE  queue[i].pts >= IF queue[i].stream = Video
                           THEN Cut(queue, erased).videoOffset
                           ELSE Cut(queue, erased).audioOffset
<1>. DEFINE start == First(KeyFrames(queue))
            audio == {k \in start .. Len(queue) : queue[k].stream # Video}
<1>1. /\ DOMAIN queue = 1 .. Len(queue) /\ Len(queue) \in Nat
      /\ \A k \in DOMAIN queue :
            /\ queue[k].pts \in Nat
            /\ queue[k].stream \in AudioStreams \cup {Video}
  <2>1. queue \in Seq(Packet)
    BY DEF IInv, TypeOK
  <2>2. \A k \in 1 .. Len(queue) : queue[k] \in Packet
    BY <2>1, ElementOfSeq
  <2>. QED
    BY <2>1, <2>2, LenProperties, ReplayAssumption DEF Packet, Streams
<1>2. CASE ~erased
  BY <1>1, <1>2 DEF Cut
<1>3. CASE erased
  <2>1. start \in KeyFrames(queue)
    <3>1. KeyFrames(queue) \subseteq Nat
      BY <1>1 DEF KeyFrames
    <3>. QED
      BY <3>1, FirstIsLeast
  <2>2. /\ start \in DOMAIN queue /\ queue[start].stream = Video
        /\ Cut(queue, erased).start = start
        /\ Cut(queue, erased).videoOffset = queue[start].pts
        /\ Cut(queue, erased).audioOffset = AudioOffset(queue, start)
    BY <1>3, <2>1 DEF Cut, KeyFrames, IsKeyFrame
  <2>. HIDE DEF start
  <2>3. CASE queue[i].stream = Video
    BY <1>1, <2>2, <2>3, QueueInOrder
  <2>4. CASE queue[i].stream # Video
    <3>1. i \in audio /\ audio \subseteq Nat
      BY <1>1, <2>2, <2>4
    <3>2. First(audio) \in audio /\ First(audio) <= i
      <4>. HIDE DEF audio
      <4>. QED
        BY <3>1, FirstIsLeast
    <3>3. /\ First(audio) \in DOMAIN queue
          /\ queue[First(audio)].stream = queue[i].stream
      BY <1>1, <2>2, <2>4, <3>2
    <3>4. AudioOffset(queue, start) = queue[First(audio)].pts
      BY <3>1 DEF AudioOffset
    <3>. HIDE DEF audio
    <3>. QED
      BY <1>1, <2>2, <2>4, <3>2, <3>3, <3>4, QueueInOrder
  <2>. QED
    BY <2>3, <2>4
<1>. QED
  BY <1>2, <1>3

LEMMA PlayPush ==
    ASSUME IInv, PlayIInv, NEW s \in Streams, NEW key \in BOOLEAN,
           Push(s, key)
    PROVE  PlayIInv'
<1>. DEFINE p == [stream |-> s, key |-> key, pts |-> nextPts[s]]
<1>1. /\ p \in Packet /\ p.stream = s /\ p.key = key
      /\ pushed \in Seq(Packet) /\ nextPts \in [Streams -> 0 .. MaxPackets]
  BY DEF IInv, TypeOK, Packet
<1>2. /\ s = Video /\ nextPts[s] = 0 => key
      /\ pushed' = Append(pushed, p)
      /\ nextPts' = [nextPts EXCEPT ![s] = @ + 1]
      /\ UNCHANGED <<main, erasedArg, save, saver, file>>
  BY DEF Push
<1>. HIDE DEF p
<1>3. /\ Len(pushed) \in Nat
      /\ DOMAIN pushed = 1 .. Len(pushed)
      /\ DOMAIN pushed' = 1 .. Len(pushed) + 1
      /\ \A i \in DOMAIN pushed : pushed'[i] = pushed[i]
      /\ pushed'[Len(pushed) + 1] = p
  BY <1>1, <1>2, AppendProperties, LenProperties
<1>4. nextPts'[Video] # 0 =>
         \E j \in DOMAIN pushed' : pushed'[j].stream = Video
  <2>1. CASE s = Video
    BY <1>1, <1>3, <2>1
  <2>2. CASE s # Video
    <3>1. nextPts'[Video] = nextPts[Video]
      BY <1>1, <1>2, <2>2 DEF Streams
    <3>. QED
      BY <1>3, <3>1 DEF PlayIInv, VideoBeginsWithKey
  <2>. QED
    BY <2>1, <2>2
<1>5. ASSUME NEW i \in DOMAIN pushed', pushed'[i].stream = Video,
             ~pushed'[i].key
      PROVE  \E j \in DOMAIN pushed' : j < i /\ pushed'[j].stream = Video
  <2>1. CASE i \in DOMAIN pushed
    <3>1. \E j \in DOMAIN pushed : j < i /\ pushed[j].stream = Video
      BY <1>3, <1>5, <2>1 DEF PlayIInv, VideoBeginsWithKey
    <3>. QED
      BY <1>3, <3>1
  <2>2. CASE i = Len(pushed) + 1
    <3>1. s = Video /\ nextPts[Video] # 0
      BY <1>1, <1>2, <1>3, <1>5, <2>2
    <3>2. \E j \in DOMAIN pushed : pushed[j].stream = Video
      BY <3>1 DEF PlayIInv, VideoBeginsWithKey
    <3>. QED
      BY <1>3, <2>2, <3>2
  <2>. QED
    BY <1>3, <2>1, <2>2
<1>6. VideoBeginsWithKey'
  BY <1>4, <1>5 DEF VideoBeginsWithKey
<1>7. CutStays' /\ FileTimestampsNotNegative'
  BY <1>2 DEF PlayIInv, CutStays, OffsetsFit, Offset,
              FileTimestampsNotNegative
<1>. QED
  BY <1>6, <1>7 DEF PlayIInv

LEMMA PlaySnapshot ==
    ASSUME IInv, PlayIInv, \A s, t \in AudioStreams : s = t, Snapshot
    PROVE  PlayIInv'
<1>1. /\ main = "calling" /\ saver = "none" /\ saver' = "none"
      /\ UNCHANGED <<nextPts, pushed, file, erasedArg>>
  BY DEF Snapshot, IInv, OneSave
<1>2. VideoBeginsWithKey' /\ FileTimestampsNotNegative'
  BY <1>1 DEF PlayIInv, VideoBeginsWithKey, FileTimestampsNotNegative
<1>3. CASE KeyFrames(queue) = {}
  <2>1. main' = "loop"
    BY <1>3 DEF Snapshot
  <2>. QED
    BY <1>1, <1>2, <2>1 DEF PlayIInv, CutStays
<1>4. CASE KeyFrames(queue) # {}
  <2>. DEFINE cut == Cut(queue, erasedArg)
  <2>1. /\ save'.packets = queue /\ save'.start = cut.start
        /\ save'.videoOffset = cut.videoOffset
        /\ save'.audioOffset = cut.audioOffset
        /\ save'.last = Len(pushed)
        /\ save'.erased = (Len(queue) < Len(pushed))
    BY <1>4 DEF Snapshot
  <2>2. erasedArg \in BOOLEAN
    BY DEF IInv, TypeOK
  <2>3. OffsetsFit'
    BY <1>4, <2>1, <2>2, CutFits DEF OffsetsFit, Offset
  <2>4. erasedArg => IsKeyFrame(queue[cut.start])
    <3>1. KeyFrames(queue) \subseteq Nat
      BY LenProperties DEF KeyFrames, IInv, TypeOK
    <3>2. First(KeyFrames(queue)) \in KeyFrames(queue)
      BY <1>4, <3>1, FirstIsLeast
    <3>. QED
      BY <3>2 DEF Cut, KeyFrames
  <2>5. ~erasedArg => cut.start = 1
    BY DEF Cut
  <2>. HIDE DEF cut
  <2>6. CutStays'
    BY <1>1, <2>1, <2>3, <2>4, <2>5 DEF CutStays, IsKeyFrame
  <2>. QED
    BY <1>2, <2>6 DEF PlayIInv
<1>. QED
  BY <1>3, <1>4

LEMMA PlayWrite ==
    ASSUME IInv, PlayIInv, WritePacket
    PROVE  PlayIInv'
<1>. DEFINE next == save.packets[Cursor]
<1>1. /\ saver = "writing" /\ Cursor <= Len(save.packets)
      /\ file' = Append(file, Shifted(next))
      /\ UNCHANGED <<nextPts, main, erasedArg, save, saver, pushed>>
  BY DEF WritePacket
<1>2. /\ TypeOK /\ file \in Seq(WrittenPacket) /\ Len(file) \in Nat
      /\ DOMAIN file = 1 .. Len(file)
  BY LenProperties DEF IInv, TypeOK
<1>3. Cursor \in 1 .. Len(save.packets) /\ Cursor >= save.start
  <2>1. save.start \in Nat \ {0} /\ Len(save.packets) \in Nat
    BY <1>2, SaveType
  <2>. QED
    BY <1>1, <1>2, <2>1 DEF Cursor
<1>4. next \in Packet /\ next.pts \in Int /\ Offset(next.stream) \in Int
  <2>1. next \in Packet
    BY <1>2, <1>3, SaveType, ElementOfSeq
  <2>2. save.videoOffset \in Int /\ save.audioOffset \in Int
    BY <1>2, SaveType, ReplayAssumption
  <2>. QED
    BY <2>1, <2>2, ReplayAssumption DEF Packet, Offset
<1>5. next.pts >= Offset(next.stream)
  BY <1>1, <1>2, <1>3, SaveType DEF PlayIInv, CutStays, OffsetsFit
<1>. HIDE DEF next
<1>6. Shifted(next) \in WrittenPacket /\ Shifted(next).pts >= 0
  <2>1. /\ Shifted(next) \in WrittenPacket
        /\ Shifted(next).pts = next.pts - Offset(next.stream)
    BY <1>2, <1>4, ShiftedType
  <2>. QED
    BY <1>4, <1>5, <2>1
<1>7. /\ DOMAIN file' = 1 .. Len(file) + 1
      /\ \A i \in 1 .. Len(file) : file'[i] = file[i]
      /\ file'[Len(file) + 1] = Shifted(next)
  BY <1>1, <1>2, <1>6, AppendProperties, LenProperties
<1>8. FileTimestampsNotNegative'
  <2>1. \A i \in 1 .. Len(file) : file[i].pts >= 0
    BY <1>2 DEF PlayIInv, FileTimestampsNotNegative
  <2>2. \A i \in 1 .. Len(file) + 1 :
           i \in 1 .. Len(file) \/ i = Len(file) + 1
    BY <1>2
  <2>. QED
    BY <1>6, <1>7, <2>1, <2>2 DEF FileTimestampsNotNegative
<1>9. VideoBeginsWithKey' /\ CutStays'
  BY <1>1 DEF PlayIInv, VideoBeginsWithKey, CutStays, OffsetsFit, Offset
<1>. QED
  BY <1>8, <1>9 DEF PlayIInv

LEMMA PlayQuiet ==
    ASSUME IInv, PlayIInv,
           \/ ClockStep \/ RequestSave \/ OpenFile \/ OpenFails \/ FinishFile
           \/ Collect \/ UNCHANGED vars
    PROVE  PlayIInv'
<1>1. UNCHANGED <<nextPts, pushed>>
  BY ClockStepFrame
     DEF RequestSave, OpenFile, OpenFails, FinishFile, Collect, vars
<1>2. VideoBeginsWithKey'
  BY <1>1 DEF PlayIInv, VideoBeginsWithKey
<1>3. CASE ClockStep \/ UNCHANGED vars
  <2>1. UNCHANGED <<main, saver, save, erasedArg, file>>
    BY <1>3, ClockStepFrame DEF vars
  <2>. QED
    BY <1>2, <2>1 DEF PlayIInv, CutStays, OffsetsFit, Offset,
                      FileTimestampsNotNegative
<1>4. CASE RequestSave \/ FinishFile \/ OpenFails \/ Collect
  <2>1. main' # "opening" /\ saver' # "writing" /\ file' = file
    BY <1>4 DEF RequestSave, FinishFile, OpenFails, Collect, IInv, OneSave
  <2>. QED
    BY <1>2, <2>1 DEF PlayIInv, CutStays, FileTimestampsNotNegative
<1>5. CASE OpenFile
  <2>1. main = "opening" /\ UNCHANGED <<save, erasedArg>> /\ file' = <<>>
    BY <1>5 DEF OpenFile
  <2>2. DOMAIN <<>> = {}
    BY EmptySeq, LenProperties
  <2>3. FileTimestampsNotNegative'
    BY <2>1, <2>2 DEF FileTimestampsNotNegative
  <2>4. CutStays'
    BY <2>1 DEF PlayIInv, CutStays, OffsetsFit, Offset
  <2>. QED
    BY <1>2, <2>3, <2>4 DEF PlayIInv
<1>. QED
  BY <1>3, <1>4, <1>5

(* A file that was cut at a key frame starts with it, and one that holds   *)
(* all there ever was with the first video packet.                         *)
LEMMA WrittenFromKey ==
    ASSUME IInv, PlayIInv, saver = "writing", save.erased => erasedArg
    PROVE  VideoStartsAtKeyFrame
<1>. DEFINE video == {i \in DOMAIN file : file[i].stream = Video}
            Source(i) == save.packets[save.start + i - 1]
<1>1. SUFFICES ASSUME video # {} PROVE file[First(video)].key
  BY DEF VideoStartsAtKeyFrame
<1>2. /\ TypeOK /\ file \in Seq(WrittenPacket) /\ Len(file) \in Nat
      /\ DOMAIN file = 1 .. Len(file)
      /\ pushed \in Seq(Packet) /\ Len(pushed) \in Nat
      /\ DOMAIN pushed = 1 .. Len(pushed)
  BY LenProperties DEF IInv, TypeOK
<1>3. /\ save.start \in Nat \ {0} /\ save.last \in Nat
      /\ Len(save.packets) \in Nat
      /\ DOMAIN save.packets = 1 .. Len(save.packets)
  BY <1>2, SaveType
<1>4. /\ Len(save.packets) <= save.last /\ save.last <= Len(pushed)
      /\ \A i \in DOMAIN save.packets :
            save.packets[i] = pushed[save.last - Len(save.packets) + i]
      /\ save.start + Len(file) <= Len(save.packets) + 1
      /\ \A i \in DOMAIN file : file[i] = Shifted(Source(i))
  BY DEF IInv, SnapshotIsRun, FileIsPrefix, Cursor
<1>5. \A i \in DOMAIN file :
         /\ save.start + i - 1 \in DOMAIN save.packets
         /\ file[i].stream = Source(i).stream /\ file[i].key = Source(i).key
  <2>1. TAKE i \in DOMAIN file
  <2>2. save.start + i - 1 \in 1 .. Len(save.packets)
    BY <1>2, <1>3, <1>4
  <2>3. Source(i) \in Packet
    BY <1>2, <2>2, SaveType, ElementOfSeq
  <2>. QED
    BY <1>3, <1>4, <2>2, <2>3 DEF Shifted, Packet
<1>6. First(video) \in video /\ \A j \in video : First(video) <= j
  <2>1. video \subseteq Nat
    BY <1>2
  <2>. HIDE DEF video
  <2>. QED
    BY <1>1, <2>1, FirstIsLeast
<1>7. /\ erasedArg => IsKeyFrame(save.packets[save.start])
      /\ ~erasedArg => save.start = 1 /\ ~(Len(save.packets) < save.last)
  BY DEF PlayIInv, CutStays
<1>8. CASE erasedArg
  <2>1. 1 \in DOMAIN file
    BY <1>2, <1>6
  <2>2. Source(1) = save.packets[save.start]
    BY <1>3
  <2>3. 1 \in video /\ file[1].key
    BY <1>5, <1>7, <1>8, <2>1, <2>2 DEF IsKeyFrame
  <2>4. First(video) = 1
    <3>1. First(video) \in 1 .. Len(file) /\ First(video) <= 1
      BY <1>2, <1>6, <2>3
    <3>. HIDE DEF video
    <3>. QED
      BY <1>2, <3>1
  <2>. QED
    BY <2>3, <2>4
<1>9. CASE ~erasedArg
  <2>1. save.start = 1 /\ save.last = Len(save.packets)
    BY <1>3, <1>4, <1>7, <1>9
  <2>2. \A i \in DOMAIN file :
           /\ i \in DOMAIN pushed
           /\ file[i].stream = pushed[i].stream /\ file[i].key = pushed[i].key
    <3>1. TAKE i \in DOMAIN file
    <3>2. i \in DOMAIN save.packets /\ Source(i) = save.packets[i]
      BY <1>2, <1>3, <1>4, <2>1
    <3>3. save.packets[i] = pushed[i]
      BY <1>3, <1>4, <2>1, <3>2
    <3>. QED
      BY <1>2, <1>3, <1>4, <1>5, <3>2, <3>3
  <2>3. SUFFICES ASSUME ~file[First(video)].key PROVE FALSE
    OBVIOUS
  <2>4. PICK j \in DOMAIN pushed :
           j < First(video) /\ pushed[j].stream = Video
    BY <1>6, <2>2, <2>3 DEF PlayIInv, VideoBeginsWithKey
  <2>5. j \in video /\ j \in Nat /\ First(video) \in Nat
    BY <1>2, <1>6, <2>2, <2>4
  <2>. HIDE DEF video
  <2>. QED
    BY <1>6, <2>4, <2>5
<1>. QED
  BY <1>8, <1>9

(* PlayableFile, about save_replay_async: with one audio track no          *)
(* timestamp of a file is negative, and a file begins with a key frame     *)
(* unless frames_erased, passed by value, was no longer right when the     *)
(* deque was copied.                                                       *)
THEOREM ReplayFilePlays ==
    ASSUME \A s, t \in AudioStreams : s = t
    PROVE  Spec => []PlayableFile
<1>1. Init => PlayIInv
  <2>1. DOMAIN <<>> = {}
    BY EmptySeq, LenProperties
  <2>. QED
    BY <2>1 DEF Init, PlayIInv, VideoBeginsWithKey, CutStays, Streams,
                FileTimestampsNotNegative
<1>2. IInv /\ PlayIInv /\ [Next]_vars => PlayIInv'
  <2>. SUFFICES ASSUME IInv, PlayIInv, [Next]_vars PROVE PlayIInv'
    OBVIOUS
  <2>1. ASSUME NEW s \in Streams, NEW key \in BOOLEAN, Push(s, key)
        PROVE  PlayIInv'
    BY <2>1, PlayPush
  <2>2. CASE Snapshot
    BY <2>2, PlaySnapshot
  <2>3. CASE WritePacket
    BY <2>3, PlayWrite
  <2>4. CASE ClockStep \/ RequestSave \/ OpenFile \/ OpenFails \/ FinishFile
             \/ Collect \/ UNCHANGED vars
    BY <2>4, PlayQuiet
  <2>. QED
    BY <2>1, <2>2, <2>3, <2>4 DEF Next, ClockStep
<1>3. IInv /\ PlayIInv => PlayableFile
  BY WrittenFromKey DEF PlayIInv, PlayableFile
<1>. QED
  BY <1>1, <1>2, <1>3, Invariance, PTL DEF Spec
=============================================================================
