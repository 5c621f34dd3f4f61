--------------------------- MODULE AudioSync_proofs ---------------------------
(***************************************************************************)
(* What is proved of an audio device thread for every length of the        *)
(* recording, any number of pauses, with and without a device, however     *)
(* late chunks and thread are: types, that silence fills the track up to   *)
(* the clock and no further, and how long a track can get.                 *)
(***************************************************************************)
EXTENDS AudioSync, TLAPS

USE AudioAssumption

(* The chunk that was read and is not encoded yet.                         *)
InHand == IF pc \in {"time", "gate"} /\ got_audio_data THEN 1 ELSE 0

(* The pauses added so far are over before the present one began.          *)
PausesInOrder == paused /\ ~toggling => paused_time_offset <= paused_time_start

(* Each chunk recorded so far is in one place, or was encoded or dropped.  *)
Held == recorded + backlog + InHand

ChunksInTime == Held <= Chunks(now)

(* Only a thread with a device reads, only one without it naps.            *)
ReadsOrNaps ==
    /\ pc = "reading" => handle
    /\ pc = "nap" => ~handle
    /\ pc \in {"time", "gate"} /\ got_audio_data => handle

(* What a frame without a device takes at least: its nap, or its time.     *)
Pace == Smaller(Frame, Nap)

(* The track with the chunks still to come; without a device, the nap that *)
(* follows a frame lasts as long as Pace.                                  *)
TrackLength ==
    IF handle
    THEN num_received_frames + Held <= ExpectedFrames(now) + Chunks(now)
    ELSE IF pc = "nap"
         THEN num_received_frames * Pace <= deadline /\ deadline <= now + Nap
         ELSE num_received_frames * Pace <= now

IInv ==
    /\ TypeOK
    /\ PausesInOrder
    /\ ChunksInTime
    /\ ReadsOrNaps
    /\ TrackLength

-----------------------------------------------------------------------------
(* Arithmetic.                                                             *)

LEMMA ProductsOrdered ==
    \A a, b \in Int, k \in Nat : a <= b => a * k <= b * k
OBVIOUS

(* What divides a number into parts of k goes round to the next below.     *)
LEMMA Quotient ==
    ASSUME NEW a \in Nat, NEW k \in Nat \ {0}
    PROVE  /\ a \div k \in Nat
           /\ k * (a \div k) <= a
           /\ a < k * (a \div k + 1)
OBVIOUS

LEMMA QuotientsOrdered ==
    ASSUME NEW a \in Nat, NEW b \in Nat, NEW k \in Nat \ {0}, a <= b
    PROVE  a \div k <= b \div k
<1>. DEFINE p == a \div k
            q == b \div k
<1>1. p \in Nat /\ q \in Nat /\ k * p <= a /\ b < k * (q + 1)
  BY Quotient
<1>. HIDE DEF p, q
<1>2. ~(p >= q + 1)
  <2>1. SUFFICES ASSUME p >= q + 1 PROVE FALSE
    OBVIOUS
  <2>2. (q + 1) * k <= p * k
    BY <1>1, <2>1, ProductsOrdered
  <2>. QED
    BY <1>1, <2>2
<1>3. p <= q
  BY <1>1, <1>2
<1>. QED
  BY <1>3 DEF p, q

(* ExpectedFrames rounds to the nearest frame, and grows with the time.    *)
LEMMA ExpectedFramesNearest ==
    ASSUME NEW t \in Nat
    PROVE  /\ ExpectedFrames(t) \in Nat
           /\ Length2(ExpectedFrames(t)) <= 2 * t + Frame
           /\ 2 * t - Frame <= Length2(ExpectedFrames(t))
<1>. DEFINE a == 2 * t + Frame
            k == 2 * Frame
            e == ExpectedFrames(t)
<1>1. a \in Nat /\ k \in Nat \ {0} /\ e = a \div k
  BY DEF ExpectedFrames
<1>. HIDE DEF a, k, e
<1>2. e \in Nat /\ k * e <= a /\ a < k * (e + 1)
  BY <1>1, Quotient
<1>3. k * (e + 1) = k * e + k /\ k * e = e * k
  BY <1>1, <1>2
<1>4. e * k \in Int
  BY <1>1, <1>2
<1>5. e * k <= a /\ a < e * k + k
  BY <1>2, <1>3
<1>6. e * k <= 2 * t + Frame /\ 2 * t - Frame <= e * k
  <2>. DEFINE m == e * k
  <2>1. m \in Int /\ m <= a /\ a < m + k
    BY <1>4, <1>5
  <2>. HIDE DEF m
  <2>2. m <= 2 * t + Frame /\ 2 * t - Frame <= m
    BY <2>1 DEF a, k
  <2>. QED
    BY <2>2 DEF m
<1>7. Length2(e) = e * k
  BY DEF Length2, k
<1>. QED
  BY <1>2, <1>6, <1>7 DEF e

LEMMA ExpectedFramesOrdered ==
    ASSUME NEW t \in Nat, NEW u \in Nat, t <= u
    PROVE  ExpectedFrames(t) <= ExpectedFrames(u)
BY QuotientsOrdered, 2 * t + Frame \in Nat, 2 * u + Frame \in Nat,
   2 * Frame \in Nat \ {0} DEF ExpectedFrames

LEMMA ChunksOrdered ==
    ASSUME NEW t \in Nat, NEW u \in Nat, t <= u, phase \in Nat
    PROVE  /\ Chunks(t) \in Nat /\ Chunks(u) \in Nat
           /\ Chunks(t) <= Chunks(u)
BY QuotientsOrdered, Quotient, t + phase \in Nat, u + phase \in Nat
   DEF Chunks

(* A track as long as the clock, rounded, is not too long without a device.*)
LEMMA RoundedFits ==
    ASSUME NEW n \in Nat, NEW t \in Nat, Length2(n) <= 2 * t + Frame
    PROVE  n * Pace <= t + Nap
<1>1. n * Frame \in Int /\ Length2(n) = 2 * (n * Frame)
  BY DEF Length2
<1>2. n * Frame <= t + Nap
  <2>. DEFINE m == n * Frame
  <2>1. m \in Int /\ 2 * m <= 2 * t + Frame
    BY <1>1
  <2>. HIDE DEF m
  <2>2. m <= t + Nap
    BY <2>1
  <2>. QED
    BY <2>2 DEF m
<1>3. n * Pace <= n * Frame
  <2>1. Pace \in Nat /\ Pace <= Frame
    BY DEF Pace, Smaller
  <2>2. Pace * n <= Frame * n
    BY <2>1, ProductsOrdered
  <2>. QED
    BY <2>1, <2>2
<1>4. n * Pace \in Int
  BY DEF Pace, Smaller
<1>. QED
  BY <1>1, <1>2, <1>3, <1>4

-----------------------------------------------------------------------------
(* However many frames are missing, silence and the frame in hand together *)
(* bring the track close to the frames expected, and not past them.        *)
Added == (IF InsertSilence THEN NumMissing ELSE 0)
            + (IF got_audio_data THEN 1 ELSE 0)

LEMMA SilenceFills ==
    ASSUME got_audio_data \in BOOLEAN, handle \in BOOLEAN,
           got_audio_data => handle,
           num_received_frames \in Nat, this_audio_frame_time \in Nat,
           NEW expected, expected = ExpectedFrames(this_audio_frame_time)
    PROVE  /\ expected \in Nat /\ Added \in Nat /\ NumMissing \in Nat
           /\ num_received_frames + Added + (IF got_audio_data THEN 0 ELSE 4)
                >= expected
           /\ num_received_frames + Added <=
                Larger(num_received_frames
                         + (IF got_audio_data \/ ~handle THEN 1 ELSE 0),
                       expected)
<1>0. expected \in Nat /\ Behind = Larger(0, expected - num_received_frames)
  BY ExpectedFramesNearest DEF Behind
<1>1. /\ Behind \in Nat
      /\ Behind >= expected - num_received_frames
      /\ Behind = 0 \/ Behind = expected - num_received_frames
  BY <1>0 DEF Larger
<1>2. CASE got_audio_data
  BY <1>0, <1>1, <1>2 DEF NumMissing, InsertSilence, Larger, Added
<1>3. CASE ~got_audio_data /\ handle
  BY <1>0, <1>1, <1>3 DEF NumMissing, InsertSilence, Larger, Added
<1>4. CASE ~got_audio_data /\ ~handle
  BY <1>0, <1>1, <1>4 DEF NumMissing, InsertSilence, Larger, Added
<1>. QED
  BY <1>2, <1>3, <1>4

-----------------------------------------------------------------------------
LEMMA InitInvariant == Init => IInv
<1> SUFFICES ASSUME Init PROVE IInv
  OBVIOUS
<1>1. TypeOK
  <2>1. /\ now = 0 /\ deadline = 0 /\ toggles = 0 /\ active = 0
        /\ paused_time_start = 0 /\ paused_time_offset = 0
        /\ recorded = 0 /\ backlog = 0
        /\ this_audio_frame_time = 0 /\ num_received_frames = 0
        /\ phase \in 0 .. Frame - 1
    BY DEF Init
  <2>2. /\ handle \in Devices /\ paused \in BOOLEAN /\ toggling \in BOOLEAN
        /\ got_audio_data \in BOOLEAN /\ pc = "loop"
    BY DEF Init
  <2>. QED
    BY <2>1, <2>2 DEF TypeOK
<1>2. /\ Held = 0 /\ now = 0 /\ num_received_frames = 0 /\ pc = "loop"
      /\ ~paused
  BY DEF Init, InHand, Held
<1>3. /\ ExpectedFrames(0) \in Nat /\ Chunks(0) \in Nat
      /\ 0 * Pace = 0
  BY <1>1, ExpectedFramesNearest, ChunksOrdered DEF TypeOK, Pace, Smaller
<1>4. ChunksInTime /\ TrackLength
  BY <1>2, <1>3 DEF ChunksInTime, TrackLength
<1>. QED
  BY <1>1, <1>2, <1>4 DEF IInv, PausesInOrder, ReadsOrNaps

(* Steps that encode nothing and take no time keep the track's length,     *)
(* provided no chunk comes from nowhere, and a nap ends when it is over.   *)
LEMMA LengthKept ==
    ASSUME TypeOK, ChunksInTime, TrackLength,
           UNCHANGED <<device, now, num_received_frames>>,
           Held \in Int, Held' \in Int, Held' <= Held, deadline' \in Nat,
           \/ pc' = "nap" /\ pc = "nap" /\ deadline' = deadline
           \/ pc' = "nap" /\ pc # "nap" /\ deadline' = now + Nap
           \/ pc' # "nap" /\ (pc # "nap" \/ deadline <= now)
    PROVE  ChunksInTime' /\ TrackLength'
<1>1. /\ ExpectedFrames(now)' = ExpectedFrames(now)
      /\ Chunks(now)' = Chunks(now)
      /\ handle' = handle
      /\ (num_received_frames * Pace)' = num_received_frames * Pace
  BY DEF ExpectedFrames, Chunks, device, Pace
<1>2. /\ ExpectedFrames(now) \in Nat /\ Chunks(now) \in Nat /\ now \in Nat
      /\ num_received_frames \in Nat /\ deadline \in Nat
  <2>1. now \in Nat /\ phase \in Nat
    BY DEF TypeOK
  <2>2. ExpectedFrames(now) \in Nat
    BY <2>1, ExpectedFramesNearest
  <2>3. Chunks(now) \in Nat
    BY <2>1, ChunksOrdered
  <2>4. num_received_frames \in Nat /\ deadline \in Nat
    BY DEF TypeOK
  <2>. QED
    BY <2>1, <2>2, <2>3, <2>4
<1>3. ChunksInTime'
  BY <1>1, <1>2 DEF ChunksInTime
<1>4. num_received_frames * Pace \in Int
  BY <1>2 DEF Pace, Smaller
<1>. DEFINE taken == num_received_frames * Pace
<1>5. CASE handle
  <2>1. num_received_frames + Held <= ExpectedFrames(now) + Chunks(now)
    BY <1>5 DEF TrackLength
  <2>2. num_received_frames + Held' <= ExpectedFrames(now) + Chunks(now)
    BY <1>2, <2>1
  <2>3. num_received_frames' + Held' <= ExpectedFrames(now)' + Chunks(now)'
    BY <1>1, <2>2
  <2>4. TrackLength'
    BY <1>1, <1>5, <2>3 DEF TrackLength
  <2>. QED
    BY <1>3, <2>4
<1>6. CASE ~handle
  <2>1. taken' = taken /\ taken \in Int
    BY <1>1, <1>4
  <2>2. IF pc = "nap" THEN taken <= deadline /\ deadline <= now + Nap
                      ELSE taken <= now
    BY <1>6 DEF TrackLength
  <2>. HIDE DEF taken
  <2>3. IF pc' = "nap" THEN taken' <= deadline' /\ deadline' <= now' + Nap
                       ELSE taken' <= now'
    BY <1>2, <2>1, <2>2
  <2>. QED
    BY <1>1, <1>3, <1>6, <2>3 DEF TrackLength, taken
<1>. QED
  BY <1>3, <1>5, <1>6

(* Time passes: the server may have recorded a chunk more.                 *)
LEMMA TickInvariant == IInv /\ Tick => IInv'
<1> SUFFICES ASSUME IInv, Tick PROVE IInv'
  OBVIOUS
<1>1. /\ now' = now + 1
      /\ recorded' = recorded + (Chunks(now + 1) - Chunks(now))
      /\ UNCHANGED <<device, mainVars, backlog, thread>>
      /\ now < MaxNow
  BY DEF Tick
<1>2. /\ now \in Nat /\ phase \in Nat /\ recorded \in Nat
      /\ num_received_frames \in Nat /\ deadline \in Nat
  BY DEF IInv, TypeOK
<1>3. /\ Chunks(now) \in Nat /\ Chunks(now + 1) \in Nat
      /\ Chunks(now) <= Chunks(now + 1)
      /\ ExpectedFrames(now) \in Nat /\ ExpectedFrames(now + 1) \in Nat
      /\ ExpectedFrames(now) <= ExpectedFrames(now + 1)
  BY <1>2, ChunksOrdered, ExpectedFramesOrdered, ExpectedFramesNearest
<1>4. /\ Chunks(now)' = Chunks(now + 1)
      /\ ExpectedFrames(now)' = ExpectedFrames(now + 1)
  BY <1>1 DEF Chunks, ExpectedFrames, device
<1>5. TypeOK'
  <2>1. active' \in 0 .. now'
    BY <1>1, <1>2 DEF Tick, IInv, TypeOK
  <2>2. recorded' \in Nat
    BY <1>1, <1>2, <1>3
  <2>. QED
    BY <1>1, <1>2, <2>1, <2>2 DEF IInv, TypeOK, device, mainVars, thread
<1>6. PausesInOrder' /\ ReadsOrNaps'
  BY <1>1 DEF IInv, PausesInOrder, ReadsOrNaps, device, mainVars, thread
<1>7. /\ Held \in Int /\ Held' = Held + (Chunks(now + 1) - Chunks(now))
  BY <1>1, <1>2, <1>3 DEF Held, InHand, thread, IInv, TypeOK
<1>8. ChunksInTime'
  BY <1>3, <1>4, <1>7 DEF IInv, ChunksInTime
<1>9. TrackLength'
  <2>. DEFINE taken == num_received_frames * Pace
  <2>1. taken' = taken /\ taken \in Int
    BY <1>1, <1>2 DEF thread, Pace, Smaller
  <2>2. CASE handle
    BY <1>1, <1>2, <1>3, <1>4, <1>7, <2>2
       DEF IInv, TrackLength, device, thread
  <2>3. CASE ~handle
    <3>1. IF pc = "nap" THEN taken <= deadline /\ deadline <= now + Nap
                        ELSE taken <= now
      BY <2>3 DEF IInv, TrackLength
    <3>. HIDE DEF taken
    <3>2. IF pc' = "nap" THEN taken' <= deadline' /\ deadline' <= now' + Nap
                         ELSE taken' <= now'
      BY <1>1, <1>2, <2>1, <3>1 DEF thread
    <3>. QED
      BY <1>1, <2>3, <3>2 DEF TrackLength, taken, device
  <2>. QED
    BY <2>2, <2>3
<1>. QED
  BY <1>5, <1>6, <1>8, <1>9 DEF IInv

(* The main thread's steps change neither the chunks nor the track.        *)
LEMMA MainInvariant == IInv /\ (Pause \/ AddPause \/ Unpause) => IInv'
<1> SUFFICES ASSUME IInv, Pause \/ AddPause \/ Unpause PROVE IInv'
  OBVIOUS
<1>1. UNCHANGED <<device, now, active, server, thread>>
  BY DEF Pause, AddPause, Unpause
<1>2. TypeOK' /\ PausesInOrder' /\ ReadsOrNaps'
  <2>. USE DEF IInv, TypeOK, PausesInOrder, ReadsOrNaps, device, server,
               thread
  <2>1. CASE Pause
    BY <2>1 DEF Pause
  <2>2. CASE AddPause
    BY <2>2 DEF AddPause, PauseLength
  <2>3. CASE Unpause
    BY <2>3 DEF Unpause
  <2>. QED
    BY <2>1, <2>2, <2>3
<1>3. Held' = Held /\ Held \in Int
  BY <1>1 DEF IInv, TypeOK, Held, InHand, server, thread
<1>4. ChunksInTime' /\ TrackLength'
  <2>1. UNCHANGED <<pc, deadline, num_received_frames>>
    BY <1>1 DEF thread
  <2>2. \/ pc' = "nap" /\ pc = "nap" /\ deadline' = deadline
        \/ pc' # "nap" /\ pc # "nap"
    BY <2>1
  <2>. QED
    BY <1>1, <1>2, <1>3, <2>1, <2>2, LengthKept DEF IInv, TypeOK
<1>. QED
  BY <1>2, <1>4 DEF IInv

(* The steps with which the server and the thread move a chunk, or wait.   *)
LEMMA MoveInvariant ==
    ASSUME IInv,
           \/ HandOver \/ Stop \/ BeginRead \/ ReadReturns \/ ReadClock
           \/ DropWhilePaused \/ EndNap \/ UNCHANGED vars
    PROVE  IInv'
<1>1. UNCHANGED <<device, now, active, mainVars, num_received_frames>>
  BY DEF HandOver, Stop, BeginRead, ReadReturns, ReadClock,
         DropWhilePaused, EndNap, vars, thread
<1>2. PausesInOrder'
  BY <1>1 DEF IInv, PausesInOrder, mainVars
<1>. DEFINE Rest == /\ TypeOK'
                    /\ ReadsOrNaps'
                    /\ Held' <= Held
                    /\ \/ pc' = "nap" /\ pc = "nap" /\ deadline' = deadline
                       \/ pc' = "nap" /\ pc # "nap" /\ deadline' = now + Nap
                       \/ pc' # "nap" /\ (pc # "nap" \/ deadline <= now)
<1>3. Rest
  <2>. USE DEF IInv, ReadsOrNaps, device, mainVars, server, thread
  <2>1. CASE HandOver
    BY <1>1, <2>1 DEF HandOver, TypeOK, Held, InHand
  <2>2. CASE Stop
    BY <1>1, <2>2 DEF Stop, TypeOK, Held, InHand
  <2>3. CASE BeginRead
    <3>1. CASE handle
      <4>1. deadline' \in Nat /\ pc' = "reading" /\ pc = "loop"
        BY <2>3, <3>1 DEF BeginRead, TypeOK
      <4>2. UNCHANGED <<recorded, backlog, got_audio_data,
                        this_audio_frame_time>>
        BY <2>3, <3>1 DEF BeginRead
      <4>3. TypeOK'
        BY <1>1, <4>1, <4>2 DEF TypeOK
      <4>4. Held' <= Held
        BY <4>1, <4>2 DEF Held, InHand, TypeOK
      <4>5. ReadsOrNaps'
        BY <1>1, <3>1, <4>1
      <4>. QED
        BY <4>1, <4>3, <4>4, <4>5
    <3>2. CASE ~handle
      <4>1. /\ pc' = "time" /\ pc = "loop" /\ got_audio_data' = FALSE
            /\ UNCHANGED <<recorded, backlog, deadline,
                           this_audio_frame_time>>
        BY <2>3, <3>2 DEF BeginRead
      <4>2. got_audio_data' \in BOOLEAN
        BY <4>1
      <4>3. TypeOK'
        BY <1>1, <4>1, <4>2 DEF TypeOK
      <4>4. Held' <= Held
        BY <4>1 DEF Held, InHand, TypeOK
      <4>5. ReadsOrNaps'
        BY <4>1
      <4>. QED
        BY <4>1, <4>3, <4>4, <4>5
    <3>. QED
      BY <3>1, <3>2
  <2>4. CASE ReadReturns
    <3>1. /\ pc = "reading" /\ pc' = "time" /\ handle
          /\ UNCHANGED <<recorded, deadline, this_audio_frame_time>>
      BY <2>4 DEF ReadReturns
    <3>2. CASE backlog > 0 /\ backlog' = backlog - 1 /\ got_audio_data' = TRUE
      <4>1. backlog' \in Nat /\ got_audio_data' \in BOOLEAN
        BY <3>2 DEF TypeOK
      <4>2. TypeOK'
        BY <1>1, <3>1, <4>1 DEF TypeOK
      <4>3. InHand = 0 /\ InHand' = 1
        BY <3>1, <3>2 DEF InHand
      <4>4. Held' <= Held
        BY <3>1, <3>2, <4>3 DEF Held, TypeOK
      <4>. QED
        BY <1>1, <3>1, <4>2, <4>4
    <3>3. CASE got_audio_data' = FALSE /\ backlog' = backlog
      <4>1. got_audio_data' \in BOOLEAN
        BY <3>3
      <4>2. TypeOK'
        BY <1>1, <3>1, <3>3, <4>1 DEF TypeOK
      <4>3. Held' <= Held
        BY <3>1, <3>3 DEF Held, InHand, TypeOK
      <4>. QED
        BY <1>1, <3>1, <3>3, <4>2, <4>3
    <3>. QED
      BY <2>4, <3>2, <3>3 DEF ReadReturns
  <2>5. CASE ReadClock
    <3>1. pc = "time" /\ pc' = "gate"
            /\ this_audio_frame_time' = now - paused_time_offset
            /\ UNCHANGED <<recorded, backlog, deadline, got_audio_data>>
      BY <2>5 DEF ReadClock
    <3>2. this_audio_frame_time' \in 0 .. now
      BY <3>1 DEF TypeOK
    <3>3. InHand' = InHand
      BY <3>1 DEF InHand
    <3>4. TypeOK'
      BY <1>1, <3>1, <3>2 DEF TypeOK
    <3>5. Held' <= Held
      BY <3>1, <3>3 DEF Held, InHand, TypeOK
    <3>. QED
      BY <1>1, <3>1, <3>4, <3>5
  <2>6. CASE DropWhilePaused
    BY <1>1, <2>6 DEF DropWhilePaused, NextTurn, TypeOK, Held, InHand
  <2>7. CASE EndNap
    BY <1>1, <2>7 DEF EndNap, TypeOK, Held, InHand
  <2>8. CASE UNCHANGED vars
    BY <1>1, <2>8 DEF vars, TypeOK, Held, InHand
  <2>. QED
    BY <2>1, <2>2, <2>3, <2>4, <2>5, <2>6, <2>7, <2>8
<1>4. Held \in Int /\ Held' \in Int
  BY <1>3 DEF IInv, TypeOK, Held, InHand
<1>5. ChunksInTime' /\ TrackLength'
  BY <1>1, <1>3, <1>4, LengthKept DEF IInv, TypeOK
<1>. QED
  BY <1>2, <1>3, <1>5 DEF IInv

(* Silence takes the track no further than the clock, rounded; the frame   *)
(* in hand was counted before.                                             *)
LEMMA EncodeInvariant == IInv /\ Encode => IInv'
<1> SUFFICES ASSUME IInv, Encode PROVE IInv'
  OBVIOUS
<1>. DEFINE expected == ExpectedFrames(this_audio_frame_time)
            n == num_received_frames
<1>1. /\ got_audio_data \in BOOLEAN /\ handle \in BOOLEAN
      /\ got_audio_data => handle
      /\ n \in Nat /\ this_audio_frame_time \in 0 .. now
      /\ this_audio_frame_time \in Nat /\ now \in Nat /\ phase \in Nat
      /\ recorded \in Nat /\ backlog \in Nat /\ pc = "gate"
  BY DEF Encode, IInv, TypeOK, ReadsOrNaps
<1>2. n' = n + Added
  BY <1>1, SilenceFills DEF Encode, Added
<1>3. /\ n' \in Nat /\ expected \in Nat
      /\ n' <= Larger(n + (IF got_audio_data \/ ~handle THEN 1 ELSE 0),
                      expected)
  BY <1>1, <1>2, SilenceFills
<1>4. /\ UNCHANGED <<device, now, active, mainVars, server, got_audio_data,
                     this_audio_frame_time>>
      /\ handle => pc' = "loop" /\ deadline' = deadline
      /\ ~handle => pc' = "nap" /\ deadline' = now + Nap
  BY DEF Encode, NextTurn
<1>. HIDE DEF n, expected
<1>5. TypeOK' /\ PausesInOrder' /\ ReadsOrNaps'
  <2>1. deadline' \in Nat /\ pc' \in {"loop", "nap"}
    BY <1>1, <1>4 DEF IInv, TypeOK
  <2>2. TypeOK'
    BY <1>3, <1>4, <2>1 DEF IInv, TypeOK, device, mainVars, server, n
  <2>. QED
    BY <1>1, <1>4, <2>2
       DEF IInv, PausesInOrder, ReadsOrNaps, device, mainVars
<1>6. /\ Held' = recorded + backlog
      /\ Held = recorded + backlog + (IF got_audio_data THEN 1 ELSE 0)
  BY <1>1, <1>4 DEF Held, InHand, server
<1>7. /\ Chunks(now)' = Chunks(now)
      /\ ExpectedFrames(now)' = ExpectedFrames(now)
      /\ Chunks(now) \in Nat /\ ExpectedFrames(now) \in Nat
      /\ expected <= ExpectedFrames(now)
  <2>1. /\ Chunks(now)' = Chunks(now)
        /\ ExpectedFrames(now)' = ExpectedFrames(now)
    BY <1>4 DEF Chunks, ExpectedFrames, device
  <2>. QED
    BY <1>1, <2>1, ChunksOrdered, ExpectedFramesOrdered,
       ExpectedFramesNearest DEF expected
<1>8. ChunksInTime'
  BY <1>1, <1>6, <1>7 DEF IInv, ChunksInTime
<1>9. CASE handle
  <2>1. Held <= Chunks(now) /\ n + Held <= ExpectedFrames(now) + Chunks(now)
    BY <1>9 DEF IInv, ChunksInTime, TrackLength, n
  <2>2. n' + Held' <= ExpectedFrames(now) + Chunks(now)
    BY <1>1, <1>3, <1>6, <1>7, <1>9, <2>1 DEF Larger
  <2>. QED
    BY <1>4, <1>5, <1>7, <1>8, <1>9, <2>2 DEF IInv, TrackLength, n, device
<1>10. CASE ~handle
  <2>1. n * Pace <= now
    BY <1>1, <1>10 DEF IInv, TrackLength, n
  <2>2. Pace \in Nat /\ Pace <= Nap
    BY DEF Pace, Smaller
  <2>3. n' * Pace <= now + Nap
    <3>0. PICK m \in Nat : m = n'
      BY <1>3
    <3>1. CASE n' <= n + 1
      <4>0. m <= n + 1 /\ n + 1 \in Int
        BY <1>1, <3>0, <3>1
      <4>1. n' * Pace <= (n + 1) * Pace
        BY <2>2, <3>0, <4>0, ProductsOrdered
      <4>2. (n + 1) * Pace = n * Pace + Pace /\ n * Pace \in Int
              /\ n' * Pace \in Int
        BY <1>1, <1>3, <2>2
      <4>. QED
        BY <1>1, <2>1, <2>2, <4>1, <4>2
    <3>2. CASE n' <= expected
      <4>1. expected * Pace <= this_audio_frame_time + Nap
        BY <1>1, <1>3, ExpectedFramesNearest, RoundedFits DEF expected
      <4>0. m <= expected /\ expected \in Int
        BY <1>3, <3>0, <3>2
      <4>2. n' * Pace <= expected * Pace
        <5>1. PICK e \in Int : e = expected
          BY <4>0
        <5>2. m * Pace <= e * Pace
          BY <2>2, <4>0, <5>1, ProductsOrdered
        <5>. QED
          BY <3>0, <5>1, <5>2
      <4>3. n' * Pace \in Int /\ expected * Pace \in Int
        BY <1>3, <2>2
      <4>. QED
        BY <1>1, <4>1, <4>2, <4>3
    <3>. QED
      BY <1>1, <1>3, <3>1, <3>2 DEF Larger
  <2>4. TrackLength'
    <3>1. ~handle' /\ pc' = "nap" /\ deadline' = now' + Nap /\ now' = now
      BY <1>4, <1>10 DEF device
    <3>2. Pace' = Pace
      BY DEF Pace
    <3>3. (n * Pace)' <= now + Nap
      BY <2>3, <3>2
    <3>. QED
      BY <1>1, <3>1, <3>3 DEF TrackLength, n
  <2>. QED
    BY <1>5, <1>8, <2>4 DEF IInv
<1>. QED
  BY <1>9, <1>10

LEMMA StepInvariant == IInv /\ [Next]_vars => IInv'
BY TickInvariant, MainInvariant, MoveInvariant, EncodeInvariant DEF Next

LEMMA Invariant == Spec => []IInv
BY InitInvariant, StepInvariant, PTL DEF Spec

-----------------------------------------------------------------------------
(* Every variable keeps to its type, and no clock is ahead of time.        *)
THEOREM AudioTypeCorrect == Spec => []TypeOK
<1>1. IInv => TypeOK
  BY DEF IInv
<1>. QED
  BY Invariant, <1>1, PTL

(* Every unpaused iteration of the thread (main.cpp:3947-4027) leaves the  *)
(* track close behind the time it read, and silence takes it no further    *)
(* than to the nearest frame.                                              *)
THEOREM AudioFollowsClock == Spec => TrackFollowsClock
<1>1. ASSUME IInv, Encode
      PROVE  /\ Length2(num_received_frames'
                          + IF got_audio_data THEN 0 ELSE 4)
                  >= 2 * this_audio_frame_time - Frame
             /\ \/ num_received_frames' <= num_received_frames
                       + IF got_audio_data \/ ~handle THEN 1 ELSE 0
                \/ Length2(num_received_frames')
                       <= 2 * this_audio_frame_time + Frame
  <2>. DEFINE expected == ExpectedFrames(this_audio_frame_time)
              least == num_received_frames'
                          + IF got_audio_data THEN 0 ELSE 4
              most == num_received_frames
                         + IF got_audio_data \/ ~handle THEN 1 ELSE 0
  <2>1. /\ got_audio_data \in BOOLEAN /\ handle \in BOOLEAN
        /\ got_audio_data => handle
        /\ num_received_frames \in Nat /\ this_audio_frame_time \in Nat
    BY <1>1 DEF IInv, TypeOK, ReadsOrNaps, Encode
  <2>2. num_received_frames' = num_received_frames + Added /\ Added \in Nat
    BY <2>1, <1>1, SilenceFills DEF Encode, Added
  <2>3. /\ expected \in Nat /\ num_received_frames' \in Nat
        /\ least \in Nat /\ most \in Nat
        /\ least >= expected
        /\ num_received_frames' <= Larger(most, expected)
    BY <2>1, <2>2, SilenceFills
  <2>4. /\ Length2(expected) <= 2 * this_audio_frame_time + Frame
        /\ 2 * this_audio_frame_time - Frame <= Length2(expected)
    BY <2>1, ExpectedFramesNearest
  <2>. HIDE DEF expected, least, most
  <2>5. Length2(expected) <= Length2(least)
    BY <2>3, ProductsOrdered, 2 * Frame \in Nat DEF Length2
  <2>6. /\ Length2(expected) \in Int /\ Length2(least) \in Int
        /\ Length2(num_received_frames') \in Int
    BY <2>3 DEF Length2
  <2>7. Length2(least) >= 2 * this_audio_frame_time - Frame
    BY <2>1, <2>4, <2>5, <2>6
  <2>8. CASE num_received_frames' <= most
    BY <2>7, <2>8 DEF least, most
  <2>9. CASE num_received_frames' <= expected
    <3>0. PICK m \in Nat : m = num_received_frames'
      BY <2>3
    <3>1. Length2(num_received_frames') <= Length2(expected)
      <4>0. m <= expected /\ expected \in Int
        BY <2>3, <2>9, <3>0
      <4>1. PICK e \in Int : e = expected
        BY <4>0
      <4>2. PICK k \in Nat : k = 2 * Frame
        OBVIOUS
      <4>3. m * k <= e * k
        BY <4>0, <4>1, ProductsOrdered
      <4>4. Length2(m) <= Length2(expected)
        BY <4>1, <4>2, <4>3 DEF Length2
      <4>. QED
        BY <3>0, <4>4
    <3>2. Length2(num_received_frames') <= 2 * this_audio_frame_time + Frame
      BY <2>1, <2>4, <2>6, <3>1
    <3>. QED
      BY <2>7, <3>2 DEF least
  <2>. QED
    BY <2>3, <2>8, <2>9 DEF Larger
<1>. QED
  BY Invariant, <1>1, PTL DEF Spec, TrackFollowsClock

(* Late chunks cannot make a track more than twice as long as the time,    *)
(* and a track without a device is as long as its naps at most.            *)
THEOREM AudioNeverTwiceAsLong == Spec => []NeverTwiceAsLong
<1>1. IInv => NeverTwiceAsLong
  <2> SUFFICES ASSUME IInv PROVE NeverTwiceAsLong
    OBVIOUS
  <2>1. CASE handle
    <3>1. /\ InHand \in {0, 1}
          /\ num_received_frames + Held <= ExpectedFrames(now) + Chunks(now)
      BY <2>1 DEF IInv, TrackLength, InHand
    <3>2. /\ ExpectedFrames(now) \in Nat /\ Chunks(now) \in Nat
          /\ recorded \in Nat /\ backlog \in Nat
          /\ num_received_frames \in Nat
      BY ExpectedFramesNearest, ChunksOrdered DEF IInv, TypeOK
    <3>. QED
      BY <2>1, <3>1, <3>2 DEF Held, NeverTwiceAsLong
  <2>2. CASE ~handle
    <3>. DEFINE taken == num_received_frames * Pace
    <3>1. taken \in Int /\ now \in Nat /\ deadline \in Nat
      BY DEF IInv, TypeOK, Pace, Smaller
    <3>2. IF pc = "nap" THEN taken <= deadline /\ deadline <= now + Nap
                        ELSE taken <= now
      BY <2>2 DEF IInv, TrackLength
    <3>. HIDE DEF taken
    <3>3. taken <= now + Nap
      BY <3>1, <3>2
    <3>. QED
      BY <2>2, <3>3 DEF taken, Pace, NeverTwiceAsLong
  <2>. QED
    BY <2>1, <2>2
<1>. QED
  BY Invariant, <1>1, PTL
=============================================================================
