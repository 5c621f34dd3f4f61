-------------------------- MODULE FramePacing_proofs --------------------------
(***************************************************************************)
(* What is proved of frame pacing for every frame duration, every length   *)
(* of the recording, every pattern of late turns and any number of pauses: *)
(* timestamps increase and exclude pauses, constant mode keeps up without  *)
(* running ahead, and no mode captures above the frame rate.               *)
(***************************************************************************)
EXTENDS FramePacing, TLAPS

USE PacingAssumption

-----------------------------------------------------------------------------
(* Arithmetic.                                                             *)

(* A time is inside a frame of the grid.                                   *)
LEMMA FrameOfTime ==
    ASSUME NEW t \in Nat
    PROVE  /\ t \div Frame \in Nat
           /\ (t \div Frame) * Frame <= t
           /\ t < (t \div Frame + 1) * Frame
OBVIOUS

(* If k frames fit into a time, its frame's number is at least k.          *)
LEMMA FramesFit ==
    ASSUME NEW t \in Nat, NEW k \in Int, k * Frame <= t
    PROVE  k <= t \div Frame
<1>1. t \div Frame \in Int /\ t < (t \div Frame + 1) * Frame
  BY FrameOfTime
<1>2. SUFFICES ASSUME NEW q \in Int, t < (q + 1) * Frame PROVE k <= q
  BY <1>1
<1>3. ~(k >= q + 1)
  BY <1>2
<1>. QED
  BY <1>3

LEMMA ExpectedFramesType ==
    ASSUME NEW t \in Nat
    PROVE  ExpectedFrames(t) \in Int
BY DEF ExpectedFrames

LEMMA CopiesType ==
    ASSUME video_pts_counter \in Nat, this_video_frame_time \in Nat
    PROVE  /\ Copies \in Nat /\ Copies >= 1
           /\ framerate_mode = "constant" =>
                video_pts_counter + Copies >=
                  ExpectedFrames(this_video_frame_time)
<1>1. ExpectedFrames(this_video_frame_time) \in Int
  BY ExpectedFramesType
<1>. QED
  BY <1>1 DEF Copies, Larger

-----------------------------------------------------------------------------
(* The invariant.                                                          *)

(* The pause clock: what it shows, or showed when the pause began, is the  *)
(* time not spent paused.                                                  *)
PauseClock ==
    /\ ~paused => /\ paused_time_offset <= now
                  /\ active = now - paused_time_offset
    /\ paused => /\ paused_time_offset <= paused_time_start
                 /\ paused_time_start <= now
                 /\ active = paused_time_start - paused_time_offset

(* A frame that is being captured has the time of the pause clock.         *)
FrameTime ==
    /\ pc = "encode" =>
          /\ frame_captured
          /\ video_prev_pts <= this_video_frame_time
    /\ frame_captured /\ pc \in {"encode", "pause"} =>
          ~paused /\ this_video_frame_time <= active

(* The last timestamp, in the two ways timestamps are made.                *)
Stamps ==
    /\ ~backwards
    /\ video_prev_pts <= active
    /\ framerate_mode = "constant" => last_pts = video_pts_counter - 1
    /\ framerate_mode # "constant" => last_pts <= video_prev_pts

(* Frames captured or about to be encoded.                                 *)
Captured == captures + (IF pc = "encode" THEN 1 ELSE 0)

(* The last capture time is late enough for all frames captured; and when  *)
(* the next may be captured without waiting for the frame time to elapse,  *)
(* the sleep has led to, or will lead to, a frame of the grid not used yet.*)
Pace ==
    /\ (Captured - 1) * Frame <= last_capture_seconds
    /\ last_capture_seconds <= active
    /\ ~wait_until_frame_time_elapsed /\ ~paused =>
          /\ pc = "sleep" => wake >= paused_time_offset + Captured * Frame
          /\ pc \in {"top", "decide"} =>
                now - paused_time_offset >= Captured * Frame

IInv ==
    /\ TypeOK
    /\ PauseClock
    /\ FrameTime
    /\ Stamps
    /\ Pace
    /\ ConstantKeepsUp

-----------------------------------------------------------------------------
LEMMA InitInvariant == Init => IInv
<1> SUFFICES ASSUME Init PROVE IInv
  OBVIOUS
<1>1. TypeOK
  <2>1. {wait_until_frame_time_elapsed, frame_captured, paused, backwards}
          \subseteq BOOLEAN
    BY DEF Init
  <2>2. last_capture_seconds \in -Frame .. now /\ wake \in 0 .. now + Frame
          /\ last_pts \in -1 .. video_pts_counter + now
    BY DEF Init
  <2>3. now \in 0 .. MaxNow /\ pauses \in 0 .. MaxPauses /\ active \in 0 .. now
    BY DEF Init
  <2>4. {frame_start, this_video_frame_time, paused_time_start,
         paused_time_offset} \subseteq 0 .. now
    BY DEF Init
  <2>. QED
    BY <2>1, <2>2, <2>3, <2>4 DEF Init, TypeOK
<1>2. PauseClock /\ FrameTime /\ Stamps /\ ConstantKeepsUp
  BY DEF Init, PauseClock, FrameTime, Stamps, ConstantKeepsUp
<1>3. Pace
  BY DEF Init, Pace, Captured
<1>. QED
  BY <1>1, <1>2, <1>3 DEF IInv

LEMMA TickStep == IInv /\ Tick => IInv'
<1> SUFFICES ASSUME IInv, Tick PROVE IInv'
  OBVIOUS
<1>. USE DEF IInv, TypeOK, pause, pts, Tick
<1>1. TypeOK'
  OBVIOUS
<1>2. PauseClock'
  BY DEF PauseClock
<1>3. FrameTime'
  BY DEF FrameTime, PauseClock, Stamps
<1>4. Stamps'
  BY DEF Stamps, FrameTime, PauseClock
<1>5. Pace'
  BY DEF Pace, Captured, PauseClock
<1>6. ConstantKeepsUp'
  BY DEF ConstantKeepsUp
<1>. QED
  BY <1>1, <1>2, <1>3, <1>4, <1>5, <1>6

LEMMA TopStep == IInv /\ Top => IInv'
<1> SUFFICES ASSUME IInv, Top PROVE IInv'
  OBVIOUS
<1>. USE DEF IInv, TypeOK, pause, pts, Top
<1>1. TypeOK'
  OBVIOUS
<1>2. PauseClock'
  BY DEF PauseClock
<1>3. FrameTime'
  BY DEF FrameTime, PauseClock, Stamps
<1>4. Stamps'
  BY DEF Stamps, FrameTime, PauseClock
<1>5. Pace'
  BY DEF Pace, Captured, PauseClock
<1>6. ConstantKeepsUp'
  BY DEF ConstantKeepsUp
<1>. QED
  BY <1>1, <1>2, <1>3, <1>4, <1>5, <1>6

LEMMA StopStep == IInv /\ Stop => IInv'
<1> SUFFICES ASSUME IInv, Stop PROVE IInv'
  OBVIOUS
<1>. USE DEF IInv, TypeOK, pause, pts, Stop
<1>1. TypeOK'
  OBVIOUS
<1>2. PauseClock'
  BY DEF PauseClock
<1>3. FrameTime'
  BY DEF FrameTime, PauseClock, Stamps
<1>4. Stamps'
  BY DEF Stamps, FrameTime, PauseClock
<1>5. Pace'
  BY DEF Pace, Captured, PauseClock
<1>6. ConstantKeepsUp'
  BY DEF ConstantKeepsUp
<1>. QED
  BY <1>1, <1>2, <1>3, <1>4, <1>5, <1>6

(* The decision, and what is remembered of a capture.                      *)
LEMMA DecideFacts ==
    ASSUME IInv, Decide
    PROVE  LET t == now - paused_time_offset
           IN  /\ t \in 0 .. now /\ this_video_frame_time' = t
               /\ frame_captured' \in BOOLEAN
               /\ ~frame_captured' =>
                     /\ pc' = "pause"
                     /\ UNCHANGED <<last_capture_seconds,
                                   wait_until_frame_time_elapsed>>
               /\ frame_captured' =>
                     /\ pc' = "encode" /\ ~paused
                     /\ wait_until_frame_time_elapsed' = FALSE
                     /\ last_capture_seconds' \in t - Frame .. t
                     /\ \/ last_capture_seconds' >=
                             last_capture_seconds + Frame
                        \/ /\ last_capture_seconds' = t
                           /\ ~wait_until_frame_time_elapsed
<1>. DEFINE t == now - paused_time_offset
<1>. DEFINE o == Overflow(t)
<1>1. t \in 0 .. now
  BY DEF IInv, TypeOK, PauseClock
<1>2. this_video_frame_time' = t
  BY DEF Decide
<1>3. PICK damaged \in BOOLEAN : frame_captured' = Captures(t, damaged)
  BY DEF Decide
<1>4. /\ frame_captured' \in BOOLEAN
      /\ frame_captured' =>
            ~paused /\ (o >= 0 \/ ~wait_until_frame_time_elapsed)
  BY <1>3 DEF Captures, IInv, TypeOK
<1>5. ~frame_captured' =>
        /\ pc' = "pause"
        /\ UNCHANGED <<last_capture_seconds, wait_until_frame_time_elapsed>>
  BY DEF Decide
<1>6. frame_captured' =>
        /\ last_capture_seconds' = t - Smaller(Larger(0, o), Frame)
        /\ wait_until_frame_time_elapsed' = FALSE
        /\ pc' = "encode"
  BY DEF Decide
<1>7. o \in Int /\ o = t - last_capture_seconds - Frame
        /\ last_capture_seconds \in Int
  BY <1>1 DEF Overflow, IInv, TypeOK
<1>8. ASSUME frame_captured'
      PROVE  /\ last_capture_seconds' \in t - Frame .. t
             /\ o >= 0 => last_capture_seconds' >= last_capture_seconds + Frame
             /\ ~(o >= 0) => last_capture_seconds' = t
  <2>. HIDE DEF o, t
  <2>1. last_capture_seconds' = t - Smaller(Larger(0, o), Frame)
    BY <1>6, <1>8
  <2>2. t \in Int
    BY <1>1
  <2>. QED
    BY <1>7, <2>1, <2>2 DEF Smaller, Larger
<1>. HIDE DEF o
<1>. QED
  BY <1>1, <1>2, <1>4, <1>5, <1>6, <1>8

LEMMA DecideStep == IInv /\ Decide => IInv'
<1> SUFFICES ASSUME IInv, Decide PROVE IInv'
  OBVIOUS
<1>. DEFINE t == now - paused_time_offset
<1>1. /\ t \in 0 .. now /\ this_video_frame_time' = t
      /\ frame_captured' \in BOOLEAN
      /\ ~frame_captured' =>
            /\ pc' = "pause"
            /\ UNCHANGED <<last_capture_seconds,
                          wait_until_frame_time_elapsed>>
      /\ frame_captured' =>
            /\ pc' = "encode" /\ ~paused
            /\ wait_until_frame_time_elapsed' = FALSE
            /\ last_capture_seconds' \in t - Frame .. t
            /\ \/ last_capture_seconds' >= last_capture_seconds + Frame
               \/ /\ last_capture_seconds' = t
                  /\ ~wait_until_frame_time_elapsed
  BY DecideFacts
<1>2. /\ pc = "decide"
      /\ UNCHANGED <<framerate_mode, now, frame_start, wake, pause, active,
                    pts>>
  BY DEF Decide
<1>. USE <1>2 DEF IInv, TypeOK, pause, pts
<1>3. TypeOK'
  <2>1. last_capture_seconds' \in -Frame .. now
    BY <1>1
  <2>2. wait_until_frame_time_elapsed' \in BOOLEAN
    BY <1>1
  <2>3. pc' \in {"encode", "pause"}
    BY <1>1
  <2>. HIDE DEF t
  <2>. QED
    BY <1>1, <2>1, <2>2, <2>3
<1>4. PauseClock'
  BY DEF PauseClock
<1>5. FrameTime'
  BY <1>1 DEF FrameTime, PauseClock, Stamps
<1>6. Stamps'
  BY DEF Stamps
<1>7. Pace'
  <2>1. CASE ~frame_captured'
    BY <1>1, <2>1 DEF Pace, Captured
  <2>2. CASE frame_captured'
    <3>1. Captured' = captures + 1 /\ Captured = captures
            /\ captures \in Nat
      BY <1>1, <2>2 DEF Captured
    <3>2. t = active /\ t \in Nat
      BY <1>1, <2>2 DEF PauseClock
    <3>3. (captures - 1) * Frame <= last_capture_seconds
      BY <3>1 DEF Pace
    <3>4. captures * Frame = (captures - 1) * Frame + Frame
      BY <3>1
    <3>5. last_capture_seconds' >= captures * Frame
      <4>1. CASE last_capture_seconds' >= last_capture_seconds + Frame
        BY <1>1, <2>2, <3>3, <3>4, <4>1
      <4>2. CASE last_capture_seconds' = t /\ ~wait_until_frame_time_elapsed
        BY <1>1, <2>2, <3>1, <4>2 DEF Pace
      <4>. QED
        BY <1>1, <2>2, <4>1, <4>2
    <3>. QED
      BY <1>1, <2>2, <3>1, <3>2, <3>5 DEF Pace
  <2>. QED
    BY <1>1, <2>1, <2>2
<1>8. ConstantKeepsUp'
  BY <1>1 DEF ConstantKeepsUp
<1>. QED
  BY <1>3, <1>4, <1>5, <1>6, <1>7, <1>8

LEMMA EncodeStep == IInv /\ Encode => IInv'
<1> SUFFICES ASSUME IInv, Encode PROVE IInv'
  OBVIOUS
<1>. USE DEF IInv, TypeOK, pause, pts, Encode
<1>1. TypeOK'
  <2>1. Copies \in Nat /\ Copies >= 1
    BY CopiesType
  <2>2. video_pts_counter' \in Nat /\ captures' \in Nat
          /\ video_pts_counter' >= video_pts_counter + 1
    BY <2>1
  <2>3. backwards' \in BOOLEAN
    OBVIOUS
  <2>4. video_prev_pts' \in Nat
    OBVIOUS
  <2>5. last_pts' \in -1 .. video_pts_counter' + now
    BY <2>2
  <2>. QED
    BY <2>2, <2>3, <2>4, <2>5
<1>2. PauseClock'
  BY DEF PauseClock
<1>3. FrameTime'
  BY DEF FrameTime, PauseClock, Stamps
<1>4. Stamps'
  <2>1. CASE framerate_mode = "constant"
    BY <2>1, CopiesType DEF Stamps, FrameTime
  <2>2. CASE framerate_mode # "constant"
    BY <2>2 DEF Stamps, FrameTime, Skipped
  <2>. QED
    BY <2>1, <2>2
<1>5. Pace'
  BY DEF Pace, Captured, PauseClock
<1>6. ConstantKeepsUp'
  <2>1. framerate_mode = "constant" =>
          video_pts_counter' >= ExpectedFrames(this_video_frame_time)
    BY CopiesType
  <2>2. ExpectedFrames(this_video_frame_time)' =
          ExpectedFrames(this_video_frame_time)
    BY DEF ExpectedFrames
  <2>. QED
    BY <2>1, <2>2 DEF ConstantKeepsUp
<1>. QED
  BY <1>1, <1>2, <1>3, <1>4, <1>5, <1>6

LEMMA ToggleStep == IInv /\ TogglePause => IInv'
<1> SUFFICES ASSUME IInv, TogglePause PROVE IInv'
  OBVIOUS
<1>. USE DEF IInv, TypeOK, pause, pts
<1>1. /\ pc = "pause" /\ pc' = "end"
      /\ UNCHANGED <<framerate_mode, now, frame_start, this_video_frame_time,
                    last_capture_seconds, wait_until_frame_time_elapsed,
                    frame_captured, wake, active, pts>>
  BY DEF TogglePause
<1>2. CASE UNCHANGED pause
  BY <1>1, <1>2 DEF PauseClock, FrameTime, Stamps, Pace, Captured,
                    ConstantKeepsUp, ExpectedFrames
<1>3. ASSUME pauses' \in 0 .. MaxPauses,
             \/ /\ ~paused /\ paused' = TRUE
                /\ paused_time_start' = now /\ UNCHANGED paused_time_offset
             \/ /\ paused /\ paused' = FALSE
                /\ paused_time_offset' = now - paused_time_start
                                           + paused_time_offset
                /\ UNCHANGED paused_time_start
      PROVE  IInv'
  <2>1. PauseClock'
    BY <1>1, <1>3 DEF PauseClock
  <2>2. paused_time_offset' \in 0 .. now /\ paused_time_start' \in 0 .. now
    BY <1>1, <1>3 DEF PauseClock
  <2>3. paused' \in BOOLEAN
    BY <1>3
  <2>4. TypeOK'
    BY <1>1, <1>3, <2>2, <2>3
  <2>5. FrameTime' /\ Stamps'
    BY <1>1 DEF FrameTime, Stamps
  <2>6. Pace'
    BY <1>1 DEF Pace, Captured
  <2>7. ConstantKeepsUp'
    BY <1>1 DEF ConstantKeepsUp, ExpectedFrames
  <2>. QED
    BY <2>1, <2>4, <2>5, <2>6, <2>7
<1>4. CASE /\ pauses < MaxPauses /\ pauses' = pauses + 1 /\ ~paused
           /\ paused' = ~paused
           /\ paused_time_start' = now /\ UNCHANGED paused_time_offset
  <2>1. paused' = TRUE
    BY <1>4
  <2>2. pauses' \in 0 .. MaxPauses
    BY <1>4
  <2>. HIDE DEF IInv, TypeOK, pause, pts
  <2>. QED
    BY <1>3, <1>4, <2>1, <2>2
<1>5. CASE /\ pauses < MaxPauses /\ pauses' = pauses + 1 /\ paused
           /\ paused' = ~paused
           /\ paused_time_offset' = paused_time_offset + PauseLength
           /\ UNCHANGED paused_time_start
  <2>1. paused' = FALSE
    BY <1>5
  <2>2. pauses' \in 0 .. MaxPauses
    BY <1>5
  <2>3. paused_time_offset' = now - paused_time_start + paused_time_offset
    BY <1>5 DEF PauseLength
  <2>. HIDE DEF IInv, TypeOK, pause, pts
  <2>. QED
    BY <1>3, <1>5, <2>1, <2>2, <2>3
<1>. QED
  BY <1>2, <1>4, <1>5 DEF TogglePause

LEMMA EndStep == IInv /\ EndOfTurn => IInv'
<1> SUFFICES ASSUME IInv, EndOfTurn PROVE IInv'
  OBVIOUS
<1>. USE DEF IInv, TypeOK, pause, pts, EndOfTurn
<1>1. TypeOK'
  <2>1. now - paused_time_offset \in 0 .. now
    BY DEF PauseClock
  <2>2. wake' \in now .. now + Frame
    BY <2>1, FrameOfTime
  <2>3. wait_until_frame_time_elapsed' \in BOOLEAN
    OBVIOUS
  <2>. QED
    BY <2>2, <2>3
<1>2. PauseClock'
  BY DEF PauseClock
<1>3. FrameTime'
  BY DEF FrameTime, PauseClock, Stamps
<1>4. Stamps'
  BY DEF Stamps, FrameTime, PauseClock
<1>5. Pace'
  <2>. DEFINE t == now - paused_time_offset
  <2>1. UNCHANGED <<captures, last_capture_seconds, active, paused,
                    paused_time_offset>> /\ Captured' = Captured
    BY DEF Captured
  <2>2. ASSUME ~wait_until_frame_time_elapsed', ~paused
        PROVE  wake' >= paused_time_offset + Captured * Frame
    <3>1. t \in Nat /\ t = active
      BY <2>2 DEF PauseClock
    <3>2. Captured \in Nat /\ (Captured - 1) * Frame <= t
      BY <3>1 DEF Pace, Captured
    <3>3. wake' = now + ((t \div Frame + 1) * Frame - t)
      BY <2>2
    <3>4. Captured - 1 <= t \div Frame /\ t \div Frame \in Nat
      BY <3>1, <3>2, FramesFit, FrameOfTime
    <3>. HIDE DEF t
    <3>5. (t \div Frame + 1) * Frame >= Captured * Frame
      <4>1. ASSUME NEW q \in Nat, Captured - 1 <= q
            PROVE  (q + 1) * Frame >= Captured * Frame
        BY <3>2, <4>1
      <4>. QED
        BY <3>4, <4>1
    <3>. DEFINE next == (t \div Frame + 1) * Frame
    <3>. DEFINE used == Captured * Frame
    <3>6. next \in Int /\ used \in Int /\ next >= used
      BY <3>2, <3>4, <3>5
    <3>7. now \in Int /\ paused_time_offset \in Int
            /\ t = now - paused_time_offset
      BY DEF t
    <3>8. wake' = now + (next - t)
      BY <3>3
    <3>. HIDE DEF next, used
    <3>9. wake' >= paused_time_offset + used
      BY <3>6, <3>7, <3>8
    <3>. QED
      BY <3>9 DEF used
  <2>. QED
    BY <2>1, <2>2 DEF Pace
<1>6. ConstantKeepsUp'
  BY DEF ConstantKeepsUp
<1>. QED
  BY <1>1, <1>2, <1>3, <1>4, <1>5, <1>6

LEMMA WakeStep == IInv /\ Wake => IInv'
<1> SUFFICES ASSUME IInv, Wake PROVE IInv'
  OBVIOUS
<1>. USE DEF IInv, TypeOK, pause, pts, Wake
<1>1. TypeOK'
  OBVIOUS
<1>2. PauseClock'
  BY DEF PauseClock
<1>3. FrameTime'
  BY DEF FrameTime, PauseClock, Stamps
<1>4. Stamps'
  BY DEF Stamps, FrameTime, PauseClock
<1>5. Pace'
  BY DEF Pace, Captured, PauseClock
<1>6. ConstantKeepsUp'
  BY DEF ConstantKeepsUp
<1>. QED
  BY <1>1, <1>2, <1>3, <1>4, <1>5, <1>6

LEMMA Invariant == Spec => []IInv
<1>1. IInv /\ UNCHANGED vars => IInv'
  BY DEF IInv, TypeOK, PauseClock, FrameTime, Stamps, Pace, Captured,
         ConstantKeepsUp, vars, pause, pts
<1>2. IInv /\ [Next]_vars => IInv'
  BY <1>1, TickStep, TopStep, StopStep, DecideStep, EncodeStep, ToggleStep,
     EndStep, WakeStep DEF Next
<1>. QED
  BY InitInvariant, <1>2, PTL DEF Spec

-----------------------------------------------------------------------------
(* Every variable keeps to its type (the main loop of main.cpp).           *)
THEOREM PacingTypeCorrect == Spec => []TypeOK
<1>1. IInv => TypeOK
  BY DEF IInv
<1>. QED
  BY Invariant, <1>1, PTL

(* Encoded timestamps strictly increase in every mode, for every frame     *)
(* rate.                                                                   *)
THEOREM PacingTimestampsIncrease == Spec => []TimestampsIncrease
<1>1. IInv => TimestampsIncrease
  BY DEF IInv, Stamps, TimestampsIncrease
<1>. QED
  BY Invariant, <1>1, PTL

(* No frame's time, and no timestamp, is ahead of the unpaused time.       *)
THEOREM PacingNoFrameFromTheFuture == Spec => []NoFrameFromTheFuture
<1>1. IInv => NoFrameFromTheFuture
  BY DEF IInv, TypeOK, FrameTime, Stamps, NoFrameFromTheFuture
<1>. QED
  BY Invariant, <1>1, PTL

(* However late a turn is, constant mode's copies fill the gap.            *)
THEOREM PacingConstantKeepsUp == Spec => []ConstantKeepsUp
<1>1. IInv => ConstantKeepsUp
  BY DEF IInv
<1>. QED
  BY Invariant, <1>1, PTL

(* No mode captures more frames than the unpaused time has, and one.       *)
THEOREM PacingNotAboveFrameRate == Spec => []NotAboveFrameRate
<1>1. ASSUME IInv PROVE NotAboveFrameRate
  <2>1. captures \in Nat /\ active \in Nat /\ last_capture_seconds \in Int
    BY <1>1 DEF IInv, TypeOK
  <2>2. (captures - 1) * Frame <= (Captured - 1) * Frame
    BY <2>1 DEF Captured
  <2>3. (captures - 1) * Frame <= active
    BY <1>1, <2>1, <2>2 DEF IInv, Pace, Captured
  <2>4. captures - 1 <= active \div Frame
    BY <2>1, <2>3, FramesFit
  <2>. QED
    BY <2>1, <2>4, FrameOfTime DEF NotAboveFrameRate
<1>. QED
  BY Invariant, <1>1, PTL

-----------------------------------------------------------------------------
(* Constant mode does not run ahead.                                       *)

(* The copies made, and the one about to be.                               *)
Counted == video_pts_counter + (IF pc = "encode" THEN 1 ELSE 0)

(* Pace, for copies instead of captures: a jump to the expected frame is   *)
(* at most half a frame ahead of the capture, whose time was shifted back  *)
(* by at most one.                                                         *)
CountPace ==
    framerate_mode = "constant" =>
        /\ (Counted - 2) * Frame <= last_capture_seconds
        /\ ~wait_until_frame_time_elapsed /\ ~paused =>
              /\ pc = "sleep" =>
                    wake >= paused_time_offset + (Counted - 1) * Frame
              /\ pc \in {"top", "decide"} =>
                    now - paused_time_offset >= (Counted - 1) * Frame

(* The last capture is not later than the turn it was, or was not, made    *)
(* in, and shifted back by at most a frame.                                *)
Sampled ==
    /\ pc \in {"encode", "pause", "end", "sleep"} =>
          last_capture_seconds <= this_video_frame_time
    /\ pc = "encode" =>
          this_video_frame_time - Frame <= last_capture_seconds

LEMMA ExpectedFramesBounds ==
    ASSUME NEW t \in Nat
    PROVE  /\ 2 * ExpectedFrames(t) * Frame <= 2 * t + Frame
           /\ t \div Frame <= ExpectedFrames(t)
<1>. DEFINE e == ExpectedFrames(t)
<1>. DEFINE q == t \div Frame
<1>1. e \in Int /\ q \in Int
  BY ExpectedFramesType, FrameOfTime
<1>2. (2 * Frame) * e <= 2 * t + Frame /\ 2 * t + Frame < (2 * Frame) * (e + 1)
  <2>. DEFINE a == 2 * t + Frame
  <2>. DEFINE b == 2 * Frame
  <2>1. a \in Nat /\ b \in Nat \ {0} /\ e = a \div b
    BY DEF ExpectedFrames
  <2>. HIDE DEF a, b, e
  <2>2. b * (a \div b) <= a /\ a < b * (a \div b + 1)
    BY <2>1
  <2>. QED
    BY <2>1, <2>2 DEF a, b
<1>3. q * Frame <= t
  BY FrameOfTime
<1>. HIDE DEF e, q
<1>4. 2 * e * Frame <= 2 * t + Frame
  BY <1>1, <1>2
<1>5. ~(q >= e + 1)
  BY <1>1, <1>2, <1>3
<1>. QED
  BY <1>1, <1>4, <1>5 DEF e, q

LEMMA CountInit == Init => CountPace /\ Sampled
BY DEF Init, CountPace, Sampled, Counted

(* Steps that neither capture nor end a turn.                              *)
LEMMA CountOther ==
    ASSUME IInv, CountPace, Sampled,
           Tick \/ Top \/ Stop \/ TogglePause \/ Wake \/ UNCHANGED vars
    PROVE  CountPace' /\ Sampled'
<1>1. UNCHANGED <<framerate_mode, video_pts_counter, last_capture_seconds,
                  this_video_frame_time, wake>>
  BY DEF Tick, Top, Stop, TogglePause, Wake, vars, pts
<1>2. Sampled'
  BY <1>1 DEF Sampled, Tick, Top, Stop, TogglePause, Wake, vars
<1>3. Counted' = Counted
  BY <1>1 DEF Counted, Tick, Top, Stop, TogglePause, Wake, vars
<1>. DEFINE used == (Counted - 1) * Frame
<1>4. Counted \in Nat /\ used \in Int /\ used' = used
  BY <1>3 DEF IInv, TypeOK, Counted
<1>. HIDE DEF used
<1>5. ASSUME framerate_mode = "constant", ~wait_until_frame_time_elapsed,
             ~paused
      PROVE  /\ pc = "sleep" => wake >= paused_time_offset + used
             /\ pc \in {"top", "decide"} => now - paused_time_offset >= used
  BY <1>5 DEF CountPace, used
<1>6. ASSUME framerate_mode' = "constant", ~wait_until_frame_time_elapsed',
             ~paused'
      PROVE  /\ pc' = "sleep" => wake' >= paused_time_offset' + used'
             /\ pc' \in {"top", "decide"} =>
                   now' - paused_time_offset' >= used'
  <2>1. CASE Tick \/ Top \/ Stop \/ Wake \/ UNCHANGED vars
    BY <1>1, <1>4, <1>5, <1>6, <2>1
       DEF IInv, TypeOK, Tick, Top, Stop, Wake, vars, pause
  <2>2. CASE TogglePause
    BY <2>2 DEF TogglePause
  <2>. QED
    BY <2>1, <2>2
<1>. QED
  BY <1>1, <1>2, <1>3, <1>6 DEF CountPace, used

LEMMA CountDecide ==
    ASSUME IInv, CountPace, Sampled, Decide
    PROVE  CountPace' /\ Sampled'
<1>. DEFINE t == now - paused_time_offset
<1>1. /\ t \in 0 .. now /\ this_video_frame_time' = t
      /\ frame_captured' \in BOOLEAN
      /\ ~frame_captured' =>
            /\ pc' = "pause"
            /\ UNCHANGED <<last_capture_seconds,
                          wait_until_frame_time_elapsed>>
      /\ frame_captured' =>
            /\ pc' = "encode" /\ ~paused
            /\ last_capture_seconds' \in t - Frame .. t
            /\ \/ last_capture_seconds' >= last_capture_seconds + Frame
               \/ /\ last_capture_seconds' = t
                  /\ ~wait_until_frame_time_elapsed
  BY DecideFacts
<1>2. /\ pc = "decide"
      /\ UNCHANGED <<framerate_mode, video_pts_counter>>
  BY DEF Decide, pts
<1>3. last_capture_seconds <= t /\ last_capture_seconds \in Int
  BY DEF IInv, TypeOK, Pace, PauseClock
<1>. DEFINE n == video_pts_counter
<1>4. n \in Nat /\ Counted = n
  BY <1>2 DEF IInv, TypeOK, Counted
<1>5. CASE ~frame_captured'
  BY <1>1, <1>2, <1>3, <1>4, <1>5 DEF CountPace, Sampled, Counted
<1>6. CASE frame_captured'
  <2>1. Counted' = n + 1 /\ pc' = "encode"
    BY <1>1, <1>2, <1>6 DEF Counted
  <2>2. Sampled'
    BY <1>1, <1>6 DEF Sampled
  <2>3. ASSUME framerate_mode = "constant"
        PROVE  last_capture_seconds' >= (n - 1) * Frame
    <3>1. (n - 2) * Frame <= last_capture_seconds
      BY <1>4, <2>3 DEF CountPace
    <3>2. (n - 1) * Frame = (n - 2) * Frame + Frame
      BY <1>4
    <3>3. CASE last_capture_seconds' >= last_capture_seconds + Frame
      <4>. DEFINE a == (n - 2) * Frame
      <4>. DEFINE b == (n - 1) * Frame
      <4>1. a \in Int /\ b = a + Frame /\ a <= last_capture_seconds
        BY <1>4, <3>1, <3>2
      <4>. HIDE DEF a, b
      <4>. QED
        BY <1>1, <1>3, <1>6, <3>3, <4>1 DEF b
    <3>4. CASE last_capture_seconds' = t /\ ~wait_until_frame_time_elapsed
      BY <1>1, <1>2, <1>4, <1>6, <2>3, <3>4 DEF CountPace
    <3>. QED
      BY <1>1, <1>6, <3>3, <3>4
  <2>. QED
    BY <1>2, <1>4, <2>1, <2>2, <2>3 DEF CountPace
<1>. QED
  BY <1>1, <1>5, <1>6

LEMMA CountEncode ==
    ASSUME IInv, CountPace, Sampled, Encode
    PROVE  CountPace' /\ Sampled'
<1>1. /\ pc = "encode" /\ pc' = "pause"
      /\ UNCHANGED <<framerate_mode, this_video_frame_time,
                    last_capture_seconds>>
      /\ video_pts_counter' = video_pts_counter + Copies
  BY DEF Encode
<1>2. Sampled'
  BY <1>1 DEF Sampled
<1>3. ASSUME framerate_mode = "constant"
      PROVE  (video_pts_counter' - 2) * Frame <= last_capture_seconds
  <2>. DEFINE n == video_pts_counter
  <2>. DEFINE e == ExpectedFrames(this_video_frame_time)
  <2>1. n \in Nat /\ e \in Int /\ this_video_frame_time \in Nat
          /\ last_capture_seconds \in Int
    BY ExpectedFramesType DEF IInv, TypeOK
  <2>2. video_pts_counter' = n + 1 \/ video_pts_counter' = e
    BY <1>1, <1>3, <2>1 DEF Copies, Larger
  <2>3. CASE video_pts_counter' = n + 1
    BY <1>1, <1>3, <2>1, <2>3 DEF CountPace, Counted
  <2>4. CASE video_pts_counter' = e
    <3>1. 2 * e * Frame <= 2 * this_video_frame_time + Frame
      BY <2>1, ExpectedFramesBounds
    <3>2. this_video_frame_time - Frame <= last_capture_seconds
      BY <1>1 DEF Sampled
    <3>3. (e - 2) * Frame = e * Frame - 2 * Frame
      BY <2>1
    <3>. DEFINE a == e * Frame
    <3>4. a \in Int /\ 2 * a <= 2 * this_video_frame_time + Frame
      BY <2>1, <3>1
    <3>. HIDE DEF a
    <3>5. a - 2 * Frame <= last_capture_seconds
      BY <2>1, <3>2, <3>4
    <3>. QED
      BY <2>4, <3>3, <3>5 DEF a
  <2>. QED
    BY <2>2, <2>3, <2>4
<1>. QED
  BY <1>1, <1>2, <1>3 DEF CountPace, Counted

LEMMA CountEnd ==
    ASSUME IInv, CountPace, Sampled, EndOfTurn
    PROVE  CountPace' /\ Sampled'
<1>1. /\ pc = "end" /\ pc' = "sleep"
      /\ UNCHANGED <<framerate_mode, now, this_video_frame_time,
                    last_capture_seconds, video_pts_counter, paused,
                    paused_time_offset>>
  BY DEF EndOfTurn, pause, pts
<1>2. Sampled'
  BY <1>1 DEF Sampled
<1>. DEFINE n == video_pts_counter
<1>3. n \in Nat /\ Counted = n /\ Counted' = n
  BY <1>1 DEF IInv, TypeOK, Counted
<1>4. ASSUME framerate_mode = "constant", ~wait_until_frame_time_elapsed',
             ~paused
      PROVE  wake' >= paused_time_offset + (n - 1) * Frame
  <2>. DEFINE t == now - paused_time_offset
  <2>. DEFINE q == t \div Frame
  <2>1. t \in Nat /\ last_capture_seconds <= t
          /\ last_capture_seconds \in Int
    BY <1>4 DEF IInv, TypeOK, PauseClock, Pace
  <2>2. (n - 2) * Frame <= t
    <3>. DEFINE a == (n - 2) * Frame
    <3>1. a \in Int /\ a <= last_capture_seconds
      BY <1>3, <1>4 DEF CountPace
    <3>. HIDE DEF a, t
    <3>2. a <= t
      BY <2>1, <3>1
    <3>. QED
      BY <3>2 DEF a
  <2>3. n - 2 <= q /\ q \in Nat
    BY <1>3, <2>1, <2>2, FramesFit, FrameOfTime
  <2>4. wake' = now + ((q + 1) * Frame - t)
    BY <1>4 DEF EndOfTurn, IInv, TypeOK
  <2>. HIDE DEF q
  <2>5. (n - 1) * Frame <= (q + 1) * Frame
    BY <1>3, <2>3
  <2>. DEFINE next == (q + 1) * Frame
  <2>. DEFINE used == (n - 1) * Frame
  <2>6. next \in Int /\ used \in Int /\ used <= next
    BY <1>3, <2>3, <2>5
  <2>7. now \in Int /\ paused_time_offset \in Int
    BY DEF IInv, TypeOK
  <2>8. wake' = now + (next - t)
    BY <2>4
  <2>. HIDE DEF next, used
  <2>9. wake' >= paused_time_offset + used
    BY <2>6, <2>7, <2>8
  <2>. QED
    BY <2>9 DEF used
<1>. QED
  BY <1>1, <1>2, <1>3, <1>4 DEF CountPace

LEMMA CountStep ==
    IInv /\ CountPace /\ Sampled /\ [Next]_vars => CountPace' /\ Sampled'
BY CountOther, CountDecide, CountEncode, CountEnd DEF Next

(* Constant mode never has more than two frames too many, and leaves no    *)
(* time out and takes no paused time in.                                   *)
THEOREM PacingVideoInStep == Spec => []VideoInStep
<1>1. ASSUME IInv, CountPace, Sampled PROVE ConstantNotAhead
  <2>. DEFINE n == video_pts_counter
  <2>. DEFINE t == this_video_frame_time
  <2>1. n \in Nat /\ t \in Nat /\ last_capture_seconds \in Int
    BY <1>1 DEF IInv, TypeOK
  <2>2. ASSUME framerate_mode = "constant", pc \in {"pause", "end", "sleep"}
        PROVE  Lead <= 2
    <3>1. (n - 2) * Frame <= last_capture_seconds
      <4>1. Counted = n
        BY <2>1, <2>2 DEF Counted
      <4>. QED
        BY <1>1, <2>2, <4>1 DEF CountPace
    <3>2. last_capture_seconds <= t
      BY <1>1, <2>2 DEF Sampled
    <3>3. (n - 2) * Frame <= t
      <4>. DEFINE a == (n - 2) * Frame
      <4>1. a \in Int /\ a <= last_capture_seconds
        BY <2>1, <3>1
      <4>. HIDE DEF a
      <4>2. a <= t
        BY <2>1, <3>2, <4>1
      <4>. QED
        BY <4>2 DEF a
    <3>4. n - 2 <= t \div Frame
      BY <2>1, <3>3, FramesFit
    <3>5. t \div Frame <= ExpectedFrames(t) /\ ExpectedFrames(t) \in Int
            /\ t \div Frame \in Int
      BY <2>1, ExpectedFramesBounds, ExpectedFramesType, FrameOfTime
    <3>. QED
      BY <2>1, <3>4, <3>5 DEF Lead
  <2>. QED
    BY <2>2 DEF ConstantNotAhead
<1>2. IInv => ConstantKeepsUp
  BY DEF IInv
<1>. QED
  BY <1>1, <1>2, InitInvariant, Invariant, CountInit, CountStep,
     PacingNoFrameFromTheFuture, PTL DEF Spec, VideoInStep
=============================================================================
