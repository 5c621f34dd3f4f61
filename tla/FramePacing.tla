----------------------------- MODULE FramePacing -----------------------------
(***************************************************************************)
(* When the main loop of main.cpp captures a frame, which timestamps the   *)
(* frame gets and how many copies of it are encoded, in the three frame    *)
(* rate modes, with pauses.  Time is counted in ticks, Frame of them to a  *)
(* frame (target_fps); it may pass between any two steps, so a turn of the *)
(* loop, a capture or a sleep can take arbitrarily long.  record_start_time*)
(* is 0.                                                                   *)
(***************************************************************************)
EXTENDS Integers

CONSTANTS
    Modes,        \* framerate_mode: "constant", "variable" or "content"
    Frame,        \* target_fps, the duration of a frame, in ticks
    MaxNow,       \* bound: the clock stops here
    MaxPauses     \* bound: SIGUSR2s handled in one behaviour

ASSUME PacingAssumption ==
    /\ Modes \subseteq {"constant", "variable", "content"}
    /\ Frame \in Nat \ {0}
    /\ MaxNow \in Nat
    /\ MaxPauses \in Nat

VARIABLES
    framerate_mode,                  \* chosen with -fm, never changes
    now,                             \* clock_get_monotonic_seconds()
    pc,
    frame_start,
    this_video_frame_time,
    last_capture_seconds,
    wait_until_frame_time_elapsed,
    frame_captured,
    wake,                            \* when the sleep ends
    paused, paused_time_start, paused_time_offset,
    pauses,                          \* SIGUSR2s handled
    active,                          \* history: ticks not spent paused
    video_pts_counter,
    video_prev_pts,                  \* variable and content modes
    captures,                        \* history: frames captured
    last_pts,                        \* history: pts last encoded, or -1
    backwards                        \* history: a pts was not the largest

pause == <<paused, paused_time_start, paused_time_offset, pauses>>
pts == <<video_pts_counter, video_prev_pts, captures, last_pts, backwards>>

vars == <<framerate_mode, now, pc, frame_start, this_video_frame_time,
          last_capture_seconds, wait_until_frame_time_elapsed, frame_captured,
          wake, pause, active, pts>>

Init ==
    /\ framerate_mode \in Modes
    /\ now = 0
    /\ pc = "top"
    /\ frame_start = 0
    /\ this_video_frame_time = 0
    /\ last_capture_seconds = 0
    /\ wait_until_frame_time_elapsed = FALSE
    /\ frame_captured = FALSE
    /\ wake = 0
    /\ paused = FALSE /\ paused_time_start = 0 /\ paused_time_offset = 0
    /\ pauses = 0
    /\ active = 0
    /\ video_pts_counter = 0 /\ video_prev_pts = 0
    /\ captures = 0
    /\ last_pts = -1
    /\ backwards = FALSE

Tick ==
    /\ now < MaxNow
    /\ now' = now + 1
    /\ active' = IF paused THEN active ELSE active + 1
    /\ UNCHANGED <<framerate_mode, pc, frame_start, this_video_frame_time,
                   last_capture_seconds, wait_until_frame_time_elapsed,
                   frame_captured, wake, pause, pts>>

Larger(x, y) == IF x > y THEN x ELSE y
Smaller(x, y) == IF x < y THEN x ELSE y

(* std::round of a non-negative time over the frame duration.              *)
ExpectedFrames(t) == (2 * t + Frame) \div (2 * Frame)

-----------------------------------------------------------------------------
(* A turn begins: events are handled and the time is read.                 *)
Top ==
    /\ pc = "top"
    /\ frame_start' = now
    /\ pc' = "decide"
    /\ UNCHANGED <<framerate_mode, now, this_video_frame_time,
                   last_capture_seconds, wait_until_frame_time_elapsed,
                   frame_captured, wake, pause, active, pts>>

(* running was cleared, or the capture asks to stop: the loop is left.     *)
Stop ==
    /\ pc = "top"
    /\ pc' = "stopped"
    /\ UNCHANGED <<framerate_mode, now, frame_start, this_video_frame_time,
                   last_capture_seconds, wait_until_frame_time_elapsed,
                   frame_captured, wake, pause, active, pts>>

Overflow(t) == t - last_capture_seconds - Frame

(* Mutant: every damaged turn captures.                                    *)
CapturesUnpaced(t, damaged) == damaged /\ ~paused

(* Is a frame captured at time t?  Only content mode looks at the damage.  *)
Captures(t, damaged) ==
    LET timeout == Overflow(t) >= 0
        force == /\ framerate_mode # "content"
                 /\ wait_until_frame_time_elapsed /\ timeout
        allow == IF framerate_mode = "content"
                 THEN timeout
                 ELSE ~wait_until_frame_time_elapsed \/ timeout
    IN  (damaged \/ force) /\ allow /\ ~paused

Decide ==
    LET t == now - paused_time_offset
    IN  /\ pc = "decide"
        /\ this_video_frame_time' = t
        /\ \E damaged \in BOOLEAN :
             /\ framerate_mode # "content" => damaged
             /\ frame_captured' = Captures(t, damaged)
        /\ IF frame_captured'
           THEN /\ last_capture_seconds' =
                     t - Smaller(Larger(0, Overflow(t)), Frame)
                /\ wait_until_frame_time_elapsed' = FALSE
                /\ pc' = "encode"
           ELSE /\ pc' = "pause"
                /\ UNCHANGED <<last_capture_seconds,
                               wait_until_frame_time_elapsed>>
        /\ UNCHANGED <<framerate_mode, now, frame_start, wake, pause, active,
                       pts>>

(* Mutant: the frame is added to the missing ones.                         *)
CopiesOneMore ==
    IF framerate_mode = "constant"
    THEN Larger(1, ExpectedFrames(this_video_frame_time) - video_pts_counter
                     + 1)
    ELSE 1

(* How often the captured frame is encoded.                                *)
Copies ==
    IF framerate_mode = "constant"
    THEN Larger(1, ExpectedFrames(this_video_frame_time) - video_pts_counter)
    ELSE 1

(* Mutant: a frame is encoded even if its stamp is the previous one's.     *)
NeverSkipped(stamp) == FALSE

Skipped(stamp) == stamp = video_prev_pts

(* In constant mode the copies fill the gap up to the expected frame; in   *)
(* the other modes the frame is stamped with its time, and skipped if the  *)
(* previous one had the same stamp.                                        *)
Encode ==
    /\ pc = "encode"
    /\ captures' = captures + 1
    /\ video_pts_counter' = video_pts_counter + Copies
    /\ IF framerate_mode = "constant"
       THEN /\ backwards' = (backwards \/ video_pts_counter <= last_pts)
            /\ last_pts' = video_pts_counter' - 1
            /\ UNCHANGED video_prev_pts
       ELSE /\ video_prev_pts' = this_video_frame_time
            /\ IF Skipped(this_video_frame_time)
               THEN UNCHANGED <<last_pts, backwards>>
               ELSE /\ backwards' = (backwards \/ video_prev_pts' <= last_pts)
                    /\ last_pts' = video_prev_pts'
    /\ pc' = "pause"
    /\ UNCHANGED <<framerate_mode, now, frame_start, this_video_frame_time,
                   last_capture_seconds, wait_until_frame_time_elapsed,
                   frame_captured, wake, pause, active>>

(* Mutant: the whole time is taken for the pause.                          *)
PauseOverstated == now

PauseLength == now - paused_time_start

(* toggle_pause is handled at this point of a turn.                        *)
TogglePause ==
    /\ pc = "pause"
    /\ \/ /\ pauses < MaxPauses
          /\ pauses' = pauses + 1
          /\ paused' = ~paused
          /\ IF ~paused
             THEN /\ paused_time_start' = now
                  /\ UNCHANGED paused_time_offset
             ELSE /\ paused_time_offset' =
                       paused_time_offset + PauseLength
                  /\ UNCHANGED paused_time_start
       \/ UNCHANGED pause
    /\ pc' = "end"
    /\ UNCHANGED <<framerate_mode, now, frame_start, this_video_frame_time,
                   last_capture_seconds, wait_until_frame_time_elapsed,
                   frame_captured, wake, active, pts>>

(* After a capture that met its deadline, sleep to the next multiple of    *)
(* the frame time; otherwise for less than a tick, and wait for the frame  *)
(* time to elapse.                                                         *)
EndOfTurn ==
    LET t == now - paused_time_offset
        next == (t \div Frame + 1) * Frame
        missed == now - frame_start > Frame
    IN  /\ pc = "end"
        /\ IF ~missed /\ frame_captured
           THEN /\ wake' = now + (next - t)
                /\ UNCHANGED wait_until_frame_time_elapsed
           ELSE /\ wake' = now
                /\ wait_until_frame_time_elapsed' = TRUE
        /\ pc' = "sleep"
        /\ UNCHANGED <<framerate_mode, now, frame_start,
                       this_video_frame_time, last_capture_seconds,
                       frame_captured, pause, active, pts>>

Wake ==
    /\ pc = "sleep"
    /\ now >= wake
    /\ pc' = "top"
    /\ UNCHANGED <<framerate_mode, now, frame_start, this_video_frame_time,
                   last_capture_seconds, wait_until_frame_time_elapsed,
                   frame_captured, wake, pause, active, pts>>

Next ==
    \/ Tick
    \/ Top
    \/ Stop
    \/ Decide
    \/ Encode
    \/ TogglePause
    \/ EndOfTurn
    \/ Wake

Spec == Init /\ [][Next]_vars

-----------------------------------------------------------------------------
(* Properties.                                                             *)

TypeOK ==
    /\ framerate_mode \in Modes
    /\ now \in 0 .. MaxNow
    /\ pc \in {"top", "decide", "encode", "pause", "end", "sleep", "stopped"}
    /\ {frame_start, this_video_frame_time, paused_time_start,
        paused_time_offset} \subseteq 0 .. now
    /\ last_capture_seconds \in -Frame .. now
    /\ wake \in 0 .. now + Frame
    /\ {wait_until_frame_time_elapsed, frame_captured, paused, backwards}
         \subseteq BOOLEAN
    /\ pauses \in 0 .. MaxPauses
    /\ active \in 0 .. now
    /\ {video_pts_counter, video_prev_pts, captures} \subseteq Nat
    /\ last_pts \in -1 .. video_pts_counter + now

(* Encoded timestamps strictly increase, across pauses, late turns and     *)
(* duplicated frames.                                                      *)
TimestampsIncrease == ~backwards

(* Time spent paused leaves no gap: no frame is ever stamped with a time   *)
(* that the unpaused part of the recording has not reached.                *)
NoFrameFromTheFuture ==
    /\ frame_captured /\ pc \in {"encode", "pause"} =>
          this_video_frame_time <= active
    /\ framerate_mode # "constant" => last_pts <= active

(* Constant mode never falls behind: right after a capture the video is as *)
(* long as the time it covers, however late the turn was...                *)
ConstantKeepsUp ==
    /\ framerate_mode = "constant"
    /\ frame_captured /\ pc \in {"pause", "end", "sleep"}
    => video_pts_counter >= ExpectedFrames(this_video_frame_time)

Lead == video_pts_counter - ExpectedFrames(this_video_frame_time)

(* ...nor does it run ahead by more than two frames.                       *)
ConstantNotAhead ==
    framerate_mode = "constant" /\ pc \in {"pause", "end", "sleep"} =>
        Lead <= 2

(* The video is as long as the unpaused time that its frames cover: no     *)
(* longer for a pause, no shorter for a late turn, no longer for a frame   *)
(* that was copied.                                                        *)
VideoInStep == NoFrameFromTheFuture /\ ConstantKeepsUp /\ ConstantNotAhead

(* -f: frames are captured at the target frame rate at most.               *)
NotAboveFrameRate ==
    captures <= active \div Frame + 1
=============================================================================
