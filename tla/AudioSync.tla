------------------------------ MODULE AudioSync ------------------------------
(***************************************************************************)
(* How an audio device thread of main.cpp keeps its track as long as the   *)
(* recording: it counts the frames it has encoded, compares the count with *)
(* the recording's clock, and encodes silence for what is missing.  The    *)
(* clock excludes pauses, through paused and paused_time_offset, which the *)
(* main thread writes and this thread reads without synchronisation.       *)
(*                                                                         *)
(* An audio frame lasts Frame ticks (timeout_sec); the nap of a thread     *)
(* without a device is a frame rounded to milliseconds (timeout_ms), Nap   *)
(* ticks, which is not the same.  The sound server records a chunk in the  *)
(* time of a frame and hands it over when it likes.                        *)
(***************************************************************************)
EXTENDS Integers

CONSTANTS
    Devices,      \* subset of BOOLEAN: does the track have a sound device, or
                  \* is it filled with silence?
    OnTime,       \* TRUE: the server hands over each chunk at once
    Prompt,       \* TRUE: the thread is never kept from running for a tick
    Frame,        \* timeout_sec, in ticks
    Nap,          \* timeout_ms, in ticks
    MaxNow,       \* bound: the clock stops here
    MaxToggles    \* bound: pauses and unpauses

ASSUME AudioAssumption ==
    /\ Devices \subseteq BOOLEAN
    /\ {OnTime, Prompt} \subseteq BOOLEAN
    /\ Frame \in Nat \ {0}
    /\ Nap \in Nat \ {0}
    /\ Frame <= 2 * Nap
    /\ MaxNow \in Nat
    /\ MaxToggles \in Nat

VARIABLES
    handle,                \* sound_device.handle is not NULL; never changes
    phase,                 \* of the first chunk, ticks recorded before now = 0
    now,                   \* clock - record_start_time
    paused, paused_time_start, paused_time_offset,
    toggling,              \* the main thread added the pause to the offset
                           \* but has not flipped paused yet
    toggles,
    active,                \* history: ticks not spent paused
    recorded,              \* chunks the server has and we have not
    backlog,               \* chunks handed over and not read
    pc,
    deadline,              \* when the read or the nap gives up
    got_audio_data,
    this_audio_frame_time,
    num_received_frames    \* audio frames encoded

device == <<handle, phase>>
mainVars ==
    <<paused, paused_time_start, paused_time_offset, toggling, toggles>>
server == <<recorded, backlog>>
thread == <<pc, deadline, got_audio_data, this_audio_frame_time,
            num_received_frames>>

vars == <<device, now, active, mainVars, server, thread>>

Init ==
    /\ handle \in Devices
    /\ phase \in IF handle THEN 0 .. Frame - 1 ELSE {0}
    /\ now = 0
    /\ paused = FALSE /\ paused_time_start = 0 /\ paused_time_offset = 0
    /\ toggling = FALSE /\ toggles = 0
    /\ active = 0
    /\ recorded = 0 /\ backlog = 0
    /\ pc = "loop"
    /\ deadline = 0
    /\ got_audio_data = FALSE
    /\ this_audio_frame_time = 0
    /\ num_received_frames = 0

(* Waiting in the read or the nap with nothing to return for.              *)
Waiting ==
    /\ pc \in {"reading", "nap"}
    /\ now < deadline
    /\ pc = "reading" => backlog = 0

(* The chunks the server has recorded by time t.                           *)
Chunks(t) == IF handle THEN (t + phase) \div Frame ELSE 0

Tick ==
    /\ now < MaxNow
    /\ Prompt => Waiting
    /\ OnTime => recorded = 0
    /\ now' = now + 1
    /\ active' = IF paused /\ ~toggling THEN active ELSE active + 1
    /\ recorded' = recorded + (Chunks(now + 1) - Chunks(now))
    /\ UNCHANGED <<device, mainVars, backlog, thread>>

(* The server hands over what it has recorded.                             *)
HandOver ==
    /\ recorded > 0
    /\ backlog' = backlog + recorded
    /\ recorded' = 0
    /\ UNCHANGED <<device, now, active, mainVars, thread>>

-----------------------------------------------------------------------------
(* The main thread handles SIGUSR2.                                        *)

Pause ==
    /\ ~paused
    /\ toggles < MaxToggles
    /\ toggles' = toggles + 1
    /\ paused' = TRUE
    /\ paused_time_start' = now
    /\ UNCHANGED <<device, now, active, paused_time_offset, toggling, server,
                   thread>>

(* Mutant: the difference is taken the wrong way round.                    *)
PauseReversed == paused_time_start - now

PauseLength == now - paused_time_start

AddPause ==
    /\ paused /\ ~toggling
    /\ toggles < MaxToggles
    /\ toggles' = toggles + 1
    /\ toggling' = TRUE
    /\ paused_time_offset' = paused_time_offset + PauseLength
    /\ UNCHANGED <<device, now, active, paused, paused_time_start, server,
                   thread>>

Unpause ==
    /\ toggling
    /\ toggling' = FALSE
    /\ paused' = FALSE
    /\ UNCHANGED <<device, now, active, paused_time_start, paused_time_offset,
                   toggles, server, thread>>

-----------------------------------------------------------------------------
(* The audio device thread.                                                *)

(* running was cleared: the thread ends.                                   *)
Stop ==
    /\ pc = "loop"
    /\ pc' = "exit"
    /\ UNCHANGED <<device, now, active, mainVars, server, deadline,
                   got_audio_data, this_audio_frame_time, num_received_frames>>

(* sound_device_read_next_chunk is called with a timeout of two frames;    *)
(* without a device there is nothing to read.                              *)
BeginRead ==
    /\ pc = "loop"
    /\ IF handle
       THEN /\ pc' = "reading"
            /\ deadline' = now + 2 * Frame
            /\ UNCHANGED got_audio_data
       ELSE /\ pc' = "time"
            /\ got_audio_data' = FALSE
            /\ UNCHANGED deadline
    /\ UNCHANGED <<device, now, active, mainVars, server,
                   this_audio_frame_time, num_received_frames>>

ReadReturns ==
    /\ pc = "reading"
    /\ \/ /\ backlog > 0
          /\ backlog' = backlog - 1
          /\ got_audio_data' = TRUE
       \/ /\ backlog = 0
          /\ now >= deadline
          /\ got_audio_data' = FALSE
          /\ UNCHANGED backlog
    /\ pc' = "time"
    /\ UNCHANGED <<device, now, active, mainVars, recorded, deadline,
                   this_audio_frame_time, num_received_frames>>

ReadClock ==
    /\ pc = "time"
    /\ this_audio_frame_time' = now - paused_time_offset
    /\ pc' = "gate"
    /\ UNCHANGED <<device, now, active, mainVars, server, deadline,
                   got_audio_data, num_received_frames>>

(* Mutant: the sleep is forgotten.                                         *)
NextTurnAtOnce == pc' = "loop" /\ UNCHANGED deadline

(* Without a device the thread naps before the next turn.                  *)
NextTurn ==
    IF handle
    THEN pc' = "loop" /\ UNCHANGED deadline
    ELSE pc' = "nap" /\ deadline' = now + Nap

(* While paused what was read is dropped.                                  *)
DropWhilePaused ==
    /\ pc = "gate"
    /\ paused
    /\ NextTurn
    /\ UNCHANGED <<device, now, active, mainVars, server, got_audio_data,
                   this_audio_frame_time, num_received_frames>>

Larger(x, y) == IF x > y THEN x ELSE y

Smaller(x, y) == IF x < y THEN x ELSE y

(* num_expected_frames: a time in frames, to the nearest (std::round).     *)
ExpectedFrames(t) == (2 * t + Frame) \div (2 * Frame)

Behind ==
    Larger(0, ExpectedFrames(this_audio_frame_time) - num_received_frames)

(* Mutant: the chunk that was read is not counted.                         *)
MissingBesidesChunk ==
    IF handle THEN Behind ELSE Larger(1, Behind)

(* The silent frames this iteration finds missing.                         *)
NumMissing ==
    LET beyondChunk == IF got_audio_data THEN Larger(0, Behind - 1) ELSE Behind
    IN  IF handle THEN beyondChunk ELSE Larger(1, beyondChunk)

(* Small gaps are left alone as long as no data arrives.                   *)
InsertSilence ==
    \/ NumMissing >= 1 /\ got_audio_data
    \/ NumMissing >= 5
    \/ ~handle

Encode ==
    /\ pc = "gate"
    /\ ~paused
    /\ num_received_frames' =
         num_received_frames + (IF InsertSilence THEN NumMissing ELSE 0)
                             + (IF got_audio_data THEN 1 ELSE 0)
    /\ NextTurn
    /\ UNCHANGED <<device, now, active, mainVars, server, got_audio_data,
                   this_audio_frame_time>>

EndNap ==
    /\ pc = "nap"
    /\ now >= deadline
    /\ pc' = "loop"
    /\ UNCHANGED <<device, now, active, mainVars, server, deadline,
                   got_audio_data, this_audio_frame_time, num_received_frames>>

Next ==
    \/ Tick
    \/ HandOver
    \/ Pause
    \/ AddPause
    \/ Unpause
    \/ Stop
    \/ BeginRead
    \/ ReadReturns
    \/ ReadClock
    \/ DropWhilePaused
    \/ Encode
    \/ EndNap

Spec == Init /\ [][Next]_vars

-----------------------------------------------------------------------------
(* Properties.                                                             *)

TypeOK ==
    /\ handle \in Devices
    /\ now \in 0 .. MaxNow
    /\ paused \in BOOLEAN /\ toggling \in BOOLEAN
    /\ got_audio_data \in BOOLEAN
    /\ paused_time_start \in 0 .. now
    /\ paused_time_offset \in 0 .. now
    /\ toggles \in 0 .. MaxToggles
    /\ active \in 0 .. now
    /\ phase \in 0 .. Frame - 1
    /\ recorded \in Nat /\ backlog \in Nat
    /\ pc \in {"loop", "reading", "time", "gate", "nap", "exit"}
    /\ deadline \in Nat
    /\ this_audio_frame_time \in 0 .. now
    /\ num_received_frames \in Nat

(* The length of the track, in half ticks.                                 *)
Length2(n) == n * (2 * Frame)

(* An iteration that was not paused leaves the track at most half a frame  *)
(* short of the time it read, or four frames and a half if no chunk came,  *)
(* and silence takes it at most half a frame past that time: beyond it     *)
(* grows by the one frame in hand or, without a device, made; however late *)
(* the chunks or the thread are and whatever pauses there were.            *)
TrackFollowsClock ==
    [][Encode =>
        /\ Length2(num_received_frames' + IF got_audio_data THEN 0 ELSE 4)
             >= 2 * this_audio_frame_time - Frame
        /\ \/ num_received_frames' <= num_received_frames
                  + IF got_audio_data \/ ~handle THEN 1 ELSE 0
           \/ Length2(num_received_frames')
                  <= 2 * this_audio_frame_time + Frame]_vars

(* Chunks that come after silence was put in their place are encoded all   *)
(* the same, but only once each: with those still to come the track is at  *)
(* most twice as long as the time, rounded to frames.  Without a device    *)
(* silence is all there is, a frame at a time once it is ahead of the      *)
(* clock: it is at most as long as if each nap were a frame, so where a    *)
(* frame is rounded down the track drifts ahead by what is lost each time, *)
(* and no faster.                                                          *)
NeverTwiceAsLong ==
    IF handle
    THEN num_received_frames + recorded + backlog
           <= ExpectedFrames(now) + Chunks(now)
    ELSE num_received_frames * Smaller(Frame, Nap) <= now + Nap

(* Frames are produced at the same rate as the video: the track is never   *)
(* more than two frames longer than the recording.                         *)
AudioInStep == num_received_frames * Frame <= active + 2 * Frame
=============================================================================
