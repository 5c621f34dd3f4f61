---------------------------- MODULE ReplayBuffer ----------------------------
(***************************************************************************)
(* The instant-replay buffer of main.cpp: the deque of encoded packets     *)
(* that receive_frames fills and trims (under write_output_mutex), the     *)
(* snapshot save_replay_async takes of it, and the std::async task that    *)
(* writes the snapshot to a file while packets keep arriving.              *)
(*                                                                         *)
(* Video packets are produced by the main thread, so none arrives while    *)
(* that thread is inside save_replay_async; the packets of every audio     *)
(* track are produced by other threads and arrive at any time.             *)
(* frames_erased is passed to save_replay_async by value, so it is read    *)
(* before the mutex is taken: RequestSave and Snapshot are two steps.      *)
(*                                                                         *)
(* The age at which a packet drops an older one is measured on a clock     *)
(* that leaves out pauses, but only once they are over: the offset grows   *)
(* when the recording is unpaused, and a thread gives receive_frames the   *)
(* offset it read when it made the call.                                   *)
(***************************************************************************)
EXTENDS Integers, Sequences, FiniteSets

CONSTANTS
    Video,          \* stream index of the video
    AudioStreams,   \* stream indices of the audio tracks
    BufferSecs,     \* replay_buffer_size_secs, in clock ticks
    MaxNow,         \* bound: the clock stops here
    MaxPackets      \* bound: packets produced in one behaviour

ASSUME ReplayAssumption ==
    /\ Video \notin AudioStreams
    /\ BufferSecs \in Nat
    /\ MaxNow \in Nat
    /\ MaxPackets \in Nat

Streams == AudioStreams \cup {Video}

(* An AVPacket: its stream, AV_PKT_FLAG_KEY and its pts.                   *)
Packet == [stream : Streams, key : BOOLEAN, pts : 0 .. MaxPackets]

(* A packet as written: shifting may have moved its pts below zero.        *)
WrittenPacket ==
    [stream : Streams, key : BOOLEAN, pts : -MaxPackets .. MaxPackets]

VARIABLES
    now,           \* clock_get_monotonic_seconds() - record_start_time
    nextPts,       \* per stream, the pts its next frame gets
    queue,         \* frame_data_queue
    frames_erased,
    main,          \* where the main thread is in save_replay_async
    erasedArg,     \* the value frames_erased was passed by
    save,          \* save_replay_packets and what the task captured
    saver,         \* save_replay_thread: no future, running, or ready
    file,          \* the packets written to the latest file
    pushed,        \* history: every packet ever queued
    paused,
    paused_time_start,
    paused_time_offset,
    offsetArg,     \* per audio track, the offset its thread last passed
    recorded,      \* history: the ticks that passed while not paused
    early          \* history: packets queued in the first BufferSecs ticks
                   \* of the clock, and of what was recorded

pauseVars ==
    <<paused, paused_time_start, paused_time_offset, offsetArg, recorded>>

vars == <<now, nextPts, queue, frames_erased, main, erasedArg, save, saver,
          file, pushed, pauseVars, early>>

NoSave == [packets |-> <<>>, start |-> 1, videoOffset |-> 0,
           audioOffset |-> 0, last |-> 0, erased |-> FALSE]

Init ==
    /\ now = 0
    /\ nextPts = [s \in Streams |-> 0]
    /\ queue = <<>>
    /\ frames_erased = FALSE
    /\ main = "loop"
    /\ erasedArg = FALSE
    /\ save = NoSave
    /\ saver = "none"
    /\ file = <<>>
    /\ pushed = <<>>
    /\ paused = FALSE
    /\ paused_time_start = 0
    /\ paused_time_offset = 0
    /\ offsetArg = [s \in AudioStreams |-> 0]
    /\ recorded = 0
    /\ early = [clock |-> 0, recorded |-> 0]

Tick ==
    /\ now < MaxNow
    /\ now' = now + 1
    /\ recorded' = recorded + (IF paused THEN 0 ELSE 1)
    /\ UNCHANGED <<nextPts, queue, frames_erased, main, erasedArg, save,
                   saver, file, pushed, paused, paused_time_start,
                   paused_time_offset, offsetArg, early>>

(* Mutant: a pause that does not take the time it starts at.               *)
PauseUnstamped ==
    /\ main = "loop"
    /\ ~paused
    /\ paused' = TRUE
    /\ UNCHANGED <<now, nextPts, queue, frames_erased, main, erasedArg, save,
                   saver, file, pushed, paused_time_start,
                   paused_time_offset, offsetArg, recorded, early>>

(* The main loop handles toggle_pause.                                     *)
Pause ==
    /\ main = "loop"
    /\ ~paused
    /\ paused' = TRUE
    /\ paused_time_start' = now
    /\ UNCHANGED <<now, nextPts, queue, frames_erased, main, erasedArg, save,
                   saver, file, pushed, paused_time_offset, offsetArg,
                   recorded, early>>

Unpause ==
    /\ main = "loop"
    /\ paused
    /\ paused' = FALSE
    /\ paused_time_offset' = paused_time_offset + (now - paused_time_start)
    /\ UNCHANGED <<now, nextPts, queue, frames_erased, main, erasedArg, save,
                   saver, file, pushed, paused_time_start, offsetArg,
                   recorded, early>>

(* An audio thread calls receive_frames: it has seen that the recording    *)
(* is not paused, or feeds from a merged track and does not look, and a    *)
(* pause may begin or end before its packet is queued.                     *)
ReceiveFrames(s) ==
    /\ offsetArg' = [offsetArg EXCEPT ![s] = paused_time_offset]
    /\ UNCHANGED <<now, nextPts, queue, frames_erased, main, erasedArg, save,
                   saver, file, pushed, paused, paused_time_start,
                   paused_time_offset, recorded, early>>

-----------------------------------------------------------------------------
(* receive_frames in replay mode.                                          *)

(* Mutant: a buffer that trims one tick too late.                          *)
TrimmedLate(q, elapsed) == IF elapsed > BufferSecs THEN Tail(q) ELSE q

(* Push back, then drop one packet from the front once the buffer time has *)
(* passed.                                                                 *)
Trimmed(q, elapsed) == IF elapsed >= BufferSecs THEN Tail(q) ELSE q

(* The clock of the deque at the call: clock - paused_time_offset.         *)
Elapsed(s) ==
    now - (IF s = Video THEN paused_time_offset ELSE offsetArg[s])

(* 1 for a packet queued at time t if that is within the buffer time.      *)
Within(t) == IF t < BufferSecs THEN 1 ELSE 0

(* One packet leaves the encoder of stream s and is queued.  The encoders  *)
(* make the first video packet a key frame.  Video is captured only while  *)
(* not paused, and the main thread passes the offset as it is.             *)
Push(s, key) ==
    LET packet == [stream |-> s, key |-> key, pts |-> nextPts[s]]
    IN  /\ Len(pushed) < MaxPackets
        /\ s = Video => main = "loop" /\ ~paused
        /\ s # Video => ~key
        /\ s = Video /\ nextPts[s] = 0 => key
        /\ queue' = Trimmed(Append(queue, packet), Elapsed(s))
        /\ frames_erased' = (frames_erased \/ Elapsed(s) >= BufferSecs)
        /\ pushed' = Append(pushed, packet)
        /\ nextPts' = [nextPts EXCEPT ![s] = @ + 1]
        /\ early' = [clock |-> early.clock + Within(now),
                     recorded |-> early.recorded + Within(recorded)]
        /\ UNCHANGED <<now, main, erasedArg, save, saver, file, pauseVars>>

-----------------------------------------------------------------------------
(* save_replay_async, called by the main thread.                           *)

IsKeyFrame(p) == p.key /\ p.stream = Video

KeyFrames(q) == {i \in DOMAIN q : IsKeyFrame(q[i])}

First(S) == CHOOSE i \in S : \A j \in S : i <= j

(* Mutant: no audio packet, and the offset keeps its initial value.        *)
AudioOffsetUnset(q, start) ==
    LET audio == {i \in start .. Len(q) : q[i].stream # Video}
    IN  IF audio = {} THEN -1 ELSE q[First(audio)].pts

(* The pts of the first audio packet at or after index start, or 0.        *)
AudioOffset(q, start) ==
    LET audio == {i \in start .. Len(q) : q[i].stream # Video}
    IN  IF audio = {} THEN 0 ELSE q[First(audio)].pts

(* Mutant: a save that does not look for a key frame.                      *)
CutAtOldest(q, erased) ==
    [start |-> 1, videoOffset |-> q[1].pts, audioOffset |-> AudioOffset(q, 1)]

(* Where the file starts and what is subtracted from its timestamps.       *)
Cut(q, erased) ==
    IF erased
    THEN LET start == First(KeyFrames(q))
         IN  [start |-> start, videoOffset |-> q[start].pts,
              audioOffset |-> AudioOffset(q, start)]
    ELSE [start |-> 1, videoOffset |-> 0, audioOffset |-> 0]

(* Mutant: save_replay_async does not check for a running save.            *)
RequestWhileSaving ==
    /\ main = "loop"
    /\ main' = "calling"
    /\ erasedArg' = frames_erased
    /\ UNCHANGED <<now, nextPts, queue, frames_erased, save, saver, file,
                   pushed, pauseVars, early>>

(* The main loop found save_replay set; a save that is still running keeps *)
(* the request waiting.                                                    *)
RequestSave ==
    /\ main = "loop"
    /\ saver = "none"
    /\ main' = "calling"
    /\ erasedArg' = frames_erased
    /\ UNCHANGED <<now, nextPts, queue, frames_erased, save, saver, file,
                   pushed, pauseVars, early>>

(* The locked part: nothing to save without a key frame, else copy.        *)
Snapshot ==
    /\ main = "calling"
    /\ IF KeyFrames(queue) = {}
       THEN /\ main' = "loop"
            /\ UNCHANGED save
       ELSE LET cut == Cut(queue, erasedArg)
            IN  /\ main' = "opening"
                /\ save' = [packets |-> queue, start |-> cut.start,
                            videoOffset |-> cut.videoOffset,
                            audioOffset |-> cut.audioOffset,
                            last |-> Len(pushed),
                            erased |-> Len(queue) < Len(pushed)]
    /\ UNCHANGED <<now, nextPts, queue, frames_erased, erasedArg, saver,
                   file, pushed, pauseVars, early>>

(* avio_open and the header succeed and the task starts.                   *)
OpenFile ==
    /\ main = "opening"
    /\ main' = "loop"
    /\ saver' = "writing"
    /\ file' = <<>>
    /\ UNCHANGED <<now, nextPts, queue, frames_erased, erasedArg, save,
                   pushed, pauseVars, early>>

(* One of them fails: an error is printed and the request is over; the     *)
(* copied packets stay referenced until the next save.                     *)
OpenFails ==
    /\ main = "opening"
    /\ main' = "loop"
    /\ UNCHANGED <<now, nextPts, queue, frames_erased, erasedArg, save,
                   saver, file, pushed, pauseVars, early>>

-----------------------------------------------------------------------------
(* The std::async task.                                                    *)

Offset(s) == IF s = Video THEN save.videoOffset ELSE save.audioOffset

Shifted(p) == [p EXCEPT !.pts = @ - Offset(p.stream)]

(* The index of the packet the task writes next.                           *)
Cursor == save.start + Len(file)

WritePacket ==
    /\ saver = "writing"
    /\ Cursor <= Len(save.packets)
    /\ file' = Append(file, Shifted(save.packets[Cursor]))
    /\ UNCHANGED <<now, nextPts, queue, frames_erased, main, erasedArg, save,
                   saver, pushed, pauseVars, early>>

(* Trailer written, file closed: the future becomes ready.                 *)
FinishFile ==
    /\ saver = "writing"
    /\ Cursor > Len(save.packets)
    /\ saver' = "ready"
    /\ UNCHANGED <<now, nextPts, queue, frames_erased, main, erasedArg, save,
                   file, pushed, pauseVars, early>>

(* The main loop sees the future ready, gets it and drops the copy.        *)
Collect ==
    /\ main = "loop"
    /\ saver = "ready"
    /\ saver' = "none"
    /\ save' = [save EXCEPT !.packets = <<>>]
    /\ UNCHANGED <<now, nextPts, queue, frames_erased, main, erasedArg, file,
                   pushed, pauseVars, early>>

Next ==
    \/ Tick
    \/ Pause
    \/ Unpause
    \/ \E s \in AudioStreams : ReceiveFrames(s)
    \/ \E s \in Streams, key \in BOOLEAN : Push(s, key)
    \/ RequestSave
    \/ Snapshot
    \/ OpenFile
    \/ OpenFails
    \/ WritePacket
    \/ FinishFile
    \/ Collect

Spec == Init /\ [][Next]_vars
-----------------------------------------------------------------------------
(* Properties.                                                             *)

(* Every variable keeps to its values.                                     *)
TypeOK ==
    /\ now \in 0 .. MaxNow
    /\ nextPts \in [Streams -> 0 .. MaxPackets]
    /\ queue \in Seq(Packet)
    /\ frames_erased \in BOOLEAN
    /\ main \in {"loop", "calling", "opening"}
    /\ erasedArg \in BOOLEAN
    /\ save \in [packets : Seq(Packet), start : Nat \ {0},
                 videoOffset : 0 .. MaxPackets, audioOffset : 0 .. MaxPackets,
                 last : Nat, erased : BOOLEAN]
    /\ saver \in {"none", "writing", "ready"}
    /\ file \in Seq(WrittenPacket)
    /\ pushed \in Seq(Packet)
    /\ paused \in BOOLEAN
    /\ paused_time_start \in 0 .. MaxNow
    /\ paused_time_offset \in 0 .. MaxNow
    /\ offsetArg \in [AudioStreams -> 0 .. MaxNow]
    /\ recorded \in 0 .. MaxNow
    /\ early \in [clock : Nat, recorded : Nat]

(* The deque holds the newest packets, in the order they were produced,    *)
(* with none missing in between.                                           *)
QueueIsNewest ==
    /\ Len(queue) <= Len(pushed)
    /\ \A i \in DOMAIN queue : queue[i] = pushed[Len(pushed) - Len(queue) + i]

(* frames_erased says exactly whether a packet has ever been dropped: it   *)
(* is what decides if a save must look for a key frame to start at.        *)
ErasedIffForgotten == frames_erased <=> Len(queue) < Len(pushed)

(* How many packets the buffer holds is decided in the first BufferSecs    *)
(* seconds of recording and never changes afterwards.  The deque keeps     *)
(* room for all that was queued in the first BufferSecs seconds, pauses    *)
(* counted, and for nothing queued after BufferSecs seconds of recording,  *)
(* pauses left out.  In between, which packets grow it depends on when the *)
(* offset was read: while a pause lasts its time counts, afterwards not,   *)
(* so a buffer that had begun to drop may grow again.                      *)
CapacityIsPreroll ==
    /\ early.clock <= Len(queue)
    /\ Len(queue) <= early.recorded

(* In the file every stream's timestamps increase, although the streams    *)
(* were shifted by different offsets.                                      *)
FileTimestampsIncrease ==
    \A i, j \in DOMAIN file :
        i < j /\ file[i].stream = file[j].stream => file[i].pts < file[j].pts

(* The shift leaves no timestamp before the start of the file.  It holds   *)
(* with one audio track: the offset of all audio tracks is the pts of the  *)
(* first audio packet, which may be ahead of another track's.              *)
FileTimestampsNotNegative == \A i \in DOMAIN file : file[i].pts >= 0

(* The first video packet of a saved file is a key frame: a decoder can    *)
(* start there, whatever was dropped before or while the save was asked    *)
(* for.                                                                    *)
VideoStartsAtKeyFrame ==
    LET video == {i \in DOMAIN file : file[i].stream = Video}
    IN  video # {} => file[First(video)].key

(* A file plays from its start: no timestamp is before zero, and it begins *)
(* with a key frame whenever frames_erased, as it was passed, was still    *)
(* right when the deque was copied: dropping packets never costs a file    *)
(* its leading key frame except through that one race.                     *)
PlayableFile ==
    /\ FileTimestampsNotNegative
    /\ saver = "writing" /\ (save.erased => erasedArg) => VideoStartsAtKeyFrame

-----------------------------------------------------------------------------
(* The buffer implements the replay service: the log is everything pushed, *)
(* the packets kept are the deque, and the file being written, its         *)
(* timestamps shifted back, is an unbroken run of the log that ends where  *)
(* the log ended when the snapshot was taken, however many packets are     *)
(* queued or dropped while the task writes.                                *)
Position == save.last - Len(save.packets) + save.start

Job ==
    CASE main = "opening"   -> [state |-> "promised", from |-> Position,
                                to |-> save.last]
      [] saver = "writing"  -> [state |-> "writing", from |-> Position,
                                to |-> save.last]
      [] OTHER              -> [state |-> "idle", from |-> 0, to |-> 0]

OpenedFile ==
    IF saver = "writing"
    THEN [i \in 1 .. Len(file) |->
            [file[i] EXCEPT !.pts = @ + Offset(file[i].stream)]]
    ELSE <<>>

Service == INSTANCE ReplayService WITH
    Packets <- Packet, log <- pushed, kept <- Len(pushed) - Len(queue) + 1,
    job <- Job, file <- OpenedFile

ImplementsService == Service!Spec

-----------------------------------------------------------------------------
(* The inductive invariant behind the theorems of ReplayBuffer_proofs.     *)

(* Every packet took its stream's next pts, so pts count the packets.      *)
PtsBounded ==
    /\ Len(pushed) <= MaxPackets
    /\ \A s \in Streams : nextPts[s] <= Len(pushed)

PushedInOrder ==
    /\ \A i \in DOMAIN pushed : pushed[i].pts < nextPts[pushed[i].stream]
    /\ \A i, j \in DOMAIN pushed :
          i < j /\ pushed[i].stream = pushed[j].stream =>
              pushed[i].pts < pushed[j].pts

(* The main thread is in save_replay_async only while no task runs.        *)
OneSave == main # "loop" => saver = "none"

(* From the snapshot until the future is ready the copy is the run of the  *)
(* log that ended with its newest packet then, and it starts inside it.    *)
SnapshotIsRun ==
    main = "opening" \/ saver = "writing" =>
        /\ save.start <= Len(save.packets)
        /\ Len(save.packets) <= save.last
        /\ save.last <= Len(pushed)
        /\ \A i \in DOMAIN save.packets :
              save.packets[i] = pushed[save.last - Len(save.packets) + i]

(* The file holds the copy from its start, shifted, as far as written.     *)
FileIsPrefix ==
    saver = "writing" =>
        /\ Cursor <= Len(save.packets) + 1
        /\ \A i \in DOMAIN file :
              file[i] = Shifted(save.packets[save.start + i - 1])

(* The offset and the pause under way are what was not recorded, and no    *)
(* thread passes more than the offset.                                     *)
RecordedIsUnpaused ==
    /\ paused => paused_time_start <= now
    /\ recorded = (IF paused THEN paused_time_start ELSE now)
                    - paused_time_offset
    /\ \A s \in AudioStreams : offsetArg[s] <= paused_time_offset

IInv ==
    /\ TypeOK
    /\ RecordedIsUnpaused
    /\ PtsBounded
    /\ PushedInOrder
    /\ QueueIsNewest
    /\ ErasedIffForgotten
    /\ OneSave
    /\ SnapshotIsRun
    /\ FileIsPrefix
    /\ FileTimestampsIncrease
=============================================================================
