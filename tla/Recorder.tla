------------------------------ MODULE Recorder ------------------------------
(***************************************************************************)
(* The threads of main.cpp once recording has started: the main loop       *)
(* (capture, pause, replay saving, shutdown), one thread per audio device, *)
(* the amix thread that encodes the tracks merging several devices, the    *)
(* std::async task that writes a replay, and the signals that steer them.  *)
(*                                                                         *)
(* Two mutexes: audio_filter_mutex (filter) and write_output_mutex (out).  *)
(* A frame given to an encoder yields at most one packet; draining them is *)
(* receive_frames, which takes write_output_mutex once per packet.  What   *)
(* the replay deque and the saved file hold is module ReplayBuffer's.      *)
(***************************************************************************)
EXTENDS Naturals, FiniteSets

CONSTANTS
    Devices,      \* the audio devices, one thread each
    Merged,       \* the devices of tracks with a filter graph (amix)
    Replay,       \* TRUE: replay mode (-r), FALSE: record to the output file
    Patient,      \* TRUE: the user sends SIGUSR2 only when the last one took
                  \* effect; FALSE: when its message has been printed
    MaxMissing,   \* bound: silent frames one device iteration inserts
    MaxQueued,    \* bound: frames told apart in the filter graph's sink
    MaxSaves,     \* bound: SIGUSR1s sent in one behaviour
    MaxPauses     \* bound: SIGUSR2s sent in one behaviour

CONSTANTS Main, Amix, Nobody      \* the other threads; no thread

ASSUME RecorderAssumption ==
    /\ Merged \subseteq Devices
    /\ {Main, Amix} \cap Devices = {}
    /\ Main # Amix
    /\ Nobody \notin Devices \cup {Main, Amix}
    /\ Replay \in BOOLEAN /\ Patient \in BOOLEAN
    /\ {MaxMissing, MaxQueued, MaxSaves, MaxPauses} \subseteq Nat

(* The amix thread exists only when some track merges devices.             *)
Mixer == IF Merged = {} THEN {} ELSE {Amix}

Threads == Devices \cup Mixer \cup {Main}

VARIABLES
    running, save_replay, toggle_pause,   \* set by the signal handlers
    paused,
    announced,    \* the pause state last printed to the user
    filter,       \* holder of audio_filter_mutex
    out,          \* holder of write_output_mutex
    pc,           \* per thread, the next thing it does
    back,         \* per thread, where it goes after receive_frames
    packets,      \* per thread, packets ready in the encoder it drains
    missing,      \* per device, silent frames left to insert
    got,          \* per device, whether the read returned a chunk
    queued,       \* frames in the filter graph's sink
    output,       \* the recording's file: "open", then "closed"
    saver,        \* save_replay_thread
    copy,         \* number of the save save_replay_packets belongs to, or 0
    path,         \* number of the save the output path belongs to
    streams,      \* number of the save audio_track.stream belongs to, or 0
    saves, pauses,    \* SIGUSR1s and SIGUSR2s sent so far
    attempts,     \* saves begun so far
    unserved,     \* history: a SIGUSR1 no later save has answered
    wanted,       \* history: the pause state the user has asked for
    printed       \* history: numbers of the saves whose path was printed

signals == <<running, save_replay, toggle_pause, saves, pauses, unserved,
             wanted>>
locks == <<filter, out>>
devs == <<missing, got, queued>>
replays == <<saver, copy, path, streams, attempts, printed>>

vars == <<running, save_replay, toggle_pause, paused, announced, filter, out,
          pc, back, packets, missing, got, queued, output, saver, copy, path,
          streams, saves, pauses, attempts, unserved, wanted, printed>>

Init ==
    /\ running = TRUE
    /\ save_replay = FALSE /\ toggle_pause = FALSE
    /\ paused = FALSE /\ announced = FALSE
    /\ filter = Nobody /\ out = Nobody
    /\ pc = [t \in Threads |-> "check"]
    /\ back = [t \in Threads |-> "check"]
    /\ packets = [t \in Threads |-> 0]
    /\ missing = [d \in Devices |-> 0]
    /\ got = [d \in Devices |-> FALSE]
    /\ queued = 0
    /\ output = "open"
    /\ saver = "none" /\ copy = 0 /\ path = 0 /\ streams = 0
    /\ saves = 0 /\ pauses = 0 /\ attempts = 0
    /\ unserved = FALSE /\ wanted = FALSE
    /\ printed = {}

Goto(t, label) == pc' = [pc EXCEPT ![t] = label]

-----------------------------------------------------------------------------
(* Signals.                                                                *)

Sigint ==
    /\ running
    /\ running' = FALSE
    /\ UNCHANGED <<save_replay, toggle_pause, paused, announced, locks, pc,
                   back, packets, devs, output, replays, saves, pauses,
                   unserved, wanted>>

Sigusr1 ==
    /\ saves < MaxSaves
    /\ pc[Main] # "done"
    /\ save_replay' = TRUE
    /\ saves' = saves + 1
    /\ unserved' = TRUE
    /\ UNCHANGED <<running, toggle_pause, paused, announced, locks, pc, back,
                   packets, devs, output, replays, pauses, wanted>>

(* The user waits for the previous request before toggling again.          *)
Sigusr2 ==
    /\ pauses < MaxPauses
    /\ pc[Main] # "done"
    /\ IF Patient THEN paused = wanted ELSE announced = wanted
    /\ toggle_pause' = TRUE
    /\ pauses' = pauses + 1
    /\ wanted' = ~wanted
    /\ UNCHANGED <<running, save_replay, paused, announced, locks, pc, back,
                   packets, devs, output, replays, saves, unserved>>

-----------------------------------------------------------------------------
(* avcodec_send_frame and receive_frames, run by any thread: the encoder   *)
(* has zero or one packet ready, and each is written with                  *)
(* write_output_mutex held.                                                *)

Send(t, return) ==
    /\ packets' \in {[packets EXCEPT ![t] = n] : n \in 0 .. 1}
    /\ back' = [back EXCEPT ![t] = return]
    /\ Goto(t, "drain")

Drained(t) ==
    /\ pc[t] = "drain"
    /\ packets[t] = 0
    /\ Goto(t, back[t])
    /\ UNCHANGED <<signals, paused, announced, locks, back, packets, devs,
                   output, replays>>

(* Mutant: a packet is written though none is ready.                       *)
LockOutUnready(t) ==
    /\ pc[t] = "drain"
    /\ out = Nobody
    /\ out' = t
    /\ Goto(t, "write")
    /\ UNCHANGED <<signals, paused, announced, filter, back, packets, devs,
                   output, replays>>

LockOut(t) ==
    /\ pc[t] = "drain"
    /\ packets[t] > 0
    /\ out = Nobody
    /\ out' = t
    /\ Goto(t, "write")
    /\ UNCHANGED <<signals, paused, announced, filter, back, packets, devs,
                   output, replays>>

(* av_write_frame, or push_back into the replay deque.                     *)
Write(t) ==
    /\ pc[t] = "write"
    /\ out' = Nobody
    /\ packets' = [packets EXCEPT ![t] = @ - 1]
    /\ Goto(t, "drain")
    /\ UNCHANGED <<signals, paused, announced, filter, back, devs, output,
                   replays>>

ReceiveFrames(t) == Drained(t) \/ LockOut(t) \/ Write(t)

-----------------------------------------------------------------------------
(* The thread of audio device d.                                           *)

(* Mutant: the thread does not look at running.                            *)
DeviceCheckForever(d) ==
    /\ pc[d] = "check"
    /\ Goto(d, "read")
    /\ UNCHANGED <<signals, paused, announced, locks, back, packets, devs,
                   output, replays>>

DeviceCheck(d) ==
    /\ pc[d] = "check"
    /\ Goto(d, IF running THEN "read" ELSE "exit")
    /\ UNCHANGED <<signals, paused, announced, locks, back, packets, devs,
                   output, replays>>

(* sound_device_read_next_chunk returns a chunk or times out, the number   *)
(* of silent frames is computed, and everything is dropped while paused.   *)
DeviceRead(d) ==
    /\ pc[d] = "read"
    /\ IF paused
       THEN /\ Goto(d, "check")
            /\ UNCHANGED <<missing, got>>
       ELSE \E chunk \in BOOLEAN, silent \in 0 .. MaxMissing :
              /\ got' = [got EXCEPT ![d] = chunk]
              /\ missing' = [missing EXCEPT ![d] = silent]
              /\ Goto(d, IF silent > 0 THEN "lock" ELSE "chunk")
    /\ UNCHANGED <<signals, paused, announced, locks, back, packets, queued,
                   output, replays>>

(* av_frame_make_writable fails: the thread gives up.                      *)
DeviceFails(d) ==
    /\ pc[d] = "read"
    /\ ~paused
    /\ Goto(d, "exit")
    /\ UNCHANGED <<signals, paused, announced, locks, back, packets, devs,
                   output, replays>>

(* Mutant: the filter graph is used without its mutex.                     *)
EnterGraph(t, from, to) ==
    /\ pc[t] = from
    /\ filter' = t
    /\ Goto(t, to)
    /\ UNCHANGED <<signals, paused, announced, out, back, packets, devs,
                   output, replays>>

LockFilter(t, from, to) ==
    /\ pc[t] = from
    /\ filter = Nobody
    /\ filter' = t
    /\ Goto(t, to)
    /\ UNCHANGED <<signals, paused, announced, out, back, packets, devs,
                   output, replays>>

Unlock(mutex) == mutex' = Nobody

(* av_buffersrc_write_frame: the sink may get a mixed frame out of it.     *)
ToGraph ==
    queued' \in {queued, IF queued < MaxQueued THEN queued + 1 ELSE MaxQueued}

(* The loop over the missing frames, all under audio_filter_mutex.         *)
InsertSilence(d) ==
    /\ pc[d] = "silence"
    /\ \/ /\ missing[d] = 0
          /\ Unlock(filter)
          /\ Goto(d, "chunk")
          /\ UNCHANGED <<back, packets, missing, queued>>
       \/ /\ missing[d] > 0
          /\ missing' = [missing EXCEPT ![d] = @ - 1]
          /\ UNCHANGED filter
          /\ IF d \in Merged
             THEN /\ ToGraph
                  /\ UNCHANGED <<pc, back, packets>>
             ELSE /\ Send(d, "silence")
                  /\ UNCHANGED queued
    /\ UNCHANGED <<signals, paused, announced, out, got, output, replays>>

(* The chunk that was read, if any: only a merged track's needs the mutex. *)
EncodeChunk(d) ==
    /\ pc[d] = "chunk"
    /\ \/ /\ ~got[d]
          /\ Goto(d, "check")
          /\ UNCHANGED <<back, packets, queued, filter>>
       \/ /\ got[d] /\ d \notin Merged
          /\ Send(d, "check")
          /\ UNCHANGED <<queued, filter>>
       \/ /\ got[d] /\ d \in Merged
          /\ filter = Nobody
          /\ filter' = d
          /\ Goto(d, "graph")
          /\ UNCHANGED <<back, packets, queued>>
    /\ UNCHANGED <<signals, paused, announced, out, missing, got, output,
                   replays>>

(* av_buffersrc_write_frame of the chunk.                                  *)
AddToGraph(d) ==
    /\ pc[d] = "graph"
    /\ ToGraph
    /\ Unlock(filter)
    /\ Goto(d, "check")
    /\ UNCHANGED <<signals, paused, announced, out, back, packets, missing,
                   got, output, replays>>

Device(d) ==
    \/ DeviceCheck(d)
    \/ DeviceRead(d)
    \/ DeviceFails(d)
    \/ LockFilter(d, "lock", "silence")
    \/ InsertSilence(d)
    \/ EncodeChunk(d)
    \/ AddToGraph(d)
    \/ ReceiveFrames(d)

-----------------------------------------------------------------------------
(* The amix thread.                                                        *)

AmixCheck ==
    /\ pc[Amix] = "check"
    /\ Goto(Amix, IF running THEN "lock" ELSE "exit")
    /\ UNCHANGED <<signals, paused, announced, locks, back, packets, devs,
                   output, replays>>

(* Take the frames the graph has ready, encoding each; unlock when none.   *)
AmixTake ==
    /\ pc[Amix] = "sink"
    /\ \/ /\ queued > 0
          /\ queued' = queued - 1
          /\ Send(Amix, "sink")
          /\ UNCHANGED filter
       \/ /\ queued = 0
          /\ Unlock(filter)
          /\ Goto(Amix, "check")
          /\ UNCHANGED <<back, packets, queued>>
    /\ UNCHANGED <<signals, paused, announced, out, missing, got, output,
                   replays>>

Mix ==
    \/ AmixCheck
    \/ LockFilter(Amix, "lock", "sink")
    \/ AmixTake
    \/ ReceiveFrames(Amix)
-----------------------------------------------------------------------------
(* The main loop.                                                          *)

(* Top of the loop: stopped, or the capture says to stop, or a turn that   *)
(* captures a frame (never while paused) or does not.                      *)
MainPoll ==
    /\ pc[Main] = "check"
    /\ \/ /\ ~running
          /\ Goto(Main, "stopping")
          /\ UNCHANGED <<running, back, packets>>
       \/ /\ running
          /\ running' = FALSE
          /\ Goto(Main, "stopping")
          /\ UNCHANGED <<back, packets>>
       \/ /\ running /\ ~paused
          /\ Send(Main, "pause")
          /\ UNCHANGED running
       \/ /\ running
          /\ Goto(Main, "pause")
          /\ UNCHANGED <<running, back, packets>>
    /\ UNCHANGED <<save_replay, toggle_pause, saves, pauses, unserved, wanted,
                   paused, announced, locks, devs, output, replays>>

(* toggle_pause is seen and the message printed...                         *)
MainPause ==
    /\ pc[Main] = "pause"
    /\ IF toggle_pause
       THEN /\ announced' = ~paused
            /\ Goto(Main, "toggle")
       ELSE /\ Goto(Main, "collect")
            /\ UNCHANGED announced
    /\ UNCHANGED <<signals, paused, locks, back, packets, devs, output,
                   replays>>

(* Mutant: the second SIGUSR2 does not unpause.                            *)
MainOnlyPauses ==
    /\ pc[Main] = "toggle"
    /\ toggle_pause' = FALSE
    /\ paused' = TRUE
    /\ Goto(Main, "collect")
    /\ UNCHANGED <<running, save_replay, saves, pauses, unserved, wanted,
                   announced, locks, back, packets, devs, output, replays>>

(* ...then the flag is cleared and the state flipped.                      *)
MainToggle ==
    /\ pc[Main] = "toggle"
    /\ toggle_pause' = FALSE
    /\ paused' = ~paused
    /\ Goto(Main, "collect")
    /\ UNCHANGED <<running, save_replay, saves, pauses, unserved, wanted,
                   announced, locks, back, packets, devs, output, replays>>

(* The future is ready: print the path and drop the copied packets, with   *)
(* write_output_mutex held.                                                *)
CollectSave ==
    /\ out = Nobody
    /\ saver' = "none"
    /\ printed' = printed \cup {path}
    /\ copy' = 0
    /\ UNCHANGED <<path, streams, attempts>>

MainCollect ==
    /\ pc[Main] = "collect"
    /\ IF saver = "ready"
       THEN CollectSave
       ELSE UNCHANGED replays
    /\ Goto(Main, "save")
    /\ UNCHANGED <<signals, paused, announced, locks, back, packets, devs,
                   output>>

(* Mutant: a running save does not keep the next one waiting.              *)
MainSaveAnyway ==
    /\ pc[Main] = "save"
    /\ IF save_replay /\ Replay
       THEN /\ save_replay' = FALSE
            /\ Goto(Main, "snapshot")
       ELSE /\ Goto(Main, "check")
            /\ UNCHANGED save_replay
    /\ UNCHANGED <<running, toggle_pause, saves, pauses, unserved, wanted,
                   paused, announced, locks, back, packets, devs, output,
                   replays>>

(* Mutant: the request is cleared even if a save is running.               *)
MainSaveForgets ==
    /\ pc[Main] = "save"
    /\ save_replay' = FALSE
    /\ Goto(Main, IF save_replay /\ saver = "none" /\ Replay
                  THEN "snapshot" ELSE "check")
    /\ UNCHANGED <<running, toggle_pause, saves, pauses, unserved, wanted,
                   paused, announced, locks, back, packets, devs, output,
                   replays>>

(* A requested save begins unless one is running; the request is cleared   *)
(* before save_replay_async looks at the deque.                            *)
MainSave ==
    /\ pc[Main] = "save"
    /\ IF save_replay /\ saver = "none" /\ Replay
       THEN /\ save_replay' = FALSE
            /\ Goto(Main, "snapshot")
       ELSE /\ Goto(Main, "check")
            /\ UNCHANGED save_replay
    /\ UNCHANGED <<running, toggle_pause, saves, pauses, unserved, wanted,
                   paused, announced, locks, back, packets, devs, output,
                   replays>>

(* save_replay_async: the packets are copied (or there is no key frame).   *)
MainSnapshot ==
    /\ pc[Main] = "snapshot"
    /\ out = Nobody
    /\ attempts' = attempts + 1
    /\ unserved' = FALSE
    /\ \/ /\ copy' = attempts'
          /\ Goto(Main, "open")
       \/ /\ Goto(Main, "check")
          /\ UNCHANGED copy
    /\ UNCHANGED <<running, save_replay, toggle_pause, saves, pauses, wanted,
                   paused, announced, locks, back, packets, devs, output,
                   saver, path, streams, printed>>

(* The path and the tracks' streams are set; the task starts unless the    *)
(* file cannot be opened or its header written.                            *)
MainOpen ==
    /\ pc[Main] = "open"
    /\ path' = attempts
    /\ streams' = attempts
    /\ saver' \in {"none", "running"}
    /\ Goto(Main, "check")
    /\ UNCHANGED <<signals, paused, announced, locks, back, packets, devs,
                   output, copy, attempts, printed>>

(* The task: packets, trailer, close, then the tracks' streams are reset.  *)
SaverTask ==
    /\ saver = "running"
    /\ saver' = "ready"
    /\ streams' = 0
    /\ UNCHANGED <<signals, paused, announced, locks, pc, back, packets, devs,
                   output, copy, path, attempts, printed>>

-----------------------------------------------------------------------------
(* Shutdown.                                                               *)

(* running = 0; a running save is waited for and collected.                *)
MainStopping ==
    /\ pc[Main] = "stopping"
    /\ saver # "running"
    /\ IF saver = "ready" THEN CollectSave ELSE UNCHANGED replays
    /\ running' = FALSE
    /\ Goto(Main, "join")
    /\ UNCHANGED <<save_replay, toggle_pause, saves, pauses, unserved, wanted,
                   paused, announced, locks, back, packets, devs, output>>

(* The device threads are joined, then the amix thread.                    *)
MainJoin ==
    /\ pc[Main] = "join"
    /\ \A t \in Threads \ {Main} : pc[t] = "exit"
    /\ Goto(Main, "trailer")
    /\ UNCHANGED <<signals, paused, announced, locks, back, packets, devs,
                   output, replays>>

(* The recording gets its trailer and is closed; the process exits.        *)
MainTrailer ==
    /\ pc[Main] = "trailer"
    /\ output' = IF Replay THEN output ELSE "closed"
    /\ Goto(Main, "done")
    /\ UNCHANGED <<signals, paused, announced, locks, back, packets, devs,
                   replays>>

MainLoop ==
    \/ MainPoll
    \/ MainPause
    \/ MainToggle
    \/ MainCollect
    \/ MainSave
    \/ MainSnapshot
    \/ MainOpen
    \/ MainStopping
    \/ MainJoin
    \/ MainTrailer
    \/ ReceiveFrames(Main)

Terminated == pc[Main] = "done" /\ UNCHANGED vars

Next ==
    \/ Sigint \/ Sigusr1 \/ Sigusr2
    \/ MainLoop
    \/ \E d \in Devices : Device(d)
    \/ Merged # {} /\ Mix
    \/ SaverTask
    \/ Terminated

Spec == Init /\ [][Next]_vars

(* Every thread keeps running, and one that waits for a mutex that is free *)
(* again and again gets it in the end.  The signals are the user's choice. *)
Fairness ==
    /\ WF_vars(MainLoop) /\ SF_vars(MainSnapshot) /\ SF_vars(LockOut(Main))
    /\ SF_vars(MainCollect)
    /\ WF_vars(SaverTask)
    /\ \A d \in Devices :
          /\ WF_vars(Device(d))
          /\ SF_vars(LockOut(d))
    /\ WF_vars(Merged # {} /\ Mix)

FairSpec == Spec /\ Fairness

-----------------------------------------------------------------------------
(* Properties.                                                             *)

TypeOK ==
    /\ {running, save_replay, toggle_pause, paused, announced, unserved,
        wanted} \subseteq BOOLEAN
    /\ {filter, out} \subseteq Threads \cup {Nobody}
    /\ pc \in [Threads -> {"check", "read", "lock", "silence", "chunk",
          "graph", "sink", "drain", "write", "pause", "toggle", "collect",
          "save", "snapshot", "open", "stopping", "join", "trailer", "exit",
          "done"}]
    /\ back \in [Threads -> {"check", "silence", "sink", "pause"}]
    /\ packets \in [Threads -> 0 .. 1]
    /\ missing \in [Devices -> 0 .. MaxMissing]
    /\ got \in [Devices -> BOOLEAN]
    /\ queued \in 0 .. MaxQueued
    /\ output \in {"open", "closed"}
    /\ saver \in {"none", "running", "ready"}
    /\ {copy, path, streams, attempts} \subseteq Nat
    /\ saves \in 0 .. MaxSaves /\ pauses \in 0 .. MaxPauses
    /\ printed \subseteq Nat

(* A thread inside the filter graph or its own drain under the mutex.      *)
InGraph(t) ==
    \/ pc[t] \in {"silence", "graph", "sink"}
    \/ pc[t] \in {"drain", "write"} /\ back[t] \in {"silence", "sink"}

(* The filter graph is used by one thread at a time, although frames are   *)
(* encoded and written in the middle of a use, and the output (muxer or    *)
(* deque) as well; nobody writes once the trailer has been written, and no *)
(* thread of a recorder that is gone still uses either.                    *)
ExclusiveUse ==
    /\ \A t, u \in Threads :
          t # u => /\ ~(InGraph(t) /\ InGraph(u))
                   /\ ~(pc[t] = "write" /\ pc[u] = "write")
    /\ output = "closed" \/ pc[Main] = "done" =>
          \A t \in Threads : ~InGraph(t) /\ pc[t] # "write"

(* While the task runs, the globals it reads without a lock - the copied   *)
(* packets, the tracks' streams - and the path that will be printed are    *)
(* all those of the save it belongs to, the latest one.                    *)
SaverOwnsItsInputs ==
    saver = "running" =>
        copy = attempts /\ streams = attempts /\ path = attempts

(* A path is printed once its file is complete and only for saves that     *)
(* were really begun: at most one per SIGUSR1.                             *)
PrintedOncePerRequest ==
    /\ Cardinality(printed) <= saves
    /\ printed \subseteq 1 .. attempts
    /\ saver # "none" => path \notin printed

(* Both: two saves never mix, in what they write or in what is announced.  *)
SavesDoNotMix == SaverOwnsItsInputs /\ PrintedOncePerRequest

(* After the recorder is told to stop it does: the threads leave their     *)
(* loops, a running save is waited for, and no two of them wait for each   *)
(* other.                                                                  *)
StopTerminates == ~running ~> pc[Main] = "done"

(* A SIGUSR1 is never lost: sooner or later a save begins after it, even   *)
(* when it arrives while another save is running, unless recording stops.  *)
RequestIsServed == Replay /\ unserved ~> ~unserved \/ ~running

(* Whatever the user asked for last with SIGUSR2 is what happens.          *)
PauseFollowsUser == paused # wanted ~> paused = wanted \/ ~running

(* All of it: what a signal asks for happens, be it a save, a pause or the *)
(* end, whatever the recorder is at.                                       *)
SignalsAreServed == RequestIsServed /\ PauseFollowsUser /\ StopTerminates
=============================================================================
