# A specification of gpu-screen-recorder

gpu-screen-recorder records a monitor or a window on Linux with the encoder of
the GPU.  It captures frames (from an X11 window, from the DRM planes of a
monitor, from NvFBC, or from PipeWire through the desktop portal), mixes and
encodes audio, and either writes a file, streams, or keeps the last seconds in
memory and saves them on request ("instant replay").

The arithmetic of a frame is easy to test.  What is hard to test is the rest:
four kinds of threads and an asynchronous task in `src/main.cpp`, signals that
arrive at any time, a clock from which pauses are cut out, damage events that
race with a capture, and peers - a privileged server process, the X server, the
portal, PipeWire, the sound server, the driver - that change, refuse or die in
the middle of anything.  That is what these modules specify.  TLC checks them on small
instances; TLAPS proves every safety property of the passing runs for every
number of devices, packets, frames, planes, nodes and seconds (section 4).

Paths below are relative to the repository; `tlc -config X.cfg M` and
`tlapm M.tla` are run in this directory.


## 1. The system

| part | code | state it keeps | operations |
|---|---|---|---|
| instant replay buffer | `src/main.cpp` 232-296, 1471-1620 | `frame_data_queue`, `frames_erased`, `save_replay_packets`, the `std::future` | receive a packet, drop the oldest, snapshot, write, collect |
| recorder threads | `src/main.cpp` 3861-4320 | `running`, `paused`, the signal flags, two mutexes, encoders, filter graph | a turn of the main loop, of a device thread, of the amix thread; signals; shutdown |
| frame pacing | `src/main.cpp` 4070-4260 | `last_capture_seconds`, `video_pts_counter`, `paused_time_offset`, ... | decide, capture, encode copies, toggle pause, sleep |
| audio synchronisation | `src/main.cpp` 3882-4032 | `num_received_frames`, the clock it compares with | read a chunk or time out, insert silence, encode |
| damage tracking | `src/damage.c`, `src/cursor.c` | `damaged`, cursor position, the server's damage region | event, tick, clear |
| KMS client and server | `kms/client`, `kms/server` | a socket file, a socketpair, descriptors, the child's pid; the server's map from CRTCs to connectors | handshake, request, answer, close, crash |
| KMS capture | `src/capture/kms.c`, `src/utils.c` 191-346 | `monitor_id`, `monitor_rotation`, the planes of a frame | ask for planes, find the monitor again, draw plane and cursor |
| PipeWire audio routing | `src/pipewire_audio.c` | arrays of nodes, ports, links and requested links | registry add and remove, request a link |
| desktop portal session | `src/dbus.c`, `src/capture/portal.c` 78-270 | session, request counter, restore token and its file | four calls, their replies and responses; save the token |
| PipeWire video and portal capture | `src/pipewire_video.c`, `src/capture/portal.c` | format, newest buffer and its descriptors, damage, import fallbacks, textures | stream callbacks; take the buffer over, map, draw, close |
| sound devices | `src/sound.cpp` | connection, fragment peeked, chunk begun | query, connect, read a chunk with a timeout |
| window capture | `src/capture/xcomposite.c`, `src/window_texture.c` | followed window, its size, pixmap and texture, resize timer | events, focus change, renew, capture |
| NvFBC capture | `src/capture/nvfbc.c` | library, handle, session and their flags | set up, grab, recreate after a mode switch |
| start-up: codecs and options | `src/main.cpp` 1649-1693, 2283-2870, 3150-3860 | what was chosen so far | choose, fall back, refuse, create |
| nvenc and overclocking | `src/overclock.c`, `src/xnvctrl.c`, `src/cuda.c`, `src/encoder/video/nvenc.c` | CUDA context, transfer rate offsets | raise at the start, restore at the stop |
| capture interface | `src/capture/capture.c` | the `started` flag | start, tick, capture, destroy |
| window systems, EGL, colour conversion, codec queries, other encoders, utilities | the rest of `src/` | driver handles | mostly calls into drivers |


**How the parts interact.**  The main thread runs the capture: it polls window
system events (they reach damage tracking and the capture), asks whether
anything is damaged, captures, encodes and drains the encoder.  Draining ends in
`receive_frames`, under `write_output_mutex`, which either muxes a packet or
pushes it to the replay deque.  Every audio device has a thread that reads
chunks from PulseAudio or PipeWire and either encodes them itself or, for a
track that merges devices, feeds a filter graph under `audio_filter_mutex`; the
amix thread drains the graph.  A replay is written by a `std::async` task from
a copy of the deque.  Signal handlers only set flags that the main loop reads.
With a KMS capture each frame is a round trip to `gsr-kms-server` over a
socketpair, and the answer carries file descriptors, labelled with the
connector they belong to.  A portal capture first holds a conversation over
D-Bus and then shares a buffer with the PipeWire thread.  A window capture and
the damage tracker live on events of the same X connection.

**What is hard.**  Order of locks and joins at shutdown; the flag that is read
before the lock; the globals the async task reads without a lock; requests that
arrive while the previous one is served; a clock adjusted by one thread and read
by another; one-off errors in counts of missing frames; damage events that are
only sent when the server's region was emptied; processes that die in the middle
of a handshake and sockets whose other end the process holds itself; requests to
the X server between which a window changes; responses that cannot be told
apart; a token that is spent before its successor is saved; sessions that a mode
switch kills.  `hazards`
in `PROJECT.json` lists each at its line, with the properties that cover it.

**What makes each part correct.**

- Replay: the deque is the newest packets without a gap; a file is an unbroken
  run of it, in order, starts at the oldest usable key frame, and does not
  change under the task that writes it.
- Recorder: one thread in the filter graph and one in the muxer at a time; a
  stop ends everything; no save request is lost or answered twice.
- Pacing: timestamps increase and never reflect paused time; constant frame rate
  is constant; the frame rate is not exceeded.
- Audio: a track is as long as the recording, as far as late chunks allow.
- Damage: no change of the content goes unrecorded.
- KMS: no descriptor leaks, answers belong to the request asked, init ends, and
  server and client end with each other.
- KMS capture: no frame shows another monitor than the one that was asked for,
  and after monitors changed the right one is found, with its rotation.
- PipeWire audio: whatever order nodes, ports and requests appear in, the
  requested links get made, and no others.
- Portal session: a response is taken for the request it answers; only a refusal
  makes the start fail; the saved token is worth something.
- PipeWire video: no buffer is drawn as something it is not or left out, and
  every descriptor is closed once.
- Sound: every call returns; chunks are the stream's bytes, each once, in order.
- Window capture: however a window is resized, hidden, shown or exchanged for
  another, the frames show what it shows.
- NvFBC: handles and sessions are not forgotten, and a mode switch is survived.
- Start-up: whatever order the fallbacks are taken in, what is started fits
  container, encoder and session.
- Overclocking: memory never runs above the best level's rate.


## 2. The modules

| module | models | kind |
|---|---|---|
| `ReplayService` | what instant replay promises | abstract specification |
| `ReplayBuffer` | the deque, the snapshot and the task | detailed, implements `ReplayService` |
| `Recorder` | threads, mutexes, signals, shutdown | detailed |
| `FramePacing` | times and timestamps of video frames | detailed |
| `AudioSync` | silence and time in one device thread | detailed |
| `PipewireAudio` | registry events, combined sinks and links | detailed |
| `Damage` | X11 damage and the cursor, with the main loop's use of them | part of `Backends` |
| `Kms` | client and server processes, sockets, descriptors | part of `Backends` |
| `KmsCapture` | which plane the capture of a monitor draws | part of `Backends` |
| `WindowCapture` | capture of a window through the composite extension | part of `Backends` |
| `NvfbcCapture` | NvFBC handle and session, and their recreation | part of `Backends` |
| `NvencOverclock` | overclocking along with the nvenc encoder's life | part of `Backends` |
| `SoundDevice` | PulseAudio queries, connection and reads | part of `Backends` |
| `PortalSession` | the conversation with the desktop portal, run after run | part of `Backends` |
| `PipewireVideo` | the portal's video stream and the capture that draws it | part of `Backends` |
| `Startup` | what main decides before it records | part of `Backends` |
| `Backends` | all of what a recording runs on | composition |
| `MC*` | constants for TLC that a `.cfg` cannot write | instances |
| `ReplayBuffer_proofs`, `Recorder_proofs`, `FramePacing_proofs`, `AudioSync_proofs`, `PipewireAudio_proofs` | theorems about the module each is named after | proofs |
| `Damage_proofs`, `Kms_proofs` | theorems about `Damage`, and about `Kms` and `KmsCapture` | proofs |
| `Backends_proofs` | theorems about the other parts of `Backends`, and about the composition | proofs |

`ReplayBuffer`, `Recorder`, `FramePacing` and `AudioSync` look at the same code
at different grains.  `Recorder` has every thread and lock but only counts
packets; `ReplayBuffer` has the packets and their timestamps, but of the threads
only what matters to it: that the main thread produces no video while it is
inside `save_replay_async`, and that audio arrives at any time.  `FramePacing`
and `AudioSync` each have one thread and the clock.

Names are the code's where TLA+ allows it.  An operator whose comment begins
with "Mutant" is a variation of the definition that follows it, with a plausible
mistake in it.  It is not part of the specification; each shows that some
property really does fail when the code is wrong in that way.

### ReplayBuffer
A packet is a stream, a key frame flag and a timestamp.  `queue` is `frame_data_queue`; `Push` is `receive_frames` in replay
mode including the drop of the oldest packet (main.cpp:264).  A save takes
several steps, as in the code: `RequestSave` evaluates the by-value argument
`frames_erased`, `Snapshot` is the part under the mutex, `OpenFile` or
`OpenFails` is the rest of the call, `WritePacket` and `FinishFile` are the
task, `Collect` is the main loop that finds the future ready.  `pushed` is a
history variable: all packets ever received.

`receive_frames` measures the age of the deque on the clock less
`paused_time_offset` (264), also a by-value argument, and SIGUSR2 pauses in
replay mode too.  `Pause` and `Unpause` are 4208-4220: the offset grows only when
a pause ends.  `ReceiveFrames(s)` is the call of an audio thread, which evaluates
the argument; the packet may be queued long after (`Push`, `Elapsed`), with a
pause begun or ended in between.  The main thread has no such gap.  `recorded` and
`early` are history: the ticks outside pauses, and the packets queued in the
first `BufferSecs` ticks of either clock, between which `CapacityIsPreroll` keeps
the deque.

### Recorder
Each thread has a program counter in `pc`; the labels are the points between
which it can be interrupted with effect.  `Send` leaves zero or one packet in
the encoder, and `ReceiveFrames` drains it, taking `write_output_mutex` once per
packet, also while the thread holds `audio_filter_mutex`.  `MainPoll` to
`MainSave` are the pieces of one turn of the main loop in their order,
`MainStopping` to `MainTrailer` the code after the loop.  `SaverTask` is the
task in one step, since what it does to its file is `ReplayBuffer`'s subject.

### FramePacing
A turn is `Top` (read the time), `Decide` (capture or not), `Encode` (copies and
timestamps), `TogglePause` (at the one place where the code looks at it),
`EndOfTurn` and `Wake`.  `Tick` can happen between any two, so a turn may take
as long as it likes.  Time is integral, with `Frame` ticks to a frame, and
`ExpectedFrames` rounds as `std::round` does.

### AudioSync
A frame lasts `Frame` ticks and the nap of a thread without a device `Nap`
ticks: `timeout_ms` is the frame's length rounded (3911), so for 21.33 ms the
thread naps 21.  `ExpectedFrames` rounds as `std::round` does (3948), half a
frame up.  The server finishes a chunk every `Frame` ticks, the first at any
phase (`Chunks`).  `HandOver` is the sound server, which may hold
chunks back; `BeginRead`/`ReadReturns` is `sound_device_read_next_chunk` with
its timeout of two frames.  `ReadClock` and the test of `paused` (`Encode`,
`DropWhilePaused`) are two steps, and so are the two assignments with which the
main thread ends a pause (`AddPause`, `Unpause`), because nothing synchronises
them.  `TrackFollowsClock` is what one iteration achieves, `NeverTwiceAsLong`
what all of them together cannot exceed, without a device a drift of
`Frame - Nap` for each frame.  `AudioAssumption` asks that rounding to
milliseconds at most halves a frame, which holds for every frame of a
millisecond or more.

### Damage
`region` is the damage the X server holds for the damage object and `event` an
unread event; the server sends an event only when the region stops being empty.
`OnDamageEvent`, `DamageTick`, `ClearDamage` are the functions of `damage.c`,
`SkipFrame` and `Capture` what the main loop does with them.  `screen` numbers
the contents; `frame` is the content and the cursor of the last captured frame.
`SetTargetWindow` is a capture that followed the focus to another window: the
damage object is made anew, and what the old one had reported may still be on
its way (`old_event`).

### Kms
`client` and `server` are the two programs' control points.  The socketpair is
represented by the sets of processes that hold each end, so that "end of file"
means that no other process holds it.  `pid` is `kms_server_pid`.  The
descriptors an answer carries are counted by plane: in the server that exported
them, in the message, in the client.  Looking for an answer (`NoAnswer`) and
asking `waitpid` for the server (`LookAgain`, `GetFails`, `ReplaceFails`) are two
steps: the server may answer, die, or both in between.  Whether a server was started directly
(and inherited both ends of the socketpair) or through pkexec, and which version
it has, is chosen in `KmsInit`.

### KmsCapture
`crtc` and `picture_of` are what the kernel has for each monitor; `c2crtc_map` is
the server's copy of `crtc` from its start, by which `Label` names the plane of a
CRTC, and `cached` what the Wayland compositor has told of the monitors.
`AskForPlanes`, `UpdateConnectorIds` and `DrawPlane` are the parts of
`gsr_capture_kms_capture` between which time passes; `CheckTime` is its two
seconds.  `LookUpRotation` lets the second lookup of
`drm_monitor_get_display_server_rotation`, by type and number, answer with any
monitor's rotation.

### PipewireAudio
The server is external: it adds and removes objects and answers calls, and the
connection to it (`calls`, `events`) keeps the order.  `Dispatch` is one callback
on the PipeWire thread, `CreateSink` to `AddRequest` are the main thread setting
up its tracks.  Both hold the loop's lock for the whole step; `CreateSink` and
`SinkMade` are two because `pw_thread_loop_wait` gives the lock up in between.
`LinksOf` is what `gsr_pipewire_audio_create_link` asks for, from what the arrays
hold.  `alive` and `links` are what the server really has; `old` and `overflow`
are history.

### WindowCapture
`alive`, `pixmap`, `size` and `focused` are the X server's; a window gets a new
pixmap whenever it is mapped or resized.  Every request of the capture is a step
of its own (`window_turn`): attributes, selection of events, naming of the
pixmap.  `texture` is the `WindowTexture` with the pixmap it holds an image of,
which stays valid, and stale, when the window gets another.

### NvfbcCapture
`handles` and `sessions` are what the driver holds for the process whatever the
capture's flags say; `mode` changes with every switch, which kills sessions.  A
turn grabs, or after a failure waits a second (`RetryTime`) and makes handle and
session anew, each of which may fail again.

### NvencOverclock
One life of the encoder: CUDA, `xnvctrl`, levels, raise, context, textures,
running, stop, restore.  `SendRequest` sends the request for all levels, then
those for each, and the driver grants some (`settable`).

### SoundDevice
Each call runs PulseAudio's main loop: `Iterate` is one turn of it, in which any
callback may run, and the connection may fail in any.  Bytes carry numbers
(`Byte`, modulo `Circle`), so that a chunk shows what it is made of; `Circle` is
larger than any two chunks.

### PortalSession
`CallMethod`, `GotReply`, `GotError` and `GotResponse` are the functions of
`dbus.c`, called by `setup_dbus` in its order; the portal answers calls, shows
its dialogs and sends responses at its own pace.  The next run starts with the file the last one
left.

### PipewireVideo
Callbacks are steps of the PipeWire thread; a turn of the main loop polls the
damage, clears it, maps the newest buffer and takes its descriptors over, draws
and closes them (`NextTurn`).  `open` is the set of descriptors that are open,
and a buffer's content is its number read as a format, so that a frame mapped
with a wrong format is a wrong frame.

A buffer may hold no picture (`sent[b] = 0`, a chunk of size 0, as when only
metadata changed).  `OnProcess` is `on_process_cb` when the newest buffer has
one, `OnProcessEmpty` when it has not: the older ones were given back before the
code looks (`passed_over`).  `importer` is what the driver can do with a buffer of
its own format: import it with modifiers, import it without, bind it to the plain
texture; a buffer read as another format does what it likes (`Imports`).  In
`MapTexture` either fallback, once taken, stays, and a buffer of which no image
could be made (`unimported`) leaves the texture as it was although its
descriptors are taken and the call succeeds.

### Startup
Options are nondeterministic; each step is one stretch of `main` with its
refusals (`Exits`), in the order of the code.  `Codecs` may be any set that has
the four codecs the code falls back to by name.

### Backends
A recording has one capture and runs beside one damage tracker, one sound client
and one overclock; the parts share no state but the main thread's turn.  `part`
says which of them a behaviour is about; the others rest in one state.  Their
specifications are checked by one run, and what holds of a part holds whatever
the others do.


## 3. What is checked

### Runs

| run | question | states |
|---|---|---|
| `replay_one_track` | Is every file an ordered, playable run of the packets, does the deque hold what was queued in the first seconds, and does all this implement `ReplayService`? | 3 800 000 |
| `replay_stale_erased_flag` | Does every file start with a key frame? No (below). | |
| `recorder_merged_track` | Two devices merged into one track: is the filter graph, is the output used by one thread at a time?  Does a stop always end every thread and the process? | 110 000 |
| `recorder_replay` | Are saves kept apart, is none lost or announced twice, are pauses followed? | 140 000 |
| `pacing` | Do timestamps increase, is the video as long as the unpaused time, is the frame rate kept, in all three modes? | 5 400 000 |
| `audio_sync` | Is a track filled up to the clock and, by silence, not past it?  How long can late chunks and rounded naps make it? | 7 900 000 |
| `audio_sync_pause_race` | Is a track never longer than the recording? No (below). | |
| `pipewire_audio` | Are the requested links made, and only those, while nodes come and go and an array fills up?  Is what the main thread waits for there? | 290 000 |
| `backends` | For each part of `Backends`: does it do what section 1 says, whatever its peer does? | 370 000 |
| `damage_monitor` | Is every change of a monitor recorded? No (below). | |
| `kms_server_dies` | Does a dead server never leave the client stuck? No (below). | |
| `startup_codec` | Is the encoder that is chosen one there is? No (below). | |

### Properties that say more than one thing
- `PlayableFile`: no negative timestamp, and a leading key frame but for the one
  race shown below.
- `SavesDoNotMix`: `SaverOwnsItsInputs` and `PrintedOncePerRequest`.
- `SignalsAreServed`: `RequestIsServed` (no SIGUSR1 is lost), `PauseFollowsUser`
  (SIGUSR2) and `StopTerminates` (SIGINT) once more, with one device and replays.
- `VideoInStep`: `NoFrameFromTheFuture`, `ConstantKeepsUp`, `ConstantNotAhead`.
- `RequestedLinks`: `RequestsAreLinked` and `OnlyRequestedLinks`;
  `MainWaitsForServer`: `AppsAreListed` and `FirstSinkIsReady`.
- `Backends.TypeOK` joins the parts' type invariants, some of which carry more
  than types: `NvfbcTypeOK` says that the flags are what the driver holds, and
  `VideoTypeOK` that the open descriptors are those in the two arrays.
- `CallsReturn`: `InitReturns` and `GetReturns` of `Kms`, and that every sound
  call, portal start and video start ends.
- `DamageIsShown`: `WindowCatchesUp` and `CursorIsCaptured`.
- `TargetIsFollowed`: `CaptureFollowsWindow` and `CaptureFollowsMonitor`.

### Bounds, and why they are enough
- `replay_one_track`: one audio track, at most 4 packets, 2 seconds of buffer
  and a clock up to 4.  The buffer fills, drops packets one by one, drops a key
  frame, and is saved while it drops; a pause may begin and end before, in or
  after the seconds in which the buffer fills, so that it drops, and grows
  again.  The theorems below do
  without these bounds.
- `recorder_*`: two devices are needed for two threads to meet in the graph, one
  or two of everything else for every lock to be contended.  Two SIGUSR1 let the
  second arrive at every point of the first one's save.  The merged track has two
  devices and the amix thread, which contend for `audio_filter_mutex` while the
  main thread joins them; it checks the stop there, without pauses and saves,
  which the other run has.
- `pacing`: 3 ticks to a frame separate early, late and rounded-up times; 12
  ticks are four frames, and four SIGUSR2 are two whole pauses.
- `audio_sync`: a frame of two ticks can be met at its half, where rounding goes
  up, and naps of one tick are as much too short as the assumption allows.  In 10
  ticks five frames go by, the threshold that makes the thread insert silence
  unasked; three toggles are a whole pause and the beginning of another.  The
  counterexample run has frames of three ticks, naps of two, and a clock up to
  16, for a pause longer than what the property allows.
- `pipewire_audio`: an application and a microphone, one of which comes or goes
  once, and two tracks: one of a device and all applications but one, which
  makes links to both; one of all applications but the one there is, which makes
  none and has a sink to wait for after links were made.  Ports come in every
  order before and after every request.  Eight ports for an array of seven
  fill it; there is room for all nodes.
- `backends`, part by part:
  - damage: two changes (`MaxChanges`) and three moves of the cursor
    (`MaxMoves`), over two places inside the recorded area and one outside.  One
    change is needed to be lost, another to be confused with it; either may be a
    change of the window that is followed.
  - KMS: three planes, three queued requests until `sendmsg` blocks (`Buffer`);
    the real number only delays what happens.  Both ways to start a server, both
    versions, crashes on both sides.
  - monitor: two monitors, two CRTCs and two changes (`MaxMonitorChanges`): off
    and on again, on another's CRTC, rotated or resized in between.
  - window: two windows, two changes (`MaxWindowChanges`): a resize within a
    resize, hidden and shown, the focus away and back.
  - NvFBC: two mode switches and two other faults, so that recreation fails and
    is overtaken by another switch.
  - overclock: three levels (`MaxLevels`) of two rates (`MaxRate`): none, one,
    several best levels, in every order.
  - sound: chunks of 3 bytes and fragments up to 4, so that a fragment may be
    smaller, equal, larger and end in a second chunk; two sources.
  - session: two runs, one late reply, versions 3 and 5 of the interface (below
    and above what restore tokens need).
  - stream: three buffers, each with a picture or without, two formats of one and
    two planes: a buffer replaced before it was taken, given back for an empty
    one, not imported, a format changed between two buffers.
  - start-up: one codec of each kind that some rule distinguishes, and every
    kind of container.

Where deadlock is not checked (`CHECK_DEADLOCK FALSE`) the system may really
stop: the clock of the time-bounded modules reaches its bound, and in `Backends`
processes end, starts fail and peers may be done.  `Recorder` has an explicit
`Terminated` step, so TLC does look for deadlocks there.

### Fairness
- `Recorder`: every thread keeps running (weak fairness of its steps), and a
  thread waiting for a mutex that is free again and again gets it (strong
  fairness of the steps that lock `write_output_mutex`), which is what the
  scheduler and pthread mutexes give in practice.  Signals are the user's choice
  and have no fairness.  `audio_filter_mutex` needs none: a device that starves
  on it leaves its loop when the others have.
- `Damage`: the loop turns and reads every event that is queued, and a turn with
  damage sometimes falls on an elapsed frame time (the loop passes that test
  once per frame time).
- `Kms`: both processes take their next step unless they are dead; crashes and
  deaths have no fairness.
- `KmsCapture`, `WindowCapture`: the main loop captures again and again, and time
  passes (`CheckTime`, `Elapse`), as clocks do.  Windows and monitors have no
  fairness.
- `NvfbcCapture`: the main loop turns, a mode switch that began ends, and a dead
  session is retried again and again (strong fairness of `RetryTime`, which a
  running capture disables).  Faults have no fairness.
- `PipewireVideo`: thread and main loop take their steps, and the server says who
  it is and, where the property needs it, sends a first buffer.  Nothing makes
  it stay alive.
- `PortalSession`: the caller goes on and a portal that lives answers, which
  includes that the user ends the dialog.
- `SoundDevice`: the call runs its loop, PulseAudio's main loop returns, and time
  passes (`Elapsed`).  Nothing makes the server answer.
- The other modules state safety only.

### Disagreements the runs demonstrate
- **A file without a leading key frame** (`replay_stale_erased_flag`).
  `frames_erased` is an argument of `save_replay_async` passed by value
  (main.cpp:4234), evaluated before the function locks the mutex (1481).  If an
  audio thread's packet evicts the first packet in between, and it was the key
  frame, the function believes nothing was dropped and starts the file at
  index 0.  `PlayableFile` shows that this is the only way.
- **A pause inside the audio** (`audio_sync_pause_race`).  The audio thread
  computes the time (3932) before it looks at `paused` (3934).  If the main
  thread ends the pause between the two, the thread takes the time from before
  the pause was subtracted, and fills the whole pause with silence.
- **Damage forgotten** (`damage_monitor`).  `on_damage_event` assigns the result
  of each rectangle to `self->damaged` (damage.c:244) instead of or-ing it: an
  event about another monitor clears the flag an earlier event set, and the
  change is not recorded until something else changes.
- **A client that blocks** (`kms_server_dies`).  The client holds the server's
  end of the socketpair open itself, so it can send to a server that is gone; a
  request is left in the socket for each frame until `sendmsg` blocks
  (kms_client.c:447), before the check for a dead server is reached.
- **An encoder that is not there** (`startup_codec`).  Without an h264 encoder,
  `pick_video_codec` says that it tries hevc instead (main.cpp:2738) and checks
  that hevc is there, but leaves `*video_codec` at h264, unlike the opposite
  fallback (2749); the encoder then picked is h264's.

### Known limits that are not runs
These were met while modelling.  The models contain the behaviour; the
properties are stated so that they hold beside it.
- The deque drops one packet per packet received, so after the first
  `replay_buffer_size_secs` it holds a fixed number of packets
  (`CapacityIsPreroll`), not the packets of a fixed time.  If packets come faster
  later on, less time is stored than main.cpp:1128 says.
- "The video will only be saved when the gpu-screen-recorder is closed"
  (main.cpp:1129): in replay mode only SIGUSR1 saves; closing does not, and a
  SIGUSR1 that comes with the stop is not looked at.
- The message about a pause is printed (4212) before `toggle_pause` is cleared
  (4218).  A SIGUSR2 sent in between is lost: with `Patient = FALSE`,
  `PauseFollowsUser` fails.
- The capacity changes as long as the buffer is young: while a pause lasts its
  time counts, afterwards it does not, because the offset grows at the end
  (4214), so a buffer that had begun to drop may grow again.
- A track without a device drifts ahead of the clock: its thread makes at least
  one silent frame per turn (3955) and naps a frame rounded to milliseconds, 21
  for 21.33, so it is up to 1.6 percent too long.  `NeverTwiceAsLong` bounds it by
  the length of the naps.
- A sound server that holds chunks back until they were replaced by silence and
  then hands all of them over makes the track too long, for good: up to twice as
  long as the recording (`NeverTwiceAsLong`), but no longer.
- All audio tracks of a replay are shifted by the first audio packet's
  timestamp, whichever track it is on (1506): with two tracks,
  `FileTimestampsNotNegative` fails for the one that lags.
- A cursor that leaves the recorded area (damage.c:268), or comes back to the
  place it was last noted at (317), causes no frame.
- A server started directly inherits both ends of the socketpair
  (kms_client.c:272) and outlives a client that crashed.
- Any error from the PipeWire server ends a wait of the main thread
  (pipewire_audio.c:13).  Links are requested again whenever something is added,
  and the server refuses the second request; if that refusal comes while a second
  track's combined sink is being made, the function returns before it is there.
- A node or port that is announced while its array is full is never looked at
  again (pipewire_audio.c:189, 217), also when there is room later, though the
  header promises that new applications are linked automatically.
- Only FL and FR ports are linked: an application with one channel is listed
  but never recorded.
- The client gives a frame up when `recvmsg` finds no answer and `waitpid` then
  says that the server has gone (kms_client.c:83-94).  A server that answered and
  died in between leaves that answer in the socketpair, and the next frame takes
  it for its own.  `AnswersMatch` excepts it (`pid = "reaped"`).
- A server of another version drops the request without an answer
  (kms_server.c:607) and the client waits for one as long as the server lives.
- KMS capture.  The server maps CRTCs to connectors once, when it starts
  (kms_server.c:544), while the client looks its monitor up every two seconds.
  A monitor that comes back on another CRTC is not found again; one that takes
  over the CRTC of the recorded monitor is recorded in its place, which the
  comment at kms.c:438 rules out.  `OnlyRecordedIsShown` excepts it
  (`relabelled`); without the exception TLC shows it in seven steps.  On X11
  monitors are never looked up again (a TODO at kms.c:572).  The rotation is
  what the compositor said last, and by type and number it may be another
  monitor's.  `prev_plane_size` keeps the rotated size while it is compared with
  the plane's (kms.c:559), so a rotated monitor's frame is cleared every time;
  `find_largest_drm` falls back to the first item, which may be a cursor.
- A server that `recv_msg_from_server` has reaped keeps its number in
  `kms_server_pid`, and the cleanup sends SIGKILL to it (kms_client.c:389).
- Window capture.  A window resized between the requests for its size and for
  its events is noticed at its next event only (`raced`).  `on_resize` that
  fails has deleted the texture and keeps its name.
- NvFBC.  The size for scaling is asked of Xlib, which may not have read the
  event of the switch yet (`stale`).
- Sound.  A device whose connection failed stays dead: a read returns at once,
  and the audio thread spins on it (main.cpp:3917).
- Overclocking.  A user's own offset is set to zero at the stop.  Errors after
  the encoder was started end the process by `_exit` (main.cpp:3745, 3836), which
  leaves the offset raised, against the comment at overclock.c:9.
- Portal session.  The wait for a response has no timeout and does not look at
  signals (dbus.c:381): a portal that dies is waited for in vain.  A reply that
  comes after its timeout leaves a response that is taken for the next request's.
  The token is spent when it is sent; a run that fails, is killed, or may not
  save after that, and one killed between truncation and write of the file
  (portal.c:136), cost the next run its token.  A run that asks for no
  persistence overwrites a saved token with nothing.  The usage text asks for
  version 5 of ScreenCast, the code for 4.  Of several streams the first is used:
  "Skip over all streams except the last one, since kde can return multiple
  streams even if only 1 is requested. The last one is the valid one" says
  dbus.c:826, but the loop there (827-829) calls
  `screencast_stream_get_pipewire_node`, which recurses into the array anew each
  time (692-694) and never advances in it, so every call reads the first one.
  `NodeOf` does what the code does; no property says which stream is right.
- PipeWire video.  The first buffer is consumed by the start: until the next one
  comes the recording is black.  A picture that waits when a buffer without one
  comes after it is given back undrawn (90-112): a still picture may be left out,
  which `PictureCatchesUp` excepts (`passed_over`).  A buffer of which no image is
  made counts as captured (733-738), and the frame repeats the last picture;
  `NoBufferLost` excepts it (`unimported`).  One failed import with modifiers, be
  it of a buffer read as a format that is not its own, makes the stream import
  without them for good (672): a driver that needs them shows nothing new from
  then on (`NothingImports`).  A buffer of the old format that waits while the
  format changes is mapped with the new one, for a frame.  A stream that dies is
  not noticed.
- A codec of the Vulkan encoder can be chosen by `-k` only where a comment is
  removed; `Startup` does not have them.


## 4. What is proved

Each theorem holds for every value of the constants that satisfies the
module's one assumption (`ReplayAssumption` and so on): the assumptions say that
threads and streams are different from each other, that bounds are natural
numbers, of the PipeWire objects that they are finitely many and that a port is
not a node, and of the codecs that those the code falls back to are among them.
The bounds on time and on the number of signals, faults and changes are
constants like any other, so the theorems do without the bounds of the runs.
`ReplayFilePlays` has one assumption more, that there is one audio track; section
3 says what happens with two.

| module | theorem | statement |
|---|---|---|
| `ReplayBuffer_proofs` | `ReplayTypeCorrect` | `Spec => []TypeOK` |
| | `ReplayQueueIsNewest` | `Spec => []QueueIsNewest` |
| | `ReplayErasedIffForgotten` | `Spec => []ErasedIffForgotten` |
| | `ReplayFileInOrder` | `Spec => []FileTimestampsIncrease` |
| | `ReplayCapacity` | `Spec => []CapacityIsPreroll` |
| | `ReplayFilePlays` | `Spec => []PlayableFile`, with one audio track |
| | `ReplayImplementsService` | `Spec => ImplementsService` |
| `Recorder_proofs` | `RecorderTypeCorrect` | `Spec => []TypeOK` |
| | `RecorderExclusiveUse` | `Spec => []ExclusiveUse` |
| | `RecorderSavesDoNotMix` | `Spec => []SavesDoNotMix` |
| `FramePacing_proofs` | `PacingTypeCorrect` | `Spec => []TypeOK` |
| | `PacingTimestampsIncrease` | `Spec => []TimestampsIncrease` |
| | `PacingVideoInStep` | `Spec => []VideoInStep` |
| | `PacingNotAboveFrameRate` | `Spec => []NotAboveFrameRate` |
| `AudioSync_proofs` | `AudioTypeCorrect` | `Spec => []TypeOK` |
| | `AudioFollowsClock` | `Spec => TrackFollowsClock` (an action property) |
| | `AudioNeverTwiceAsLong` | `Spec => []NeverTwiceAsLong` |
| `Damage_proofs` | `DamageTypeCorrect` | `DamageSpec => []DamageTypeOK` |
| | `DamageNotLost` | `DamageSpec => []NoLostDamage` |
| | `DamageAnnounced` | `DamageSpec => []DamageIsAnnounced` |
| `Kms_proofs` | `KmsTypeCorrect` | `KmsSpec => []KmsTypeOK` |
| | `KmsNoFdLeak` | `KmsSpec => []NoFdLeak` |
| | `KmsAnswersMatch` | `KmsSpec => []AnswersMatch` |
| | `KmsSocketFileRemoved` | `KmsSpec => []SocketFileRemoved` |
| | `MonitorTypeCorrect` | `MonitorSpec => []MonitorTypeOK` |
| | `MonitorOnlyRecorded` | `MonitorSpec => []OnlyRecordedIsShown` |
| `PipewireAudio_proofs` | `PipewireTypeCorrect` | `Spec => []TypeOK` |
| | `PipewireArraysFollowServer` | `Spec => []ArraysFollowServer` |
| | `PipewireRequestedLinks` | `Spec => []RequestedLinks` |
| | `PipewireMainWaits` | `Spec => []MainWaitsForServer` |
| `Backends_proofs` | `StartupTypeCorrect` | `StartupSpec => []StartupTypeOK` |
| | `StartupCodecsFit` | `StartupSpec => []CodecsFitContainer` |
| | `StartupCaptureFits` | `StartupSpec => []CaptureFitsSession` |
| | `WindowTypeCorrect` | `WindowSpec => []WindowTypeOK` |
| | `NvfbcTypeCorrect` | `NvfbcSpec => []NvfbcTypeOK` |
| | `SessionTypeCorrect` | `SessionSpec => []SessionTypeOK` |
| | `SessionResponsesMatch` | `SessionSpec => []ResponsesMatch` |
| | `SessionFailsOnlyWhenRefused` | `SessionSpec => []FailsOnlyWhenRefused` |
| | `SessionTokenStaysValid` | `SessionSpec => []TokenStaysValid` |
| | `VideoTypeCorrect` | `VideoSpec => []VideoTypeOK` |
| | `VideoNoBufferLost` | `VideoSpec => []NoBufferLost` |
| | `SoundTypeCorrect` | `SoundSpec => []SoundTypeOK` |
| | `SoundChunksAreTheStream` | `SoundSpec => ChunksAreTheStream` (an action property) |
| | `OverclockTypeCorrect` | `OverclockSpec => []OverclockTypeOK` |
| | `OverclockIsBearable` | `OverclockSpec => []NotOverclockedBeyondBest` |
| | `BackendsTypeCorrect` | `Spec => []TypeOK` |
| | `BackendsSafe` | `Spec =>` always all eleven safety invariants of the parts |
| | `BackendsChunks` | `Spec => ChunksAreTheStream` |

`QueueIsNewest`, `ErasedIffForgotten`, `DamageIsAnnounced` and
`SocketFileRemoved` are proved without a run of their own; the type invariants of
the parts of `Backends` are checked as `Backends.TypeOK`.

None of the properties is inductive alone.  Each proof module states the
invariant that is, shows that `Init` establishes it and every action keeps it,
and draws the properties from it.

**`ReplayBuffer`.**  `IInv` adds what the properties rest on:

- `PtsBounded` and `PushedInOrder`: each stream's timestamps count up in the
  log, and stay within the type;
- `QueueIsNewest` and `ErasedIffForgotten`: the deque is the log's tail;
- `OneSave`: the main thread is inside `save_replay_async` only while no task
  runs - the reason nobody replaces the copy under a running task;
- `SnapshotIsRun`: from the snapshot until the future is ready, the copy is the
  run of the log that ended at the snapshot, and does not move with the deque;
- `FileIsPrefix`: the file is the copy from its start, shifted, as far as
  written; with it, `FileTimestampsIncrease` follows from `PushedInOrder`,
  since packets of one stream are all shifted by the same offset.

`RecordedIsUnpaused` says that the ticks recorded are the clock less the pauses
that are over and the one that lasts, and that no offset a thread holds is newer
than the present one.  So the age a packet is given lies between what was
recorded and the clock (`ElapsedBetween`).  `CapacityIsPreroll` is proved by its own
induction on top of `IInv`: a push that drops comes after `BufferSecs` on the clock,
so the lower bound is not raised; one that does not comes before `BufferSecs`
of recording, so the upper bound is.  The
refinement maps the log to `pushed`, the job to the run that the copy is of,
and the abstract file to the written packets with their shift undone; each step
is then shown to be a step of `ReplayService` or a stutter.

`PlayableFile` rests on `PlayIInv`, on top of `IInv`: every video packet of the
log that is no key frame has a video packet before it (`VideoBeginsWithKey`), and
until the file is finished the copy has no packet from its start on with a
timestamp below the offset of its stream, and starts at a key frame if
`frames_erased`, as it was passed, was set, at the oldest packet if not
(`CutStays`).  In the second case the copy either is the whole log, whose first
video packet is a key frame, or the race happened.  That offsets fit needs
`QueueInOrder`, and for the audio offset that all audio packets are of one
stream.

**`Recorder`.**  `HoldersAreInside`: a thread whose program counter is inside the
filter graph, or which drains an encoder from there, holds
`audio_filter_mutex`, and one that writes a packet holds `write_output_mutex`;
`ExclusiveUse` follows because a mutex has one holder.  The one place without the
lock is the code after the main loop, where `OthersHaveLeft` shows that nobody
is left to meet.  `OneSaveAtATime` numbers the saves and ties the numbers in the
globals, in the task and in the messages together; it counts a request that is
still a flag and one that has been taken but not begun, which is what bounds the
messages by the requests.

**`FramePacing`.**  `PauseClock` says what the unpaused time is in terms of the
three variables it is computed from, `FrameTime` and `Stamps` that frame times lie
between the last timestamp and that clock.  `Pace` is about the grid of frame
times: the last capture was not before the frame its number says
(`(Captured - 1) * Frame <= last_capture_seconds`), and a sleep that ends a wait
for the next frame ends no earlier than the first frame time that has not been
used.  `NotAboveFrameRate` follows by a division.

**`AudioSync`.**  `TrackLength` counts the chunks that are still to come along with
the frames there are: a chunk is recorded in a tick and is in one place at a time
(`ChunksInTime`), and silence is filled up to the clock at most, so both together
stay below twice the time.  Without a device each frame takes `Pace`, its nap or its
time, whichever is shorter, and a track ahead of the clock grows by one frame per
nap.  `PausesInOrder` says that the pauses subtracted were over
before the present one began, without which the unpaused time could be negative.
`SilenceFills` is the arithmetic of one iteration, from which `TrackFollowsClock`
follows.

**`Damage`.**  `NoLostDamage` and `DamageIsAnnounced` are inductive together: a
change that is in no frame is in the server's region, and then in an event, or
else in the flag, until a capture; `FrameIsRecord` is their type.  The proof
needs that a window is tracked: `damage_monitor` is the counterexample for a
monitor.

**`Kms`.**  `OneMessage`: while the server lives at most one message is in the
socketpair, and none when the client begins a frame.  An answer can be left only
by a server that is dead and has been waited for, and it stays the only one.  `Handshake`: nothing is
exchanged before the handshake is over, so no descriptor is lost in the
connection that is thrown away.

**`KmsCapture`.**  `MapIsRight`: as long as no CRTC has moved, the server's map
gives each lit monitor its own label or none; `LabelsAreRight` says the same of the
planes the capture has asked for, which may be older than the monitors are now.
The type of a plane carries that there is one per monitor.

**`PipewireAudio`.**  `Typed` gives types to the messages on their way.
`AllFollowed` says of each node and port that the last event on its way about it
tells what it is now, and if there is none that the arrays are right or
overflowed.  `CalledFor` extends `OnlyRequestedLinks` to the requests on their
way.  `LinksUnderWay` is the heart: a link that is called for exists, or has been
asked for, or the removal of one of its ends is on its way; when the server
refuses to make one because an end is gone, `AllFollowed` provides the removal.
`PortsGoWithNode` is needed for a device that loses its monitor ports, which would
call for its capture ports instead: its node is on its way out too.
`WaitedFor` is behind `MainWaitsForServer`.  Until main has gone on with the first
sink no link is requested, so none is refused and no error ends the wait early
(`NothingRefused`); the request for the sink is ahead of the round trip that is
waited for, in the calls or already served (`SinkBeforeAnswer`); and each node of
the start is in the array, or on its way ahead of the first answer
(`KnownOrTold`).

**`Startup`.**  `SessionIsFit`, `CodecsAreFit` and `CaptureIsFit` say at each stage
what is settled by then, so that the two properties, which are about the last
stage only, are carried there past every fallback.

**`WindowCapture`, `NvfbcCapture`.**  Each step of a turn is only reached with what
it works on (`KnownAtStep`, `HeldAtStep`): a window to ask about, a handle before a
session, no recreation before the first set-up.  For NvFBC the type invariant is
the interesting statement, that flags and driver agree.

**`PortalSession`.**  While no reply was late, one call, its dialog or its response
is under way at a time, and it is that of the method the caller is at
(`OneAtATime`).  Also with late replies `Start` comes last in every line
(`StartComesLast`), so that what its response says of streams and token is what
the portal did last; `ErrorIsRetried` singles out the one error nobody is to blame
for.  Tokens are honoured wherever they are, in the file, in memory or in a call
(`TokensAreHonoured`).

**`PipewireVideo`.**  `BuffersInOrder`: what waits in PipeWire's queue is newer than
what the stream holds, and that newer than what the capture has taken.
`NewestIsKept`: the newest buffer is with the stream, in the texture that is about
to be drawn, or in the last frame, unless no image could be made of it, and its
damage is noted until it is mapped.

**`NvencOverclock`.**  A level is lifted only by an offset with which no level but a
best one without equal runs above the best (`Bearable`), only while the stop is
still to come, and by a request the driver grants once more at the stop
(`LiftsAreBearable`); during the stop, `GivenBack` says how far it has got.

**`SoundDevice`.**  `FollowsFrom(base)`: counted from the byte the last chunk ended
with, the chunk begun and what is left of the fragment are the bytes that follow,
up to the one received last.  Bytes are numbers modulo `Circle`, so the proof goes
through `RoundTheCircle`.

**`Backends`.**  Every step of the composition is a step of one part and leaves the
others alone (`PartsStep`), so the conjunction of the parts' invariants
(`BackendsIInv`) is inductive because each of them is, and what holds of a part
alone holds of it in the composition.

**Only model-checked.**  The liveness properties `StopTerminates`,
`SignalsAreServed`, `CallsReturn`, `KmsServerExits`, `DamageIsShown`,
`TargetIsFollowed`, `NvfbcIsRecovered` and `StreamIsShown`: liveness under fairness
is beyond the prover.  Every safety property of the passing runs is proved.


## 5. What is not modelled, and why

- Rendering (EGL, shaders, colour conversion), the codec queries, the encoders'
  textures and contexts, the loaders of CUDA, Xlib and NVIDIA libraries, and the
  printing of usage and of lists: they call drivers and have no control flow
  that a property could be about.
- `window_x11.c` and `window_wayland.c` fill their list of monitors once and
  deliver events; `Damage`, `WindowCapture` and `KmsCapture` have the events.
- The frames left inside encoders and the filter graph at a stop are dropped by
  the code; no property is about them.
- In `capture/kms.c` the import fallbacks, the vaapi copy and HDR metadata; in
  `kms_server.c` the GEM handles of planes that `kms_get_fb` skips (335 leaves
  the loop's turn before `drm_mode_cleanup_handles`).
- In `PipewireVideo` cursor metadata, the crop region, the modifier lists
  (`init_modifiers` counts none, 433-441; `params` may have holes, 361-375), a
  `dup` that fails, and the vaapi copy.
- In `PortalSession` a connection to the session bus that fails
  (`gsr_dbus_init`) and a match rule that is refused: the start fails before it
  has asked for anything, and leaves the token file alone.
- In `Startup` bitrates, sizes, quality and the listing commands; they change
  nothing that the properties look at.
- RandR changes in `damage.c`, and the script run after a save.


## 6. Plan

1. RandR changes in `Damage`: the area damage is compared with moves.
2. GEM handles in `Kms`; import fallbacks and HDR metadata in `KmsCapture`.
3. The safety that liveness rests on, as theorems: that the recorder's threads
   cannot all wait for each other, and that an unfinished call, start or stop
   always has a step that is enabled.
4. With two audio tracks, how far below zero `ReplayBuffer`'s timestamps can get.
