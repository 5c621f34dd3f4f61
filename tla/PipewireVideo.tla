---------------------------- MODULE PipewireVideo ----------------------------
(***************************************************************************)
(* The video stream of a portal session (pipewire_video.c) and the capture *)
(* that draws it (capture/portal.c).  The PipeWire thread keeps the newest *)
(* dma-buf, as file descriptors of its own, and notes that there is one;   *)
(* the main thread takes the descriptors over, draws them and closes them. *)
(*                                                                         *)
(* The server is external: it says who it is, agrees on a format and sends *)
(* buffers, changes the format in between, and may go away.  Callbacks run *)
(* with the thread loop's lock, which the main thread holds while it sets  *)
(* the stream up, and share the buffer with it under the mutex.            *)
(***************************************************************************)
EXTENDS Integers, Sequences

CONSTANTS
    FormatPlanes,       \* planes of a buffer, per format: a sequence
    MaxBuffers    \* bound: buffers the server sends

ASSUME VideoAssumption ==
    /\ FormatPlanes \in Seq(1 .. 2) /\ FormatPlanes # <<>>
    /\ MaxBuffers \in Nat

VARIABLES
    pipewire,     \* [alive, recent (0.3.33 or later), format]
    sent,         \* the format of each buffer it has sent, 0: no picture
    inbox,        \* its messages on their way
    queue,        \* buffers that wait in the stream
    importer,     \* what the driver can do with a buffer of the format:
                  \* import it with modifiers, import it without (bare),
                  \* bind the image to the plain texture
    phase,        \* where start, or the recording, is
    video_turn,   \* where the main loop's turn is
    server_version,
    format,       \* format.info.raw, 0 until negotiated
    dmabuf_data,  \* per plane, the buffer its fd is of: 0 or -1 when none
    video_damaged,
    taken,        \* the dmabuf_data of the capture
    open,         \* descriptors that are open: <<buffer, plane>>
    no_modifiers_fallback, external_texture_fallback,
    textures,     \* what each texture shows: a buffer, read as some format
    video_frame,  \* what the last frame shows
    first,        \* history: the buffer start took
    newest,       \* history: the buffer processed last
    passed_over,  \* history: the last picture dropped unprocessed
    unimported    \* history: the last buffer no image was made of

peer == <<pipewire, sent, inbox, queue>>
shared == <<format, dmabuf_data, video_damaged, newest, passed_over>>
picture == <<no_modifiers_fallback, external_texture_fallback, textures,
             unimported>>
videoStart == <<phase, server_version, first>>
drawn == <<video_turn, taken, video_frame>>

videoVars == <<peer, importer, videoStart, drawn, shared, open, picture>>

NoPlanes == <<0, 0>>
Blank == [buffer |-> 0, format |-> 0]
VideoOver == {"stopped", "failed"}

(* The descriptors behind a dmabuf_data array.                             *)
Fds(data) == {<<data[p], p>> : p \in {q \in DOMAIN data : data[q] > 0}}

VideoInit ==
    /\ pipewire \in [alive : {TRUE}, recent : BOOLEAN, format : {0}]
    /\ sent = <<>> /\ inbox = <<>> /\ queue = <<>>
    /\ importer \in [modifiers : BOOLEAN, bare : BOOLEAN, plain : BOOLEAN]
    /\ phase = "connect" /\ video_turn = "poll"
    /\ server_version = "unknown"
    /\ format = 0 /\ dmabuf_data = NoPlanes /\ video_damaged = FALSE
    /\ taken = NoPlanes /\ open = {}
    /\ no_modifiers_fallback = FALSE /\ external_texture_fallback = FALSE
    /\ textures = [plain |-> Blank, external |-> Blank]
    /\ video_frame = Blank
    /\ first = 0 /\ newest = 0 /\ passed_over = 0 /\ unimported = 0

-----------------------------------------------------------------------------
(* The server.                                                             *)

ServerInfo ==
    /\ pipewire.alive /\ phase = "wait" /\ inbox = <<>>
    /\ inbox' = <<"done">>
    /\ UNCHANGED <<pipewire, sent, queue, importer, videoStart, drawn, shared,
                   open, picture>>

(* Formats are agreed on when the stream is connected, and again when what *)
(* is recorded changes its size; the buffers of the old one are withdrawn. *)
ServerFormat ==
    /\ pipewire.alive /\ phase \in {"frames", "record"} /\ inbox = <<>>
    /\ pipewire.format < Len(FormatPlanes) /\ Len(sent) < MaxBuffers
    /\ pipewire' = [pipewire EXCEPT !.format = @ + 1]
    /\ inbox' = <<"format">> /\ queue' = <<>>
    /\ UNCHANGED <<sent, importer, videoStart, drawn, shared, open, picture>>

(* A format is agreed on to be used.                                       *)
Unused == \A i \in DOMAIN sent : sent[i] # pipewire.format

(* A buffer may hold no picture, as when only the cursor has moved; the    *)
(* bound leaves room for one that does.                                    *)
ServerBuffer ==
    /\ pipewire.alive /\ pipewire.format # 0 /\ inbox = <<>>
    /\ phase \notin VideoOver /\ Len(sent) < MaxBuffers
    /\ \E held \in {0, pipewire.format} :
          /\ held = 0 => ~Unused \/ Len(sent) + 1 < MaxBuffers
          /\ sent' = Append(sent, held)
    /\ queue' = Append(queue, Len(sent'))
    /\ UNCHANGED <<pipewire, inbox, importer, videoStart, drawn, shared, open,
                   picture>>

PipewireDies ==
    /\ pipewire.alive /\ phase \notin VideoOver \cup {"connect"}
    /\ pipewire' = [pipewire EXCEPT !.alive = FALSE]
    /\ inbox' = Append(inbox, "error")
    /\ UNCHANGED <<sent, queue, importer, videoStart, drawn, shared, open,
                   picture>>

-----------------------------------------------------------------------------
(* The PipeWire thread.                                                    *)

(* What ends the wait of setup_stream; the server's version comes with     *)
(* the reply.                                                              *)
Waking == {"done", "error"}

(* Mutant: the format agreed on first is kept.                             *)
FormatKept ==
    IF Head(inbox) = "format" /\ format = 0 THEN pipewire.format ELSE format

NewFormat == IF Head(inbox) = "format" THEN pipewire.format ELSE format

Signalled == phase = "wait" /\ Head(inbox) \in Waking

OnCoreOrParam ==
    /\ inbox # <<>> /\ phase \notin VideoOver
    /\ inbox' = Tail(inbox)
    /\ phase' = IF Signalled THEN "stream" ELSE phase
    /\ server_version' = IF Head(inbox) # "done" THEN server_version
                         ELSE IF pipewire.recent THEN "recent" ELSE "old"
    /\ format' = NewFormat
    /\ UNCHANGED <<pipewire, sent, queue, importer, first, drawn, dmabuf_data,
                   video_damaged, newest, passed_over, open, picture>>

(* The descriptors a new buffer replaces.                                  *)
ReplacedFds(data) == Fds(data)

(* Of the buffers that wait only the newest is used...                     *)
OnProcess ==
    /\ queue # <<>> /\ phase \notin VideoOver
    /\ LET b == queue[Len(queue)]
       IN /\ sent[b] # 0
          /\ dmabuf_data' = [p \in DOMAIN NoPlanes |->
                             IF p <= FormatPlanes[sent[b]] THEN b ELSE -1]
          /\ open' = (open \ ReplacedFds(dmabuf_data)) \cup Fds(dmabuf_data')
          /\ newest' = b
    /\ queue' = <<>>
    /\ video_damaged' = TRUE
    /\ UNCHANGED <<pipewire, sent, inbox, importer, videoStart, drawn, format,
                   passed_over, picture>>

(* ...and if it holds no picture (its chunk's size is 0) none is: those    *)
(* before it have been given back to the server.                           *)
OnProcessEmpty ==
    /\ queue # <<>> /\ phase \notin VideoOver
    /\ sent[queue[Len(queue)]] = 0
    /\ LET dropped == {b \in {queue[i] : i \in DOMAIN queue} : sent[b] # 0}
       IN IF dropped = {}
          THEN UNCHANGED passed_over
          ELSE \E b \in dropped : /\ \A c \in dropped : c <= b
                                 /\ passed_over' = b
    /\ queue' = <<>>
    /\ UNCHANGED <<pipewire, sent, inbox, importer, videoStart, drawn, format,
                   dmabuf_data, video_damaged, newest, open, picture>>

-----------------------------------------------------------------------------
(* The main thread: gsr_pipewire_video_init, then a turn per frame.        *)

CloseFds(fds) == open' = open \ fds

(* gsr_capture_portal_stop closes what the capture and the stream hold.    *)
StopAs(how) ==
    /\ phase' = how
    /\ CloseFds(Fds(taken) \cup Fds(dmabuf_data))
    /\ taken' = NoPlanes /\ dmabuf_data' = NoPlanes
    /\ queue' = <<>> /\ inbox' = <<>>
    /\ video_turn' = "poll"
    /\ UNCHANGED <<pipewire, sent, importer, server_version, first,
                   video_frame, format, video_damaged, newest, passed_over,
                   picture>>

(* With the lock held from here to the wait, the reply finds it waiting.   *)
ConnectRemote ==
    /\ phase = "connect"
    /\ phase' = "wait"
    /\ UNCHANGED <<peer, importer, server_version, first, drawn, shared, open,
                   picture>>

ConnectStream ==
    /\ phase = "stream" /\ server_version = "recent"
    /\ phase' = "frames"
    /\ UNCHANGED <<peer, importer, server_version, first, drawn, shared, open,
                   picture>>

(* Making the loop, the core or the stream fails; a server that is too old *)
(* or whose version is not known cannot be used; no buffer comes in time.  *)
VideoStartFails ==
    \/ phase \in {"connect", "stream"} /\ StopAs("failed")
    \/ phase = "frames" /\ StopAs("failed")

HasTexture == format # 0 /\ dmabuf_data[1] > 0

(* Does a buffer import, with modifiers and without?  That is up to the    *)
(* driver, and to chance if the buffer is not of the format it is read as. *)
Imports(b) ==
    IF sent[b] = format THEN {<<importer.modifiers, importer.bare>>}
    ELSE BOOLEAN \X BOOLEAN

(* gsr_pipewire_video_map_texture.  The image is made without modifiers,   *)
(* and bound to the external texture, once the other way has failed, for   *)
(* good.  Without an image the texture stays as it is; the descriptors are *)
(* handed over all the same.                                               *)
MapTexture ==
    /\ HasTexture
    /\ LET b == dmabuf_data[1]
           shown == [buffer |-> b, format |-> format]
       IN \E imports \in Imports(b) :
            LET image == (imports[1] /\ ~no_modifiers_fallback) \/ imports[2]
            IN  /\ no_modifiers_fallback' =
                       (no_modifiers_fallback \/ ~imports[1])
                /\ external_texture_fallback' =
                       (external_texture_fallback
                            \/ (image /\ ~importer.plain))
                /\ textures' = IF ~image THEN textures
                               ELSE IF external_texture_fallback'
                               THEN [textures EXCEPT !.external = shown]
                               ELSE [textures EXCEPT !.plain = shown]
                /\ unimported' = IF image THEN unimported ELSE b
    /\ dmabuf_data' = [p \in DOMAIN NoPlanes |-> -1]

(* gsr_capture_portal_get_frame_dimensions closes what it took at once:    *)
(* the first buffer gives the size and is not drawn.                       *)
GetDimensions ==
    /\ phase = "frames"
    /\ MapTexture
    /\ CloseFds(Fds(dmabuf_data))
    /\ first' = dmabuf_data[1]
    /\ phase' = "record"
    /\ UNCHANGED <<peer, importer, server_version, drawn, format,
                   video_damaged, newest, passed_over>>

(* Mutant: the damage is cleared when the frame has been drawn.            *)
ClearsLast == [poll |-> "map", clear |-> "poll", map |-> "draw",
               draw |-> "clear"]

NextTurn == [poll |-> "clear", clear |-> "map", map |-> "draw",
             draw |-> "poll"]

Turns(t) == phase = "record" /\ video_turn = t /\ video_turn' = NextTurn[t]

(* The modes other than content take frames without damage too.            *)
Poll ==
    /\ Turns("poll")
    /\ UNCHANGED <<peer, importer, videoStart, taken, video_frame, shared,
                   open, picture>>

PollDamaged == video_damaged /\ Poll

ClearVideoDamage ==
    /\ Turns("clear")
    /\ video_damaged' = FALSE
    /\ UNCHANGED <<peer, importer, videoStart, taken, video_frame, format,
                   dmabuf_data, newest, passed_over, open, picture>>

CaptureMaps ==
    /\ Turns("map")
    /\ MapTexture
    /\ taken' = dmabuf_data
    /\ UNCHANGED <<peer, importer, videoStart, video_frame, format,
                   video_damaged, newest, passed_over, open>>

(* Without a new buffer the frame is the last one again.                   *)
CaptureRepeats ==
    /\ phase = "record" /\ video_turn = "map" /\ ~HasTexture
    /\ video_turn' = NextTurn["draw"]
    /\ UNCHANGED <<peer, importer, videoStart, taken, video_frame, shared,
                   open, picture>>

(* The texture gsr_color_conversion_draw is given.                         *)
Drawn == IF external_texture_fallback THEN textures.external
         ELSE textures.plain

Draw ==
    /\ Turns("draw")
    /\ video_frame' = Drawn
    /\ CloseFds(Fds(taken))
    /\ taken' = NoPlanes
    /\ UNCHANGED <<peer, importer, videoStart, shared, picture>>

CaptureFrame == ClearVideoDamage \/ CaptureMaps \/ CaptureRepeats \/ Draw

StopRecording == phase = "record" /\ video_turn = "poll" /\ StopAs("stopped")

PipewireThread == OnCoreOrParam \/ OnProcess \/ OnProcessEmpty
StartStep == ConnectRemote \/ ConnectStream \/ VideoStartFails \/ GetDimensions

VideoNext ==
    \/ ServerInfo \/ ServerFormat \/ ServerBuffer \/ PipewireDies
    \/ PipewireThread \/ StartStep \/ Poll \/ CaptureFrame \/ StopRecording

VideoFairness ==
    /\ WF_videoVars(PipewireThread)
    /\ WF_videoVars(StartStep)
    /\ WF_videoVars(PollDamaged)
    /\ WF_videoVars(CaptureFrame)
    /\ WF_videoVars(ServerInfo)
    /\ WF_videoVars(Unused /\ ServerBuffer)
VideoSpec == VideoInit /\ [][VideoNext]_videoVars /\ VideoFairness

-----------------------------------------------------------------------------

(* The open descriptors are those the stream and the capture hold: none is *)
(* leaked, none is closed twice or drawn after it was closed.              *)
VideoTypeOK ==
    /\ pipewire.format \in 0 .. Len(FormatPlanes)
    /\ format \in 0 .. pipewire.format
    /\ Len(sent) <= MaxBuffers
    /\ video_turn \in DOMAIN NextTurn
    /\ open = Fds(dmabuf_data) \cup Fds(taken)
    /\ {video_frame.buffer, first, newest, passed_over, unimported}
          \subseteq 0 .. Len(sent)

(* The buffer that was processed last has been drawn, or the damage it did *)
(* is still noted.  The exceptions are the one that start took and one     *)
(* that does not import: then the last frame's picture stays.              *)
NoBufferLost ==
    phase = "record" /\ video_turn = "poll" =>
        video_damaged \/ newest \in {video_frame.buffer, first, unimported}

(* A start ends, also when the server goes away or has nothing to send.    *)
VideoStartReturns ==
    (phase = "connect") ~> (phase \in VideoOver \cup {"record"})

(* No buffer imports, of whatever format, now that an import with          *)
(* modifiers has failed or because none can succeed.                       *)
NothingImports ==
    ~importer.bare /\ (no_modifiers_fallback \/ ~importer.modifiers)

(* A frame sooner or later shows the newest picture, read as the format it *)
(* was sent in.  The exceptions are the picture that start took, one that  *)
(* on_process gave back because a buffer without a picture came after it,  *)
(* and a driver that needs modifiers once one import with them has failed. *)
UpToDate ==
    \/ newest = first
    \/ passed_over > newest
    \/ NothingImports
    \/ video_frame = [buffer |-> newest, format |-> sent[newest]]
PictureCatchesUp ==
    (phase = "record" /\ ~UpToDate)
        ~> (UpToDate \/ phase \in VideoOver \/ ~pipewire.alive)
=============================================================================
