------------------------------ MODULE Startup ------------------------------
(***************************************************************************)
(* What main does before it records: it reads the options, looks at the    *)
(* session, the GPU and the sound server, changes what it was asked for    *)
(* into what they can do, or exits, and creates capture, encoder, tracks   *)
(* and output.  The order matters: a check sees what was chosen so far,    *)
(* and a choice made later is not checked again.                           *)
(***************************************************************************)
EXTENDS Naturals

CONSTANTS
    Codecs,       \* video codecs of -k, "auto" apart
    Containers    \* file extensions of the output formats

(* Codecs main changes to.                                                 *)
ASSUME StartupAssumption == {"h264", "hevc", "av1", "vp8"} \subseteq Codecs

VARIABLES
    stage,          \* where main is
    requested,      \* -k
    video_codec,
    audio_codec,
    software,       \* use_software_video_encoder
    tracks,         \* what the audio tracks are made of
    source,         \* -w
    wayland,
    nvidia,         \* egl.gpu_info.vendor
    overclocked,    \* overclock
    content,        \* framerate_mode
    destination,    \* where the packets go
    container,      \* file_extension
    supported,      \* codecs the GPU and ffmpeg have an encoder for
    encoder,        \* video_codec_f
    capture_api

codecs == <<requested, video_codec, audio_codec, software>>
session == <<source, wayland, nvidia, overclocked, content>>
muxing == <<destination, container>>
picked == <<supported, encoder>>
startupVars == <<stage, codecs, tracks, session, muxing, picked, capture_api>>

Sources == {"window", "monitor", "portal"}   \* a window, or the focused one
Hdr == {"hevc_hdr", "av1_hdr"}
Av1 == {"av1", "av1_hdr", "av1_10bit"}
Vpx == {"vp8", "vp9"}

StartupInit ==
    /\ stage = "options"
    /\ requested = "auto" /\ video_codec = "h264" /\ audio_codec = "opus"
    /\ software = FALSE /\ tracks = "none"
    /\ source = "monitor" /\ wayland = FALSE /\ nvidia = FALSE
    /\ overclocked = FALSE /\ content = FALSE
    /\ destination = "none" /\ container = "none"
    /\ supported = {} /\ encoder = "none" /\ capture_api = "none"

Exits == stage' = "exited"

-----------------------------------------------------------------------------
(* Options, sound server, session and GPU.                                 *)

(* -k, -ac (flac is disabled: opus instead) and -encoder.                  *)
ParseOptions ==
    /\ stage = "options"
    /\ requested' \in Codecs \cup {"auto"}
    /\ video_codec' = IF requested' = "auto" THEN "h264" ELSE requested'
    /\ audio_codec' \in {"opus", "aac"}
    /\ software' \in BOOLEAN
    /\ stage' = "inputs"
    /\ UNCHANGED <<tracks, session, muxing, picked, capture_api>>

(* -a: a device must exist, applications need PipeWire, and one track does *)
(* not mix app: and app-inverse:.                                          *)
ParseInputs ==
    /\ stage = "inputs"
    /\ tracks' \in {"none", "inputs"}
    /\ stage' \in IF tracks' = "none" THEN {"display"}
                  ELSE {"display", "exited"}
    /\ UNCHANGED <<codecs, session, muxing, picked, capture_api>>

(* -w, and the session: hdr is refused on X11.                             *)
OpenDisplay ==
    /\ stage = "display"
    /\ source' \in Sources
    /\ wayland' \in BOOLEAN
    /\ IF video_codec \in Hdr /\ ~wayland' THEN Exits ELSE stage' = "gpu"
    /\ UNCHANGED <<codecs, tracks, nvidia, overclocked, content, muxing,
                   picked, capture_api>>

(* monitor_capture_use_drm.                                                *)
UsesDrm == wayland \/ ~nvidia

(* -oc is for NVIDIA on X11, and ignored otherwise.                        *)
LoadGpu ==
    /\ stage = "gpu"
    /\ nvidia' \in BOOLEAN
    /\ \E oc \in BOOLEAN : overclocked' = (oc /\ nvidia' /\ ~wayland)
    /\ stage' \in {"modes", "exited"}
    /\ UNCHANGED <<codecs, tracks, source, wayland, content, muxing, picked,
                   capture_api>>

(* -fm: content needs something that tells of damage.                      *)
ParseModes ==
    /\ stage = "modes"
    /\ content' \in BOOLEAN
    /\ IF content' /\ wayland /\ source # "portal"
       THEN Exits ELSE stage' = "output"
    /\ UNCHANGED <<codecs, tracks, source, wayland, nvidia, overclocked,
                   muxing, picked, capture_api>>

(* -o, -r and -c: a replay is not streamed and has a directory and a       *)
(* format, standard output needs a format; ffmpeg may find none.           *)
ParseOutput ==
    /\ stage = "output"
    /\ \E o \in {"none", "path", "url"}, r, c \in BOOLEAN :
          LET rejected == \/ o = "url" /\ r
                          \/ o # "url" /\ r /\ (o = "none" \/ ~c)
                          \/ o = "none" /\ ~c
          IN /\ destination' =
                   IF r THEN "replay"
                   ELSE [url |-> "stream", path |-> "file",
                         none |-> "stdout"][o]
             /\ stage' \in IF rejected THEN {"exited"}
                           ELSE {"codecs", "exited"}
    /\ container' \in Containers
    /\ UNCHANGED <<codecs, tracks, session, picked, capture_api>>

-----------------------------------------------------------------------------
(* Codecs.                                                                 *)

(* Mutant: the portal is asked for hdr.                                    *)
HdrEverywhere(c) == c

(* The portal has no hdr: hdr_video_codec_to_sdr_video_codec.              *)
ForPortal(c) ==
    IF source = "portal" /\ c \in Hdr
    THEN [hevc_hdr |-> "hevc", av1_hdr |-> "av1"][c] ELSE c

(* select_audio_codec_with_fallback.                                       *)
AudioFallback(c) ==
    CASE c = "aac" /\ container = "webm" -> "opus"
      [] c = "opus" /\ container \notin {"mp4", "mkv", "webm"} -> "aac"
      [] OTHER -> c

(* Mutant: hls is looked at before flv and auto have settled the codec.    *)
Av1InHls(c) ==
    IF requested = "auto" THEN IF container = "webm" THEN "vp8" ELSE "h264"
    ELSE IF container = "flv" THEN "h264" ELSE c

(* select_video_codec_with_fallback up to the query.                       *)
ForContainer(c) ==
    IF requested = "auto" THEN IF container = "webm" THEN "vp8" ELSE "h264"
    ELSE IF container = "flv" THEN "h264"
    ELSE IF container = "m3u8" /\ c \in Av1 THEN "hevc" ELSE c

SelectCodecs ==
    /\ stage = "codecs"
    /\ audio_codec' = AudioFallback(audio_codec)
    /\ video_codec' = ForContainer(ForPortal(video_codec))
    /\ IF software /\ video_codec' # "h264" THEN Exits ELSE stage' = "query"
    /\ UNCHANGED <<requested, software, tracks, session, muxing, picked,
                   capture_api>>

(* What pick_video_codec looks for when there is no encoder for c...       *)
LooksFor(c) == IF c = "h264" THEN "hevc" ELSE "h264"

(* ...and the codec it goes on with: only a switch to h264 is noted.       *)
GoesOnWith(c) == "h264"

(* pick_video_codec, with what get_supported_video_codecs finds.           *)
PickVideoCodec ==
    /\ stage = "query"
    /\ supported' \in IF software THEN {{"h264"}}
                      ELSE SUBSET {video_codec, "h264", "hevc"}
    /\ LET direct == IF video_codec \in supported' THEN video_codec ELSE "none"
           again == /\ direct = "none" /\ requested # "auto"
                    /\ container # "flv" /\ video_codec \notin Vpx
       IN /\ video_codec' = IF again THEN GoesOnWith(video_codec)
                            ELSE video_codec
          /\ encoder' = IF again /\ LooksFor(video_codec) \in supported'
                        THEN video_codec' ELSE direct
    /\ IF encoder' = "none" THEN Exits ELSE stage' \in {"capture", "exited"}
    /\ UNCHANGED <<requested, audio_codec, software, tracks, session, muxing,
                   capture_api>>

-----------------------------------------------------------------------------
(* Capture, encoder, tracks and output.                                    *)

(* create_capture_impl: windows need X11, the portal Wayland, and the      *)
(* monitor has to be there.                                                *)
CreateCapture ==
    /\ stage = "capture"
    /\ \/ /\ source = "window"
          /\ capture_api' = "xcomposite"
          /\ IF wayland THEN Exits ELSE stage' \in {"start", "exited"}
       \/ /\ source = "portal"
          /\ capture_api' = "portal"
          /\ IF wayland THEN stage' = "start" ELSE Exits
       \/ /\ source = "monitor"
          /\ capture_api' = IF UsesDrm THEN "kms" ELSE "nvfbc"
          /\ stage' \in {"start", "exited"}
    /\ UNCHANGED <<codecs, tracks, session, muxing, picked>>

(* A live stream without audio is given a silent track; then the capture   *)
(* and the encoder start, the shaders are compiled, and codecs, devices    *)
(* and output are opened: each may fail.                                   *)
StartAll ==
    /\ stage = "start"
    /\ tracks' = IF destination = "stream" /\ tracks = "none" THEN "silent"
                 ELSE tracks
    /\ stage' \in {"recording", "exited"}
    /\ UNCHANGED <<codecs, session, muxing, picked, capture_api>>

StartupNext ==
    \/ ParseOptions \/ ParseInputs \/ OpenDisplay \/ LoadGpu \/ ParseModes
    \/ ParseOutput \/ SelectCodecs \/ PickVideoCodec \/ CreateCapture
    \/ StartAll

StartupSpec == StartupInit /\ [][StartupNext]_startupVars

-----------------------------------------------------------------------------
(* Properties.                                                             *)

StartupTypeOK ==
    /\ stage \in {"options", "inputs", "display", "gpu", "modes", "output",
                  "codecs", "query", "capture", "start", "recording", "exited"}
    /\ requested \in Codecs \cup {"auto"}
    /\ {video_codec} \cup supported \subseteq Codecs
    /\ encoder \in Codecs \cup {"none"}

(* Whatever was asked for, and whichever fallbacks were taken in whichever *)
(* order, the codecs are ones the container holds where main cares: flv    *)
(* gets h264, hls no av1, an unspecified codec in webm is vp8, opus goes   *)
(* to mp4, mkv and webm, and webm gets nothing but opus.                   *)
CodecsFitContainer ==
    stage = "recording" =>
        /\ container = "flv" \/ software => video_codec = "h264"
        /\ container = "m3u8" => video_codec \notin Av1
        /\ container = "webm" /\ requested = "auto" => video_codec = "vp8"
        /\ container = "webm" => audio_codec = "opus"
        /\ audio_codec = "opus" => container \in {"mp4", "mkv", "webm"}

(* Whatever was asked for, the recording can do it: hdr is recorded by the *)
(* one capture that has it, content mode has something that tells of       *)
(* damage, a GPU is overclocked only where the driver allows it, and a     *)
(* live stream has a track.                                                *)
CaptureFitsSession ==
    stage = "recording" =>
        /\ video_codec \in Hdr => capture_api = "kms" /\ wayland
        /\ content => capture_api = "portal" \/ ~wayland
        /\ overclocked => nvidia /\ ~wayland
        /\ capture_api = "nvfbc" => nvidia /\ ~wayland
        /\ destination = "stream" => tracks # "none"

(* main.cpp says of an h264 that is not supported that it tries hevc       *)
(* instead: the encoder picked is one there is.                            *)
EncoderIsSupported == encoder # "none" => encoder \in supported
=============================================================================
