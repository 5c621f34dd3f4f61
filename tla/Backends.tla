------------------------------ MODULE Backends ------------------------------
(***************************************************************************)
(* What a recording runs on: the start-up that chooses it, the capture,    *)
(* which main creates from -w and drives through the interface of          *)
(* capture/capture.c, and beside it the damage tracker of X11, the sound   *)
(* client and the driver's overclocking.  They share no state but the      *)
(* clock and the main thread's turn, so each behaviour is one of one of    *)
(* them, with the others at rest: a recording has one capture, and what is *)
(* said of a part holds whatever the rest does.                            *)
(***************************************************************************)
EXTENDS Kms, KmsCapture, Damage, WindowCapture, NvfbcCapture,
        NvencOverclock, SoundDevice, PortalSession, PipewireVideo, Startup

VARIABLE part     \* the part that is running

Parts == {"startup", "kms", "monitor", "window", "nvfbc", "session",
          "stream", "damage", "sound", "overclock"}

backendVars == <<kmsVars, monitorVars, windowVars, nvfbcVars, sessionVars,
                 videoVars, damageVars, soundVars, overclockVars, startupVars,
                 part>>

(* A part at rest has one state, whatever its Init leaves open.            *)
AtRest(p) == part # p

Init ==
    /\ part \in Parts
    /\ KmsInit
    /\ AtRest("kms") => start = "direct" /\ version = "same"
    /\ MonitorInit
    /\ AtRest("monitor") => is_x11 /\ \A m \in Monitors : ~On(m)
    /\ WindowInit
    /\ AtRest("window") => ~follow /\ focused = Target
    /\ NvfbcInit
    /\ AtRest("nvfbc") => tracking = "screen"
    /\ SessionInit
    /\ AtRest("session") => tokens = 0 /\ portal_version = 5
    /\ VideoInit
    /\ AtRest("stream") => pipewire.recent /\ importer.modifiers
                              /\ importer.bare /\ importer.plain
    /\ DamageInit
    /\ AtRest("damage") =>
           track_type = "window" /\ position = cursor
               /\ cursor = CHOOSE c \in Inside : TRUE
    /\ SoundInit
    /\ AtRest("sound") => task = "device"
    /\ OverclockInit
    /\ AtRest("overclock") =>
           rates = <<>> /\ settable = {} /\ limit = 0 /\ own = 0 /\ asked
    /\ StartupInit

Next ==
    \/ part = "kms" /\ KmsNext
         /\ UNCHANGED <<monitorVars, windowVars, nvfbcVars, sessionVars,
                        videoVars, damageVars, soundVars, overclockVars,
                        startupVars, part>>
    \/ part = "monitor" /\ MonitorNext
         /\ UNCHANGED <<kmsVars, windowVars, nvfbcVars, sessionVars,
                        videoVars, damageVars, soundVars, overclockVars,
                        startupVars, part>>
    \/ part = "window" /\ WindowNext
         /\ UNCHANGED <<kmsVars, monitorVars, nvfbcVars, sessionVars,
                        videoVars, damageVars, soundVars, overclockVars,
                        startupVars, part>>
    \/ part = "nvfbc" /\ NvfbcNext
         /\ UNCHANGED <<kmsVars, monitorVars, windowVars, sessionVars,
                        videoVars, damageVars, soundVars, overclockVars,
                        startupVars, part>>
    \/ part = "session" /\ SessionNext
         /\ UNCHANGED <<kmsVars, monitorVars, windowVars, nvfbcVars,
                        videoVars, damageVars, soundVars, overclockVars,
                        startupVars, part>>
    \/ part = "stream" /\ VideoNext
         /\ UNCHANGED <<kmsVars, monitorVars, windowVars, nvfbcVars,
                        sessionVars, damageVars, soundVars, overclockVars,
                        startupVars, part>>
    \/ part = "damage" /\ DamageNext
         /\ UNCHANGED <<kmsVars, monitorVars, windowVars, nvfbcVars,
                        sessionVars, videoVars, soundVars, overclockVars,
                        startupVars, part>>
    \/ part = "sound" /\ SoundNext
         /\ UNCHANGED <<kmsVars, monitorVars, windowVars, nvfbcVars,
                        sessionVars, videoVars, damageVars, overclockVars,
                        startupVars, part>>
    \/ part = "overclock" /\ OverclockNext
         /\ UNCHANGED <<kmsVars, monitorVars, windowVars, nvfbcVars,
                        sessionVars, videoVars, damageVars, soundVars,
                        startupVars, part>>
    \/ part = "startup" /\ StartupNext
         /\ UNCHANGED <<kmsVars, monitorVars, windowVars, nvfbcVars,
                        sessionVars, videoVars, damageVars, soundVars,
                        overclockVars, part>>

Spec ==
    /\ Init /\ [][Next]_backendVars
    /\ SF_damageVars(part = "damage" /\ OnDamageEvent)
    /\ SF_damageVars(part = "damage" /\ OnOldDamageEvent)
    /\ SF_damageVars(part = "damage" /\ DamageTick)
    /\ WF_damageVars(part = "damage" /\ SkipFrame)
    /\ SF_damageVars(part = "damage" /\ ClearDamage)
    /\ WF_damageVars(part = "damage" /\ Capture)
    /\ WF_kmsVars(part = "kms" /\ Client)
    /\ WF_kmsVars(part = "kms" /\ Server)
    /\ WF_monitorVars(part = "monitor" /\ MonitorStep)
    /\ WF_monitorVars(part = "monitor" /\ CheckTime)
    /\ WF_nvfbcVars(part = "nvfbc" /\ NvfbcStep)
    /\ WF_nvfbcVars(part = "nvfbc" /\ EndSwitch)
    /\ SF_nvfbcVars(part = "nvfbc" /\ RetryTime)
    /\ WF_videoVars(part = "stream" /\ PipewireThread)
    /\ WF_videoVars(part = "stream" /\ StartStep)
    /\ WF_videoVars(part = "stream" /\ PollDamaged)
    /\ WF_videoVars(part = "stream" /\ CaptureFrame)
    /\ WF_videoVars(part = "stream" /\ ServerInfo)
    /\ WF_videoVars(part = "stream" /\ Unused /\ ServerBuffer)
    /\ WF_sessionVars(part = "session" /\ SessionStep)
    /\ WF_sessionVars(part = "session" /\ Portal)
    /\ WF_soundVars(part = "sound" /\ SoundStep)
    /\ WF_soundVars(part = "sound" /\ Iterate)
    /\ WF_soundVars(part = "sound" /\ Elapsed)
    /\ WF_windowVars(part = "window" /\ WindowStep)
    /\ WF_windowVars(part = "window" /\ Elapse)

(* Every part keeps to its own state space, whichever of them runs.        *)
TypeOK ==
    /\ part \in Parts
    /\ KmsTypeOK /\ MonitorTypeOK /\ WindowTypeOK /\ NvfbcTypeOK
    /\ SessionTypeOK /\ VideoTypeOK /\ DamageTypeOK /\ SoundTypeOK
    /\ OverclockTypeOK /\ StartupTypeOK

(* No call waits for ever: neither the KMS client's, setting up the        *)
(* connection or asking for a frame, nor the sound client's, nor the start *)
(* of a portal capture, which waits for the portal and for PipeWire.       *)
CallsReturn ==
    /\ part = "kms" => InitReturns /\ GetReturns
    /\ part = "sound" => SoundCallsReturn
    /\ part = "session" => SessionReturns
    /\ part = "stream" => VideoStartReturns

(* No process of the KMS server outlives its client for good.              *)
KmsServerExits == part = "kms" => ServerExits

(* Content mode shows what a window shows, and its cursor.                 *)
DamageIsShown == part = "damage" => WindowCatchesUp /\ CursorIsCaptured

(* The capture of a window or of a monitor follows it.                     *)
TargetIsFollowed ==
    /\ part = "window" => CaptureFollowsWindow
    /\ part = "monitor" => CaptureFollowsMonitor

(* A mode switch or a fault of the driver does not end an NvFBC capture.   *)
NvfbcIsRecovered == part = "nvfbc" => NvfbcRecovers

(* A portal capture shows what the compositor sends.                       *)
StreamIsShown == part = "stream" => PictureCatchesUp
=============================================================================
