----------------------------- MODULE NvfbcCapture -----------------------------
(***************************************************************************)
(* Capture of an X11 screen through NVIDIA's NvFBC (capture/nvfbc.c): a    *)
(* library, a handle and a capture session, each made with the one before. *)
(* A mode switch kills the session; the capture then keeps the recording   *)
(* going and tries once a second to make handle and session anew.          *)
(*                                                                         *)
(* The driver is external: handles and sessions count what it holds for    *)
(* this process, whatever the capture's own flags say.                     *)
(***************************************************************************)
EXTENDS Naturals

CONSTANTS
    MaxSwitches,  \* bound: mode switches
    MaxFaults     \* bound: other calls of the driver that fail

ASSUME NvfbcAssumption == MaxSwitches \in Nat /\ MaxFaults \in Nat

VARIABLES
    tracking,     \* "screen" or "output": tracking_type
    mode,         \* the display's mode, numbered
    present,      \* the X server is not in a modeset and has the output
    switches,     \* mode switches so far
    faults,       \* other failures so far
    handles,      \* handles the driver holds
    sessions,     \* for each capture session it holds, its mode
    step,         \* what the capture is doing
    library,
    fbc_handle_created,
    capture_session_created,
    session_mode, \* the mode whose width and height are kept
    xlib_mode,    \* the mode Xlib knows of
    nvfbc_needs_recreate,
    retry,        \* a second has passed since nvfbc_dead_start
    grabbed,      \* the last turn drew a frame
    stale         \* history: the mode changed around the time it was asked

display == <<tracking, mode, present, switches>>
known == <<xlib_mode, stale>>
driver == <<handles, sessions, faults>>
capture == <<fbc_handle_created, capture_session_created, session_mode>>

nvfbcVars == <<display, driver, step, library, capture,
               nvfbc_needs_recreate, retry, grabbed, known>>

Ended == {"failed", "destroyed"}

NvfbcInit ==
    /\ tracking \in {"screen", "output"}
    /\ mode = 1 /\ present = TRUE /\ switches = 0 /\ faults = 0
    /\ handles = 0 /\ sessions = {}
    /\ step = "load"
    /\ library = FALSE
    /\ fbc_handle_created = FALSE /\ capture_session_created = FALSE
    /\ session_mode = 0 /\ xlib_mode = 1 /\ stale = FALSE
    /\ nvfbc_needs_recreate = FALSE /\ retry = FALSE
    /\ grabbed = FALSE

-----------------------------------------------------------------------------
(* The display, at any time.                                               *)

BeginSwitch ==
    /\ present
    /\ switches < MaxSwitches
    /\ switches' = switches + 1
    /\ present' = FALSE
    /\ mode' = mode + 1
    /\ stale' = (stale \/ step = "session")
    /\ UNCHANGED <<tracking, driver, step, library, capture, xlib_mode,
                   nvfbc_needs_recreate, retry, grabbed>>

EndSwitch ==
    /\ ~present
    /\ present' = TRUE
    /\ UNCHANGED <<tracking, mode, switches, driver, step, library, capture,
                   nvfbc_needs_recreate, retry, grabbed, known>>

(* gsr_damage_on_event, XRRUpdateConfiguration: the main loop reads the    *)
(* event that tells of the new mode between two captures.                  *)
ScreenChangeEvent ==
    /\ step = "running"
    /\ xlib_mode # mode
    /\ xlib_mode' = mode
    /\ UNCHANGED <<display, driver, step, library, capture,
                   nvfbc_needs_recreate, retry, grabbed, stale>>

Fault == faults < MaxFaults /\ faults' = faults + 1

-----------------------------------------------------------------------------
(* gsr_capture_nvfbc_destroy_session and _destroy_handle: they look at the *)
(* flags, and a handle takes its sessions with it.                         *)

DestroySession ==
    /\ capture_session_created' = FALSE
    /\ sessions' = IF fbc_handle_created /\ capture_session_created
                   THEN {} ELSE sessions

DestroyBoth ==
    /\ fbc_handle_created' = FALSE
    /\ capture_session_created' =
           (capture_session_created /\ ~fbc_handle_created)
    /\ IF fbc_handle_created
       THEN handles' = handles - 1 /\ sessions' = {}
       ELSE UNCHANGED <<handles, sessions>>

(* gsr_capture_nvfbc_stop.                                                 *)
Stopped(end) ==
    /\ DestroyBoth
    /\ library' = FALSE
    /\ step' = end

(* gsr_capture_nvfbc_load_library.                                         *)
LoadLibrary ==
    /\ step = "load"
    /\ \/ library' = TRUE /\ step' = "handle" /\ faults' = faults
       \/ Fault /\ library' = FALSE /\ step' = "failed"
    /\ UNCHANGED <<display, handles, sessions, capture, nvfbc_needs_recreate,
                   retry, grabbed, known>>

(* What happens when handle or session cannot be made: a start fails and   *)
(* destroys everything, a capture waits for the next try.                  *)
GivenUp == IF nvfbc_needs_recreate THEN "running" ELSE "stop"

(* nvFBCCreateHandle, with and without the key.                            *)
CreateHandle ==
    /\ step = "handle"
    /\ \/ /\ handles' = handles + 1
          /\ fbc_handle_created' = TRUE
          /\ step' = "status" /\ faults' = faults
       \/ /\ Fault
          /\ step' = GivenUp
          /\ UNCHANGED <<handles, fbc_handle_created>>
    /\ grabbed' = FALSE
    /\ UNCHANGED <<display, sessions, library, capture_session_created,
                   session_mode, nvfbc_needs_recreate, retry, known>>

(* The rest of gsr_capture_nvfbc_setup_handle: an output has to be there   *)
(* and tells its size, that of the screen is what Xlib knows.              *)
HandleStatus ==
    /\ step = "status"
    /\ \/ /\ tracking = "screen" \/ present
          /\ session_mode' = IF tracking = "screen" THEN xlib_mode ELSE mode
          /\ stale' = (session_mode' # mode)
          /\ step' = "session" /\ faults' = faults
          /\ UNCHANGED <<handles, sessions, fbc_handle_created,
                         capture_session_created>>
       \/ /\ \/ tracking = "output" /\ ~present /\ faults' = faults
             \/ Fault
          /\ DestroyBoth
          /\ step' = GivenUp
          /\ UNCHANGED <<session_mode, stale>>
    /\ UNCHANGED <<display, library, nvfbc_needs_recreate, retry, grabbed,
                   xlib_mode>>

(* gsr_capture_nvfbc_setup_session, nvFBCCreateCaptureSession.             *)
CreateSession ==
    /\ step = "session"
    /\ \/ /\ sessions' = sessions \cup {mode}
          /\ capture_session_created' = TRUE
          /\ step' = "setup" /\ faults' = faults
       \/ /\ Fault
          /\ step' = GivenUp
          /\ UNCHANGED <<sessions, capture_session_created>>
    /\ UNCHANGED <<display, handles, library, fbc_handle_created,
                   session_mode, nvfbc_needs_recreate, retry, grabbed, known>>

(* nvFBCToGLSetUp; the recreation goes on to grab a frame at once.         *)
SetUp ==
    /\ step = "setup"
    /\ \/ /\ nvfbc_needs_recreate' = FALSE
          /\ step' = IF nvfbc_needs_recreate THEN "grab" ELSE "running"
          /\ UNCHANGED <<sessions, capture_session_created, faults>>
       \/ /\ Fault
          /\ DestroySession
          /\ step' = GivenUp
          /\ nvfbc_needs_recreate' = nvfbc_needs_recreate
    /\ UNCHANGED <<display, handles, library, fbc_handle_created,
                   session_mode, retry, grabbed, known>>

StartFails ==
    /\ step = "stop"
    /\ Stopped("failed")
    /\ UNCHANGED <<display, faults, session_mode, nvfbc_needs_recreate, retry,
                   grabbed, known>>

-----------------------------------------------------------------------------
(* gsr_capture_nvfbc_capture.                                              *)

CaptureDead ==
    /\ step = "running"
    /\ nvfbc_needs_recreate
    /\ IF retry
       THEN retry' = FALSE /\ DestroyBoth /\ step' = "handle"
       ELSE UNCHANGED <<retry, step, fbc_handle_created,
                        capture_session_created, handles, sessions>>
    /\ grabbed' = FALSE
    /\ UNCHANGED <<display, faults, library, session_mode,
                   nvfbc_needs_recreate, known>>

CaptureAlive ==
    /\ step = "running"
    /\ ~nvfbc_needs_recreate
    /\ step' = "grab"
    /\ UNCHANGED <<display, driver, library, capture, nvfbc_needs_recreate,
                   retry, grabbed, known>>

(* Mutant: a failed grab is only reported.                                 *)
StillAlive == UNCHANGED <<nvfbc_needs_recreate, retry>>

Dead == nvfbc_needs_recreate' = TRUE /\ retry' = FALSE

(* nvFBCToGLGrabFrame: it fails after a mode switch (automatic recovery is *)
(* disabled), or for a reason of the driver's own.                         *)
Grab ==
    /\ step = "grab"
    /\ step' = "running"
    /\ \/ /\ sessions = {mode} /\ present
          /\ grabbed' = TRUE
          /\ UNCHANGED <<nvfbc_needs_recreate, retry, faults>>
       \/ /\ \/ ~(sessions = {mode} /\ present) /\ faults' = faults
             \/ Fault
          /\ Dead
          /\ grabbed' = FALSE
    /\ UNCHANGED <<display, handles, sessions, library, capture, known>>

RetryTime ==
    /\ step = "running"
    /\ nvfbc_needs_recreate /\ ~retry
    /\ retry' = TRUE
    /\ UNCHANGED <<display, driver, step, library, capture,
                   nvfbc_needs_recreate, grabbed, known>>

(* gsr_capture_nvfbc_destroy, at the end of the recording.                 *)
DestroyCapture ==
    /\ step = "running"
    /\ Stopped("destroyed")
    /\ UNCHANGED <<display, faults, session_mode, nvfbc_needs_recreate, retry,
                   grabbed, known>>

NvfbcStep ==
    \/ LoadLibrary \/ CreateHandle \/ HandleStatus \/ CreateSession \/ SetUp
    \/ StartFails \/ CaptureDead \/ CaptureAlive \/ Grab

NvfbcNext ==
    \/ NvfbcStep \/ RetryTime \/ ScreenChangeEvent
    \/ BeginSwitch \/ EndSwitch \/ DestroyCapture

(* The main loop captures again and again, a second passes, and a mode     *)
(* switch ends.                                                            *)
NvfbcFairness ==
    /\ WF_nvfbcVars(NvfbcStep)
    /\ WF_nvfbcVars(EndSwitch)
    /\ SF_nvfbcVars(RetryTime)
NvfbcSpec == NvfbcInit /\ [][NvfbcNext]_nvfbcVars /\ NvfbcFairness

-----------------------------------------------------------------------------
(* Properties.                                                             *)

(* The capture's flags are what the driver holds for it: no handle or      *)
(* session is forgotten, however often and wherever it failed, and none is *)
(* left at the end.                                                        *)
NvfbcTypeOK ==
    /\ tracking \in {"screen", "output"} /\ mode = switches + 1
    /\ {present, library, fbc_handle_created, capture_session_created,
        nvfbc_needs_recreate, retry, grabbed, stale} \subseteq BOOLEAN
    /\ step \in {"load", "handle", "status", "session", "setup", "running",
                 "grab", "stop"} \cup Ended
    /\ session_mode \in 0 .. mode /\ xlib_mode \in 1 .. mode
    /\ faults \in 0 .. MaxFaults
    /\ handles = IF fbc_handle_created THEN 1 ELSE 0
    /\ capture_session_created = (sessions # {})
    /\ capture_session_created => fbc_handle_created /\ library
    /\ step \in Ended => handles = 0 /\ ~library

(* nvfbc.c: "trying again": after the last mode switch and the last fault  *)
(* frames are grabbed again, and scaled from the size they have unless the *)
(* mode changed just when it was asked.                                    *)
NvfbcRecovers ==
    <>[](\/ step \in Ended
         \/ grabbed /\ (stale \/ session_mode = mode))
=============================================================================
