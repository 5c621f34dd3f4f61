------------------------------ MODULE KmsCapture ------------------------------
(***************************************************************************)
(* Which plane the capture of a monitor draws (capture/kms.c), while       *)
(* monitors are turned off and on, change their mode or are rotated.       *)
(*                                                                         *)
(* The server labels every plane with a connector, by a map it makes once, *)
(* when it starts (kms_server.c).  The client looks for the connector of   *)
(* the monitor's name, which it looks up again every two seconds on        *)
(* Wayland and never on X11, where all monitors are areas of one picture.  *)
(* How a monitor is rotated only the display server knows; what it said    *)
(* last is cached.  How planes get from one process to the other is Kms.   *)
(***************************************************************************)
EXTENDS Naturals

CONSTANTS
    Monitors,     \* connectors with a name
    Recorded,     \* the monitor of -w
    Crtcs,        \* the graphics card's; 0 is none
    MaxMonitorChanges   \* bound: what happens to monitors and cursor

ASSUME KmsCaptureAssumption ==
    /\ Recorded \in Monitors
    /\ 0 \notin Monitors
    /\ Crtcs \subseteq Nat \ {0} /\ Crtcs # {}
    /\ MaxMonitorChanges \in Nat

VARIABLES
    is_x11,
    crtc,         \* the CRTC of each monitor, 0: off or disconnected
    picture_of,   \* its picture: [mode, rotated]
    cursor_on,    \* the monitor the cursor is on
    monitor_changes,
    cached,       \* what the display server said of their pictures
    c2crtc_map,   \* the server's map: crtc as it was when it started
    capture_step,
    connector_ids,      \* monitor_id: labels to look for, 0: unknown
    monitor_rotation,   \* is it rotated
    check_due,    \* FIND_CRTC_BY_NAME_TIMEOUT_SECONDS have passed
    items,        \* kms_response: labelled planes
    shot,         \* what the last frame shows
    relabelled    \* history: a CRTC is not that of its label any more

monitors == <<crtc, picture_of, cursor_on, monitor_changes, relabelled>>
monitorVars == <<is_x11, monitors, cached, c2crtc_map, capture_step,
                 connector_ids, monitor_rotation, check_due, items, shot>>

Screen == "screen"     \* everything in one plane
Pictures == [mode : 1 .. 2, rotated : BOOLEAN]
On(m) == crtc[m] # 0

(* kms_get_fb labels the plane of a CRTC with the connector its map has.   *)
Label(c) ==
    IF \E m \in Monitors : c2crtc_map[m] = c
    THEN CHOOSE m \in Monitors : c2crtc_map[m] = c ELSE 0

NoShot == [of |-> "nothing", mode |-> 0, rotated |-> FALSE, cursor |-> FALSE]

MonitorInit ==
    /\ is_x11 \in BOOLEAN
    /\ crtc \in [Monitors -> Crtcs \cup {0}]
    /\ \A m, n \in Monitors : m # n /\ On(m) => crtc[m] # crtc[n]
    /\ picture_of = [m \in Monitors |-> [mode |-> 1, rotated |-> FALSE]]
    /\ cursor_on = Recorded
    /\ monitor_changes = 0
    /\ cached = picture_of
    /\ c2crtc_map = crtc
    /\ capture_step = "start"
    /\ connector_ids = {} /\ monitor_rotation = FALSE
    /\ check_due = FALSE
    /\ items = {}
    /\ shot = NoShot
    /\ relabelled = FALSE

-----------------------------------------------------------------------------
(* Monitors and cursor.                                                    *)

MonitorChanges ==
    /\ monitor_changes < MaxMonitorChanges
    /\ monitor_changes' = monitor_changes + 1
    /\ UNCHANGED <<is_x11, cached, c2crtc_map, capture_step, connector_ids,
                   monitor_rotation, check_due, items, shot>>

TurnOff(m) ==
    /\ MonitorChanges
    /\ On(m)
    /\ crtc' = [crtc EXCEPT ![m] = 0]
    /\ UNCHANGED <<picture_of, cursor_on, relabelled>>

TurnOn(m) ==
    /\ MonitorChanges
    /\ ~On(m)
    /\ \E c \in Crtcs \ {crtc[n] : n \in Monitors} :
          /\ crtc' = [crtc EXCEPT ![m] = c]
          /\ relabelled' = (relabelled \/ Label(c) \notin {m, 0})
    /\ UNCHANGED <<picture_of, cursor_on>>

ChangePicture(m) ==
    /\ MonitorChanges
    /\ \E p \in Pictures : picture_of' = [picture_of EXCEPT ![m] = p]
    /\ UNCHANGED <<crtc, cursor_on, relabelled>>

MoveCursor(m) ==
    /\ MonitorChanges
    /\ cursor_on' = m
    /\ UNCHANGED <<crtc, picture_of, relabelled>>

(* Wayland's output events; on X11 monitors are listed once.               *)
OutputEvents ==
    /\ ~is_x11 /\ cached # picture_of
    /\ cached' = picture_of
    /\ UNCHANGED <<is_x11, monitors, c2crtc_map, capture_step, connector_ids,
                   monitor_rotation, check_due, items, shot>>

-----------------------------------------------------------------------------
(* drm_monitor_get_display_server_rotation of the recorded monitor: by     *)
(* name and size, else by its place among the connectors of its type,      *)
(* which may be another's when some are off.                               *)
LookUpRotation ==
    IF is_x11 \/ cached[Recorded].mode = picture_of[Recorded].mode
    THEN monitor_rotation' = cached[Recorded].rotated
    ELSE monitor_rotation' \in
             {FALSE} \cup {cached[m].rotated : m \in Monitors}

(* gsr_capture_kms_start, when the server is there.  X11 may not tell the  *)
(* connector.                                                              *)
StartMonitor ==
    /\ capture_step = "start"
    /\ IF On(Recorded)
       THEN /\ connector_ids' \in IF is_x11 THEN {{Recorded}, {0}}
                                  ELSE {{Recorded}}
            /\ LookUpRotation
            /\ capture_step' = "idle"
       ELSE /\ capture_step' = "failed"
            /\ UNCHANGED <<connector_ids, monitor_rotation>>
    /\ UNCHANGED <<is_x11, monitors, cached, c2crtc_map, check_due, items,
                   shot>>

(* The capture asks for the planes, and is answered.                       *)
AskForPlanes ==
    /\ capture_step = "idle"
    /\ items' = {[label |-> Label(crtc[m]), of |-> m,
                  mode |-> picture_of[m].mode, cursor |-> cursor_on = m] :
                 m \in {n \in Monitors : On(n)}}
    /\ capture_step' = IF items' = {} THEN "idle" ELSE "update"
    /\ UNCHANGED <<is_x11, monitors, cached, c2crtc_map, connector_ids,
                   monitor_rotation, check_due, shot>>

(* Mutant: a monitor that was not found is not looked for again.           *)
UpdateWhileFound ==
    /\ capture_step = "update"
    /\ IF check_due /\ ~is_x11 /\ connector_ids # {}
       THEN IF On(Recorded)
            THEN connector_ids' = {Recorded} /\ LookUpRotation
            ELSE connector_ids' = {} /\ UNCHANGED monitor_rotation
       ELSE UNCHANGED <<connector_ids, monitor_rotation>>
    /\ check_due' = FALSE
    /\ capture_step' = "draw"
    /\ UNCHANGED <<is_x11, monitors, cached, c2crtc_map, items, shot>>

(* gsr_capture_kms_update_connector_ids.                                   *)
UpdateConnectorIds ==
    /\ capture_step = "update"
    /\ IF check_due /\ ~is_x11
       THEN IF On(Recorded)
            THEN connector_ids' = {Recorded} /\ LookUpRotation
            ELSE connector_ids' = {} /\ UNCHANGED monitor_rotation
       ELSE UNCHANGED <<connector_ids, monitor_rotation>>
    /\ check_due' = FALSE
    /\ capture_step' = "draw"
    /\ UNCHANGED <<is_x11, monitors, cached, c2crtc_map, items, shot>>

(* Mutant: the largest plane will do on Wayland too.                       *)
AnyPlane(found) == found = {}

(* find_monitor_drm: the largest plane only where it has everything.       *)
Combined(found) == found = {} /\ is_x11

(* The plane is drawn, with the cursor if it is on the monitor; without a  *)
(* plane the frame is not.                                                 *)
DrawPlane ==
    /\ capture_step = "draw"
    /\ LET found == {i \in items : i.label \in connector_ids}
       IN \/ /\ found # {}
             /\ \E i \in found :
                  shot' = [of |-> i.of, mode |-> i.mode,
                           rotated |-> monitor_rotation,
                           cursor |-> is_x11 \/ i.cursor]
          \/ /\ Combined(found)
             /\ \E i \in items :
                  shot' = [of |-> IF is_x11 THEN Screen ELSE i.of,
                           mode |-> i.mode, rotated |-> monitor_rotation,
                           cursor |-> TRUE]
          \/ found = {} /\ ~Combined(found) /\ UNCHANGED shot
    /\ items' = {}
    /\ capture_step' = "idle"
    /\ UNCHANGED <<is_x11, monitors, cached, c2crtc_map, connector_ids,
                   monitor_rotation, check_due>>

CheckTime ==
    /\ ~check_due
    /\ check_due' = TRUE
    /\ UNCHANGED <<is_x11, monitors, cached, c2crtc_map, capture_step,
                   connector_ids, monitor_rotation, items, shot>>

MonitorStep ==
    StartMonitor \/ AskForPlanes \/ UpdateConnectorIds \/ DrawPlane

MonitorNext ==
    \/ MonitorStep \/ CheckTime \/ OutputEvents
    \/ \E m \in Monitors :
          TurnOff(m) \/ TurnOn(m) \/ ChangePicture(m) \/ MoveCursor(m)

(* The main loop captures again and again, and time passes.                *)
MonitorFairness == WF_monitorVars(MonitorStep) /\ WF_monitorVars(CheckTime)
MonitorSpec == MonitorInit /\ [][MonitorNext]_monitorVars /\ MonitorFairness

-----------------------------------------------------------------------------
(* Properties.                                                             *)

MonitorTypeOK ==
    /\ crtc \in [Monitors -> Crtcs \cup {0}]
    /\ \A m, n \in Monitors : m # n /\ On(m) => crtc[m] # crtc[n]
    /\ {picture_of, cached} \subseteq [Monitors -> Pictures]
    /\ monitor_changes \in 0 .. MaxMonitorChanges
    /\ capture_step \in {"start", "idle", "update", "draw", "failed"}
    /\ connector_ids \subseteq IF is_x11 THEN {Recorded, 0} ELSE {Recorded}
    /\ {monitor_rotation, check_due, relabelled} \subseteq BOOLEAN
    /\ \A i \in items : i.label \in Monitors \cup {0} /\ i.of \in Monitors
    /\ \A i, j \in items : i.of = j.of => i = j

(* kms.c, "unless the target monitor has been disconnected": whatever is   *)
(* turned off or on, a frame shows no other monitor than the one recorded. *)
(* On Wayland the exception is a CRTC that moved from one monitor to       *)
(* another after the server made its map; on X11, where monitors are only  *)
(* looked up at the start, any change is.                                  *)
OnlyRecordedIsShown ==
    (IF is_x11 THEN monitor_changes = 0 ELSE ~relabelled) =>
        \/ shot.of \in {"nothing", Recorded}
        \/ is_x11 /\ shot.of = Screen

(* After the last change the frames show the monitor again if it is on, as *)
(* it is, once Wayland has told how it is rotated.  A monitor whose CRTC   *)
(* is not the one the server's map has for it is not found again.          *)
CaptureFollowsMonitor ==
    <>[](\/ capture_step = "failed"
         \/ is_x11 \/ relabelled
         \/ crtc[Recorded] \notin Crtcs \cap {c2crtc_map[Recorded]}
         \/ /\ shot.of = Recorded
            /\ shot.mode = picture_of[Recorded].mode
            /\ shot.cursor = (cursor_on = Recorded)
            /\ cached = picture_of =>
                   shot.rotated = picture_of[Recorded].rotated)
=============================================================================
