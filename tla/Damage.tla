-------------------------------- MODULE Damage --------------------------------
(***************************************************************************)
(* Damage tracking on X11 (damage.c) and the part of the main loop that    *)
(* uses it in content frame rate mode: a frame is captured only if         *)
(* something on the recorded window or monitor changed since the last one. *)
(* The recorded window may change, when it is the one that has the focus.  *)
(*                                                                         *)
(* The X server accumulates damage and sends an XDamageNotify event when   *)
(* it stops being empty (XDamageReportNonEmpty).  A monitor is tracked     *)
(* through the root window, so damage elsewhere on the desktop is reported *)
(* too and filtered by gsr_damage_on_damage_event.                         *)
(***************************************************************************)
EXTENDS Integers

CONSTANTS
    Tracks,       \* what may be recorded: "window", "monitor"
    Inside,       \* cursor positions on the recorded area
    Outside,      \* cursor positions elsewhere
    Elsewhere,    \* TRUE: the rest of the desktop changes as well
    MaxChanges,   \* bound: changes of the recorded area in one behaviour
    MaxMoves      \* bound: moves of the cursor in one behaviour

ASSUME DamageAssumption ==
    /\ Tracks \subseteq {"window", "monitor"}
    /\ Inside # {} /\ Inside \cap Outside = {}
    /\ Elsewhere \in BOOLEAN
    /\ MaxChanges \in Nat /\ MaxMoves \in Nat

VARIABLES
    track_type,   \* self->track_type; never changes here
    screen,       \* version of the recorded area's content
    cursor,       \* where the cursor is
    moves,        \* how often it has moved
    region,       \* server side damage: parts of {"target", "elsewhere"}
    event,        \* an XDamageNotify is queued
    old_event,    \* one of a damage object that was destroyed is
    damaged,      \* self->damaged
    position,     \* self->cursor.position
    pc,           \* where the main loop is
    frame         \* the last captured frame: content and cursor

server_damage == <<region, event, old_event>>
damageVars == <<track_type, screen, cursor, moves, server_damage, damaged,
                position, pc, frame>>

(* Tracking starts damaged; the noted position is where gsr_cursor_init    *)
(* left it, not where the cursor is.                                       *)
DamageInit ==
    /\ track_type \in Tracks
    /\ screen = 0
    /\ cursor \in Inside
    /\ moves = 0
    /\ region = {}
    /\ event = FALSE /\ old_event = FALSE
    /\ damaged = TRUE
    /\ position \in Inside \cup Outside
    /\ pc = "events"
    /\ frame = [content |-> -1, cursor |-> cursor]

-----------------------------------------------------------------------------
(* The X server and the user.                                              *)

AddDamage(part) ==
    /\ region' = region \cup {part}
    /\ event' = (event \/ region = {})
    /\ old_event' = old_event

ContentChanges ==
    /\ screen < MaxChanges
    /\ screen' = screen + 1
    /\ AddDamage("target")
    /\ UNCHANGED <<track_type, cursor, moves, damaged, position, pc, frame>>

(* A window's damage object reports nothing but the window.                *)
DesktopChanges ==
    /\ Elsewhere /\ track_type = "monitor"
    /\ AddDamage("elsewhere")
    /\ UNCHANGED <<track_type, screen, cursor, moves, damaged, position, pc,
                   frame>>

CursorMoves ==
    /\ moves < MaxMoves
    /\ moves' = moves + 1
    /\ cursor' \in (Inside \cup Outside) \ {cursor}
    /\ UNCHANGED <<track_type, screen, server_damage, damaged, position, pc,
                   frame>>

-----------------------------------------------------------------------------
(* The main loop.                                                          *)

(* Mutant: the damage is not taken from the server.                        *)
OnDamageEventOnly ==
    /\ pc = "events"
    /\ event
    /\ event' = FALSE
    /\ damaged' = TRUE
    /\ UNCHANGED <<track_type, screen, cursor, moves, region, old_event,
                   position, pc, frame>>

(* gsr_damage_on_damage_event: take all the damage; for a monitor the flag *)
(* becomes whether any of its rectangles touches the monitor.              *)
OnDamageEvent ==
    /\ pc = "events"
    /\ event
    /\ event' = FALSE
    /\ region' = {}
    /\ damaged' = IF track_type = "window"
                  THEN TRUE
                  ELSE "target" \in region
    /\ UNCHANGED <<track_type, screen, cursor, moves, old_event, position, pc,
                   frame>>

(* An event of a damage object that is gone still says damage.             *)
OnOldDamageEvent ==
    /\ pc = "events"
    /\ old_event
    /\ old_event' = FALSE
    /\ damaged' = TRUE
    /\ UNCHANGED <<track_type, screen, cursor, moves, region, event, position,
                   pc, frame>>

(* Mutant: the cursor alone decides.                                       *)
DamageTickOverwrites ==
    /\ pc = "events"
    /\ ~event /\ ~old_event
    /\ position' = cursor
    /\ damaged' = (cursor # position /\ cursor \in Inside)
    /\ pc' = "decide"
    /\ UNCHANGED <<track_type, screen, cursor, moves, server_damage, frame>>

(* gsr_damage_tick: with no damage so far, see if the cursor moved.        *)
DamageTick ==
    /\ pc = "events"
    /\ ~event /\ ~old_event
    /\ IF damaged
       THEN UNCHANGED <<damaged, position>>
       ELSE /\ position' = cursor
            /\ damaged' = (cursor # position /\ cursor \in Inside)
    /\ pc' = "decide"
    /\ UNCHANGED <<track_type, screen, cursor, moves, server_damage, frame>>

(* The capture follows the focus to another window: what is recorded is    *)
(* another content, and the cursor is elsewhere in it.                     *)
(* gsr_damage_set_target_window then makes a new damage object.            *)
SetTargetWindow ==
    /\ pc = "decide"
    /\ track_type = "window"
    /\ screen < MaxChanges
    /\ screen' = screen + 1
    /\ cursor' \in Inside \cup Outside
    /\ region' = {}
    /\ event' = FALSE /\ old_event' = (event \/ old_event)
    /\ damaged' = TRUE
    /\ UNCHANGED <<track_type, moves, position, pc, frame>>

(* Not damaged, or the frame time has not elapsed: another turn.           *)
SkipFrame ==
    /\ pc = "decide"
    /\ pc' = "events"
    /\ UNCHANGED <<track_type, screen, cursor, moves, server_damage, damaged,
                   position, frame>>

(* gsr_damage_clear, then the capture.                                     *)
ClearDamage ==
    /\ pc = "decide"
    /\ damaged
    /\ damaged' = FALSE
    /\ pc' = "capture"
    /\ UNCHANGED <<track_type, screen, cursor, moves, server_damage, position,
                   frame>>

Capture ==
    /\ pc = "capture"
    /\ frame' = [content |-> screen, cursor |-> cursor]
    /\ pc' = "events"
    /\ UNCHANGED <<track_type, screen, cursor, moves, server_damage, damaged,
                   position>>

DamageNext ==
    \/ ContentChanges \/ DesktopChanges \/ CursorMoves
    \/ OnDamageEvent
    \/ OnOldDamageEvent
    \/ DamageTick
    \/ SetTargetWindow
    \/ SkipFrame
    \/ ClearDamage
    \/ Capture

DamageSpec == DamageInit /\ [][DamageNext]_damageVars

(* The loop keeps turning, reads every queued event, and a damaged turn    *)
(* falls now and then on an elapsed frame time.                            *)
DamageFairness ==
    /\ SF_damageVars(OnDamageEvent)
    /\ SF_damageVars(OnOldDamageEvent)
    /\ SF_damageVars(DamageTick)
    /\ WF_damageVars(SkipFrame)
    /\ SF_damageVars(ClearDamage)
    /\ WF_damageVars(Capture)
DamageFairSpec == DamageSpec /\ DamageFairness

-----------------------------------------------------------------------------
(* Properties.                                                             *)

DamageTypeOK ==
    /\ track_type \in Tracks
    /\ screen \in 0 .. MaxChanges
    /\ {cursor, position} \subseteq Inside \cup Outside
    /\ moves \in 0 .. MaxMoves
    /\ region \subseteq {"target", "elsewhere"}
    /\ {event, old_event, damaged} \subseteq BOOLEAN
    /\ pc \in {"events", "decide", "capture"}
    /\ frame.content \in -1 .. MaxChanges
    /\ frame.cursor \in Inside \cup Outside

(* A change of a recorded window that is in no frame yet is not forgotten: *)
(* it is noted in the flag, about to be captured, or still with the server.*)
(* (A monitor's flag is overwritten by damage elsewhere.)                  *)
NoLostDamage ==
    track_type = "window" /\ frame.content # screen =>
        damaged \/ pc = "capture" \/ "target" \in region

(* Damage never waits with the server without an event to tell of it: the  *)
(* server sends one only when the damage stops being empty, so damage that *)
(* is not taken would silence all that follows.                            *)
DamageIsAnnounced == region # {} => event

(* Content mode matches the frame rate of the content: whatever is on the  *)
(* screen is sooner or later the last frame's content...                   *)
FrameCatchesUp == frame.content # screen ~> frame.content = screen

(* ...which is so for a window.                                            *)
WindowCatchesUp == track_type = "window" => FrameCatchesUp

(* A cursor that stays somewhere in the window that is not the place noted *)
(* is captured there.  (One that comes back to the place noted, or leaves  *)
(* the window, is not missed by anyone.)                                   *)
CursorIsCaptured ==
    track_type = "window" =>
        \A c \in Inside :
            cursor = c /\ position # c ~> frame.cursor = c \/ cursor # c
=============================================================================
